--------------------------- MODULE RecordsProofs ---------------------------
(***************************************************************************)
(* Theorems about Records, for any pricing files, replies, initial tables, *)
(* ids, queries, page sizes, batch size and intruders that satisfy the     *)
(* assumptions, while requests and changes go on being recorded.           *)
(***************************************************************************)
EXTENDS Records, Sums, FiniteSetTheorems, WellFoundedInduction, TLAPS

-----------------------------------------------------------------------------
(* Rows in order. *)

\* A table as its readers find it: finite, each row with a time and an id of its own.
Listed(rows) == IsFiniteSet(rows) /\ Keyed(rows) /\ \A r \in rows : r.at \in Nat /\ r.id \in Nat

\* A set of natural numbers has a least one.
LEMMA Least ==
    ASSUME NEW T \in SUBSET Nat, T # {}
    PROVE  \E m \in T : \A k \in T : m <= k
<1>1. PICK m \in T : \A k \in T : ~(<<k, m>> \in OpToRel(<, Nat))
  BY NatLessThanWellFounded, WFMin
<1>2. \A k \in T : ~(k < m)
  BY <1>1 DEF OpToRel
<1> QED
  BY <1>2

LEMMA ListedSubset == ASSUME NEW rows, Listed(rows), NEW S \in SUBSET rows PROVE Listed(S)
  BY FS_Subset DEF Listed, Keyed

\* Newest first is a strict total order of a table's rows.
LEMMA Order ==
    ASSUME NEW rows, Listed(rows)
    PROVE  /\ \A r \in rows : ~Newer(r, r)
           /\ \A r, s \in rows : r = s \/ Newer(r, s) \/ Newer(s, r)
           /\ \A r, s, x \in rows : Newer(r, s) /\ Newer(s, x) => Newer(r, x)
  BY DEF Listed, Keyed, Newer

\* The rows of a set that come before, or after, one of them.
Ahead(rows, r) == {s \in rows : Newer(s, r)}
Behind(rows, r) == {s \in rows : Newer(r, s)}

LEMMA AheadSize ==
    ASSUME NEW rows, Listed(rows), NEW r \in rows
    PROVE  /\ IsFiniteSet(Ahead(rows, r)) /\ Cardinality(Ahead(rows, r)) \in Nat
           /\ IsFiniteSet(Behind(rows, r)) /\ Cardinality(Behind(rows, r)) \in Nat
           /\ \A s \in Ahead(rows, r) : Cardinality(Ahead(rows, s)) < Cardinality(Ahead(rows, r))
           /\ \A s \in Behind(rows, r) : Cardinality(Behind(rows, s)) < Cardinality(Behind(rows, r))
<1>1. ASSUME NEW S \in SUBSET rows PROVE IsFiniteSet(S) /\ Cardinality(S) \in Nat
  <2>1. IsFiniteSet(S)
    BY FS_Subset DEF Listed
  <2> QED
    BY <2>1, FS_CardinalityType
<1>2. /\ \A s \in rows : Ahead(rows, s) \in SUBSET rows /\ Behind(rows, s) \in SUBSET rows
  BY DEF Ahead, Behind
<1>3. ASSUME NEW S \in SUBSET rows, NEW T \in SUBSET S, T # S
      PROVE  Cardinality(T) < Cardinality(S)
  <2>1. IsFiniteSet(S) /\ Cardinality(S) \in Nat /\ Cardinality(T) \in Nat
    BY <1>1
  <2>2. Cardinality(T) <= Cardinality(S) /\ Cardinality(T) # Cardinality(S)
    BY <1>3, <2>1, FS_Subset
  <2> QED
    BY <2>1, <2>2
<1>4. ASSUME NEW s \in Ahead(rows, r)
      PROVE  Cardinality(Ahead(rows, s)) < Cardinality(Ahead(rows, r))
  <2>1. Ahead(rows, s) \subseteq Ahead(rows, r) /\ s \notin Ahead(rows, s)
    BY Order DEF Ahead
  <2> QED
    BY <1>2, <1>3, <2>1
<1>5. ASSUME NEW s \in Behind(rows, r)
      PROVE  Cardinality(Behind(rows, s)) < Cardinality(Behind(rows, r))
  <2>1. Behind(rows, s) \subseteq Behind(rows, r) /\ s \notin Behind(rows, s)
    BY Order DEF Behind
  <2> QED
    BY <1>2, <1>3, <2>1
<1> QED
  BY <1>1, <1>2, <1>4, <1>5

\* A set of rows has a newest one and an oldest one, and Last finds the latter.
LEMMA Ends ==
    ASSUME NEW rows, Listed(rows), NEW S \in SUBSET rows, S # {}
    PROVE  /\ \E r \in S : \A s \in S : s = r \/ Newer(r, s)
           /\ Last(S) \in S /\ \A s \in S : s = Last(S) \/ Newer(s, Last(S))
<1>1. Listed(S)
  BY ListedSubset
<1>2. \E r \in S : \A s \in S : s = r \/ Newer(r, s)
  <2>1. PICK r \in S : \A s \in S : Cardinality(Ahead(S, r)) <= Cardinality(Ahead(S, s))
    <3> DEFINE T == {Cardinality(Ahead(S, x)) : x \in S}
    <3>1. T \in SUBSET Nat /\ T # {}
      BY <1>1, AheadSize
    <3>2. PICK m \in T : \A k \in T : m <= k
      <4> HIDE DEF T
      <4> QED
        BY <3>1, Least
    <3> QED
      BY <3>2
  <2>2. Ahead(S, r) = {}
    <3> SUFFICES ASSUME NEW s \in Ahead(S, r) PROVE FALSE
      OBVIOUS
    <3>1. s \in S /\ Cardinality(Ahead(S, s)) < Cardinality(Ahead(S, r))
      BY <1>1, AheadSize DEF Ahead
    <3>2. Cardinality(Ahead(S, s)) \in Nat /\ Cardinality(Ahead(S, r)) \in Nat
      BY <1>1, <3>1, AheadSize
    <3> QED
      BY <2>1, <3>1, <3>2
  <2> QED
    BY <1>1, <2>2, Order DEF Ahead
<1>3. \E r \in S : \A s \in S : s = r \/ Newer(s, r)
  <2>1. PICK r \in S : \A s \in S : Cardinality(Behind(S, r)) <= Cardinality(Behind(S, s))
    <3> DEFINE T == {Cardinality(Behind(S, x)) : x \in S}
    <3>1. T \in SUBSET Nat /\ T # {}
      BY <1>1, AheadSize
    <3>2. PICK m \in T : \A k \in T : m <= k
      <4> HIDE DEF T
      <4> QED
        BY <3>1, Least
    <3> QED
      BY <3>2
  <2>2. Behind(S, r) = {}
    <3> SUFFICES ASSUME NEW s \in Behind(S, r) PROVE FALSE
      OBVIOUS
    <3>1. s \in S /\ Cardinality(Behind(S, s)) < Cardinality(Behind(S, r))
      BY <1>1, AheadSize DEF Behind
    <3>2. Cardinality(Behind(S, s)) \in Nat /\ Cardinality(Behind(S, r)) \in Nat
      BY <1>1, <3>1, AheadSize
    <3> QED
      BY <2>1, <3>1, <3>2
  <2> QED
    BY <1>1, <2>2, Order DEF Behind
<1> QED
  BY <1>2, <1>3 DEF Last

\* A page: no row of it is missing that is newer than one shown; it has as many rows as it may,
\* or all.
LEMMA PageFacts ==
    ASSUME NEW rows, Listed(rows), NEW limit \in Nat
    PROVE  /\ Newest(rows, limit) \subseteq rows
           /\ \A r \in Newest(rows, limit), s \in rows : Newer(s, r) => s \in Newest(rows, limit)
           /\ Cardinality(Newest(rows, limit)) \in Nat
           /\ Cardinality(Newest(rows, limit)) <= limit
           /\ Cardinality(Newest(rows, limit)) < limit => Newest(rows, limit) = rows
           /\ Cardinality(rows) <= limit => Newest(rows, limit) = rows
<1> DEFINE page == Newest(rows, limit)
<1>1. page = {r \in rows : Cardinality(Ahead(rows, r)) < limit}
  BY DEF Newest, Ahead
<1>2. IsFiniteSet(rows) /\ page \in SUBSET rows
  BY <1>1 DEF Listed
<1> HIDE DEF page
<1>3. IsFiniteSet(page) /\ Cardinality(page) \in Nat
  <2>1. IsFiniteSet(page)
    BY <1>2, FS_Subset
  <2> QED
    BY <2>1, FS_CardinalityType
<1>4. ASSUME NEW r \in page, NEW s \in rows, Newer(s, r) PROVE s \in page
  <2>1. s \in Ahead(rows, r) /\ r \in rows
    BY <1>2, <1>4 DEF Ahead
  <2>2. /\ Cardinality(Ahead(rows, s)) < Cardinality(Ahead(rows, r))
        /\ Cardinality(Ahead(rows, s)) \in Nat /\ Cardinality(Ahead(rows, r)) \in Nat
    BY <2>1, AheadSize
  <2> QED
    BY <1>1, <2>2
<1>5. Cardinality(page) <= limit
  <2>1. CASE page = {}
    BY <2>1, FS_EmptySet
  <2>2. CASE page # {}
    <3>1. PICK r \in page : \A s \in page : s = r \/ Newer(s, r)
      BY <1>2, <2>2, Ends
    <3> DEFINE A == Ahead(rows, r)
    <3>2. page \in SUBSET (A \cup {r})
      BY <1>2, <3>1 DEF Ahead
    <3>3. IsFiniteSet(A) /\ Cardinality(A) \in Nat /\ Cardinality(A) < limit
      BY <1>1, <1>2, AheadSize
    <3> HIDE DEF A
    <3>4. /\ IsFiniteSet(A \cup {r})
          /\ Cardinality(A \cup {r}) = IF r \in A THEN Cardinality(A) ELSE Cardinality(A) + 1
      BY <3>3, FS_AddElement
    <3>5. Cardinality(page) <= Cardinality(A \cup {r})
      BY <3>2, <3>4, FS_Subset
    <3> QED
      BY <1>3, <3>3, <3>4, <3>5
  <2> QED
    BY <2>1, <2>2
<1>6. ASSUME page # rows PROVE Cardinality(page) >= limit
  <2> DEFINE rest == rows \ page
  <2>1. PICK r \in rest : \A s \in rest : s = r \/ Newer(r, s)
    <3>1. rest \in SUBSET rows /\ rest # {}
      BY <1>2, <1>6
    <3> HIDE DEF rest
    <3> QED
      BY <3>1, Ends
  <2> DEFINE A == Ahead(rows, r)
  <2>2. A \in SUBSET page
    BY <2>1, Order DEF Ahead
  <2>3. Cardinality(A) \in Nat /\ ~(Cardinality(A) < limit)
    BY <1>1, <2>1, AheadSize
  <2> HIDE DEF A
  <2>4. Cardinality(A) <= Cardinality(page)
    BY <1>3, <2>2, FS_Subset
  <2> QED
    BY <1>3, <2>3, <2>4
<1>7. ASSUME Cardinality(rows) <= limit PROVE page = rows
  <2> SUFFICES ASSUME NEW r \in rows PROVE Cardinality(Ahead(rows, r)) < limit
    BY <1>1
  <2> DEFINE A == Ahead(rows, r)
  <2>1. A \in SUBSET rows /\ r \notin A
    BY Order DEF Ahead
  <2>2. Cardinality(A) \in Nat /\ Cardinality(rows) \in Nat
    BY <1>2, AheadSize, FS_CardinalityType
  <2> HIDE DEF A
  <2>3. Cardinality(A) <= Cardinality(rows) /\ Cardinality(A) # Cardinality(rows)
    BY <1>2, <2>1, FS_Subset
  <2>4. Cardinality(A) < limit
    BY <1>7, <2>2, <2>3
  <2> QED
    BY <2>4 DEF A
<1> QED
  BY <1>2, <1>3, <1>4, <1>5, <1>6, <1>7 DEF page

-----------------------------------------------------------------------------
(* Prices. *)

\* The entries that give a model its price: those that name it, or else its undated name.
Naming(f, provider, m) == {e \in f : e.provider = provider /\ m \in Range(Names(e))}
EntriesFor(f, provider, model) ==
    IF Naming(f, provider, model) # {} THEN Naming(f, provider, model)
    ELSE Naming(f, provider, Undated[model])

LEMMA OnePrice ==
    ASSUME NEW f \in Files, Accepted(f), NEW provider, NEW m
    PROVE  /\ Prices(f, provider, m) = None <=> Naming(f, provider, m) = {}
           /\ \A e \in Naming(f, provider, m) : Prices(f, provider, m) = ModelPrice(e)
<1>1. \A e \in Naming(f, provider, m) : e \in f /\ ModelPrice(e) # None
  BY LedgerAssumption DEF LedgerAssumption, Naming
<1>2. ASSUME NEW e \in Naming(f, provider, m), NEW d \in Naming(f, provider, m), e # d
      PROVE  FALSE
  <2>1. /\ e \in f /\ d \in f /\ e.provider = d.provider
        /\ \E i \in DOMAIN Names(e), j \in DOMAIN Names(d) : Names(e)[i] = Names(d)[j]
    BY DEF Naming, Range
  <2>2. NamedTwice(f)
    BY <1>2, <2>1 DEF NamedTwice
  <2> QED
    BY <2>2 DEF Accepted
<1>3. ASSUME NEW e \in Naming(f, provider, m) PROVE Prices(f, provider, m) = ModelPrice(e)
  <2>1. e = CHOOSE x \in Naming(f, provider, m) : TRUE
    BY <1>2, <1>3
  <2> QED
    BY <1>3, <2>1 DEF Prices, Naming
<1>4. Naming(f, provider, m) = {} => Prices(f, provider, m) = None
  BY DEF Prices, Naming
<1> QED
  BY <1>1, <1>3, <1>4

LEMMA LookupFinds ==
    ASSUME NEW f \in Files, Accepted(f), NEW provider, NEW model
    PROVE  /\ Lookup(f, provider, model) = None <=> EntriesFor(f, provider, model) = {}
           /\ \A e \in EntriesFor(f, provider, model) :
                 /\ Lookup(f, provider, model) = ModelPrice(e)
                 /\ e \in f /\ EntryAccepted(e)
<1>1. \A m : \A e \in Naming(f, provider, m) : e \in f /\ EntryAccepted(e)
  BY DEF Naming, Accepted
<1> QED
  BY <1>1, OnePrice DEF Lookup, EntriesFor

\* The rates a cost is made of.
Effective(price) ==
    {price.input, price.output, CacheRead(price), CacheWrite(price), CacheWrite1h(price)}

\* They are rates of the entry, whole quanta each.
LEMMA EntryRates ==
    ASSUME NEW f \in Files, NEW e \in f, EntryAccepted(e)
    PROVE  \A p \in Effective(ModelPrice(e)) :
              p \in Nat /\ p % Fine = 0 /\ \E field \in DOMAIN e.rates : p = e.rates[field]
<1> DEFINE price == ModelPrice(e)
<1>1. \A field \in DOMAIN e.rates :
         e.rates[field] \in Nat /\ e.rates[field] % Fine = 0 /\ e.rates[field] # None
  <2>1. e.rates \in [DOMAIN e.rates -> Int \cup {NotANumber}]
    BY LedgerAssumption DEF LedgerAssumption
  <2> SUFFICES ASSUME NEW field \in DOMAIN e.rates
               PROVE  /\ e.rates[field] \in Nat /\ e.rates[field] % Fine = 0
                      /\ e.rates[field] # None
    OBVIOUS
  <2>2. e.rates[field] \in Int \cup {NotANumber} /\ IsRate(e.rates[field])
    BY <2>1 DEF EntryAccepted
  <2> QED
    BY <2>2, LedgerAssumption DEF LedgerAssumption, IsRate
<1>2. \A field \in RateFields :
         price[field] = IF field \in DOMAIN e.rates THEN e.rates[field] ELSE None
  BY DEF ModelPrice, Rate
<1>3. "input" \in DOMAIN e.rates /\ "output" \in DOMAIN e.rates
  BY DEF EntryAccepted, Required
<1> HIDE DEF price
<1> DEFINE OfEntry(p) == \E field \in DOMAIN e.rates : p = e.rates[field]
<1>4. OfEntry(price.input) /\ OfEntry(price.output)
  BY <1>2, <1>3 DEF RateFields
<1>5. OfEntry(CacheRead(price)) /\ OfEntry(CacheWrite(price))
  BY <1>2, <1>4 DEF RateFields, CacheRead, CacheWrite
<1>6. OfEntry(CacheWrite1h(price))
  BY <1>2, <1>5 DEF RateFields, CacheWrite1h
<1>7. ASSUME NEW p, OfEntry(p) PROVE p \in Nat /\ p % Fine = 0
  BY <1>1, <1>7
<1> QED
  BY <1>4, <1>5, <1>6, <1>7 DEF Effective, price

LEMMA Exact ==
    ASSUME NEW q \in Nat, NEW n \in Nat \ {0}
    PROVE  (n * q) % n = 0 /\ (n * q) \div n = q
  OBVIOUS

LEMMA Multiple ==
    ASSUME NEW p \in Nat, NEW n \in Nat \ {0}, p % n = 0
    PROVE  p = n * (p \div n) /\ p \div n \in Nat
  OBVIOUS

LEMMA TimesLess ==
    ASSUME NEW u \in Nat, NEW p \in Nat, NEW m \in Nat, m <= p
    PROVE  u * m <= u * p /\ u * m \in Nat /\ u * p \in Nat
  OBVIOUS

TokensOf(usage) ==
    usage.input + usage.output + usage.cache_read + usage.cache_write + usage.cache_write_1h

\* A cost is no less than its tokens at the least of its rates, and no more than at the most.
LEMMA Weighted ==
    ASSUME NEW usage \in UsageRecord, NEW price, \A p \in Effective(price) : p \in Nat
    PROVE  /\ Cost(usage, price) \in Nat
           /\ \E p \in Effective(price) : Cost(usage, price) >= TokensOf(usage) * p
           /\ \E p \in Effective(price) : Cost(usage, price) <= TokensOf(usage) * p
<1> DEFINE u1 == usage.input  u2 == usage.output  u3 == usage.cache_read
           u4 == usage.cache_write  u5 == usage.cache_write_1h
           p1 == price.input  p2 == price.output  p3 == CacheRead(price)
           p4 == CacheWrite(price)  p5 == CacheWrite1h(price)
           sum == u1 * p1 + u2 * p2 + u3 * p3 + u4 * p4 + u5 * p5
           tokens == u1 + u2 + u3 + u4 + u5
<1>1. u1 \in Nat /\ u2 \in Nat /\ u3 \in Nat /\ u4 \in Nat /\ u5 \in Nat
  BY DEF UsageRecord
<1>2. p1 \in Nat /\ p2 \in Nat /\ p3 \in Nat /\ p4 \in Nat /\ p5 \in Nat
  BY DEF Effective
<1>3. Cost(usage, price) = sum /\ TokensOf(usage) = tokens
  BY DEF Cost, TokensOf
<1>4. Effective(price) = {p1, p2, p3, p4, p5}
  BY DEF Effective
<1> HIDE DEF u1, u2, u3, u4, u5, p1, p2, p3, p4, p5
<1>5. PICK low \in {p1, p2, p3, p4, p5} :
         low <= p1 /\ low <= p2 /\ low <= p3 /\ low <= p4 /\ low <= p5
  BY <1>2
<1>6. PICK high \in {p1, p2, p3, p4, p5} :
         p1 <= high /\ p2 <= high /\ p3 <= high /\ p4 <= high /\ p5 <= high
  BY <1>2
<1>7. low \in Nat /\ high \in Nat
  BY <1>2
<1>8. \A p \in {low, high} :
         tokens * p = u1 * p + u2 * p + u3 * p + u4 * p + u5 * p
  BY <1>1, <1>7
<1>9. /\ u1 * low <= u1 * p1 /\ u2 * low <= u2 * p2 /\ u3 * low <= u3 * p3
      /\ u4 * low <= u4 * p4 /\ u5 * low <= u5 * p5
  BY <1>1, <1>2, <1>5, <1>7, TimesLess
<1>10. /\ u1 * p1 <= u1 * high /\ u2 * p2 <= u2 * high /\ u3 * p3 <= u3 * high
      /\ u4 * p4 <= u4 * high /\ u5 * p5 <= u5 * high
  BY <1>1, <1>2, <1>6, <1>7, TimesLess
<1>11. sum \in Nat
  BY <1>1, <1>2, TimesLess
<1>12. sum >= tokens * low
  BY <1>1, <1>2, <1>8, <1>9, <1>7
<1>13. sum <= tokens * high
  BY <1>1, <1>2, <1>8, <1>10, <1>7
<1> QED
  BY <1>3, <1>4, <1>11, <1>12, <1>13

\* What an accepted entry charges is a whole number of nanodollars, within its rates.
LEMMA CostExact ==
    ASSUME NEW f \in Files, NEW e \in f, EntryAccepted(e), NEW usage \in UsageRecord
    PROVE  LET price == ModelPrice(e)
               cost == CostNanousd(usage, price)
           IN  /\ IsWhole(usage, price) /\ cost \in Nat
               /\ \E field \in DOMAIN e.rates : cost * Fine >= TokensOf(usage) * e.rates[field]
               /\ \E field \in DOMAIN e.rates : cost * Fine <= TokensOf(usage) * e.rates[field]
<1> DEFINE price == ModelPrice(e)
           u1 == usage.input  u2 == usage.output  u3 == usage.cache_read
           u4 == usage.cache_write  u5 == usage.cache_write_1h
           p1 == price.input  p2 == price.output  p3 == CacheRead(price)
           p4 == CacheWrite(price)  p5 == CacheWrite1h(price)
           sum == Cost(usage, price)
<1>1. \A p \in Effective(price) :
         p \in Nat /\ p % Fine = 0 /\ \E field \in DOMAIN e.rates : p = e.rates[field]
  BY EntryRates
<1>2. /\ sum \in Nat
      /\ \E p \in Effective(price) : sum >= TokensOf(usage) * p
      /\ \E p \in Effective(price) : sum <= TokensOf(usage) * p
  <2> HIDE DEF price
  <2> QED
    BY <1>1, Weighted
<1>3. Fine \in Nat \ {0}
  BY PricingAssumption DEF PricingAssumption
<1>4. \E q \in Nat : sum = Fine * q
  <2> DEFINE q1 == p1 \div Fine  q2 == p2 \div Fine  q3 == p3 \div Fine
             q4 == p4 \div Fine  q5 == p5 \div Fine
  <2>1. sum = u1 * p1 + u2 * p2 + u3 * p3 + u4 * p4 + u5 * p5
    BY DEF Cost
  <2>2. u1 \in Nat /\ u2 \in Nat /\ u3 \in Nat /\ u4 \in Nat /\ u5 \in Nat
    BY DEF UsageRecord
  <2>3. {p1, p2, p3, p4, p5} = Effective(price)
    BY DEF Effective
  <2> HIDE DEF sum, u1, u2, u3, u4, u5, p1, p2, p3, p4, p5, price
  <2>4. /\ q1 \in Nat /\ q2 \in Nat /\ q3 \in Nat /\ q4 \in Nat /\ q5 \in Nat
        /\ p1 = Fine * q1 /\ p2 = Fine * q2 /\ p3 = Fine * q3 /\ p4 = Fine * q4 /\ p5 = Fine * q5
    BY <1>1, <1>3, <2>3, Multiple
  <2> HIDE DEF q1, q2, q3, q4, q5
  <2> DEFINE q == u1 * q1 + u2 * q2 + u3 * q3 + u4 * q4 + u5 * q5
  <2>5. sum = Fine * q
    BY <1>3, <2>1, <2>2, <2>4
  <2>6. q \in Nat
    BY <2>2, <2>4, TimesLess
  <2> QED
    BY <2>5, <2>6
<1> HIDE DEF sum
<1>5. sum % Fine = 0 /\ (sum \div Fine) * Fine = sum /\ sum \div Fine \in Nat
  BY <1>3, <1>4, Exact
<1> QED
  BY <1>1, <1>2, <1>5 DEF IsWhole, CostNanousd, sum, price

-----------------------------------------------------------------------------
(* Tables. *)

LEMMA RowAdded ==
    ASSUME NEW table, IsFiniteSet(table), Keyed(table), NEW row, \A x \in table : x.id # row.id
    PROVE  IsFiniteSet(table \cup {row}) /\ Keyed(table \cup {row})
  BY FS_AddElement DEF Keyed

\* There is an id for a new row.
LEMMA IdFree ==
    ASSUME NEW table, IsFiniteSet(table)
    PROVE  NewId(table) \in Nat /\ \A x \in table : x.id # NewId(table)
<1> DEFINE size == Cardinality(table)
<1>1. size \in Nat
  BY FS_CardinalityType
<1>2. \E n \in 1 .. size + 1 : \A x \in table : x.id # n
  <2> SUFFICES ASSUME \A n \in 1 .. size + 1 : \E x \in table : x.id = n PROVE FALSE
    OBVIOUS
  <2> DEFINE f == [n \in 1 .. size + 1 |-> CHOOSE x \in table : x.id = n]
  <2>1. f \in [1 .. size + 1 -> table] /\ \A n \in 1 .. size + 1 : f[n].id = n
    OBVIOUS
  <2>2. IsFiniteSet(1 .. size + 1) /\ Cardinality(1 .. size + 1) = size + 1
    BY <1>1, FS_Interval
  <2> HIDE DEF f
  <2>3. \E m, n \in 1 .. size + 1 : m # n /\ f[m] = f[n]
    BY <1>1, <2>1, <2>2, FS_PigeonHole
  <2> QED
    BY <2>1, <2>3
<1> HIDE DEF size
<1> QED
  BY <1>1, <1>2 DEF NewId, size

\* The records of a client: a row recorded since the start is priced by the file, its event is
\* one of two, and its key exists.
PricedRow(row) ==
    LET entries == EntriesFor(file, row.provider, row.model)
    IN  /\ row.cost = None <=> entries = {}
        /\ \A e \in entries :
              /\ \E f \in DOMAIN e.rates : row.cost * Fine >= TokensOf(row.usage) * e.rates[f]
              /\ \E f \in DOMAIN e.rates : row.cost * Fine <= TokensOf(row.usage) * e.rates[f]

RequestStates ==
    {[pc |-> x] : x \in {"idle", "recorded", "unwritten"}} \cup
        [pc : {"sent"}, at : Nat, key : KeyRows]
ChangeStates ==
    {[pc |-> x] : x \in {"idle", "done"}} \cup
        [pc : {"auditing"}, at : Nat, action : {"credential.created", "key.created"}]

StoreInv ==
    /\ file \in Files /\ Accepted(file)
    /\ ledger \subseteq LedgerRows /\ IsFiniteSet(ledger) /\ Keyed(ledger)
    /\ audit_log \subseteq AuditRows /\ IsFiniteSet(audit_log) /\ Keyed(audit_log)
    /\ provider_credentials \subseteq CredentialRows /\ IsFiniteSet(provider_credentials)
    /\ Keyed(provider_credentials) /\ Named(provider_credentials)
    /\ virtual_keys \subseteq KeyRows /\ IsFiniteSet(virtual_keys) /\ Keyed(virtual_keys)
    /\ Linked(virtual_keys, provider_credentials)
    /\ request \in [Requests -> RequestStates]
    /\ \A r \in Requests : request[r].pc = "sent" => request[r].key \in virtual_keys
    /\ change \in [Changes -> ChangeStates]
    /\ cast \in Cast
    /\ now \in 0 .. MaxTime
    /\ \A row \in ledger \ InitialLedger : PricedRow(row)

LEMMA StoreStart == StoreInit => StoreInv
<1> SUFFICES ASSUME StoreInit PROVE StoreInv
  OBVIOUS
<1>1. request \in [Requests -> RequestStates] /\ \A r \in Requests : request[r].pc # "sent"
  BY DEF StoreInit, RequestStates
<1>2. change \in [Changes -> ChangeStates]
  BY DEF StoreInit, ChangeStates
<1>3. now \in 0 .. MaxTime
  BY LedgerAssumption DEF StoreInit, LedgerAssumption
<1>4. ledger \ InitialLedger = {}
  BY DEF StoreInit
<1> QED
  BY <1>1, <1>2, <1>3, <1>4, LedgerAssumption DEF StoreInit, StoreInv, LedgerAssumption

LEMMA BeginStep == ASSUME StoreInv, NEW r \in Requests, Begin(r) PROVE StoreInv'
<1>1. PICK k \in virtual_keys :
         request' = [request EXCEPT ![r] = [pc |-> "sent", at |-> now, key |-> k]]
  BY DEF Begin
<1>2. [pc |-> "sent", at |-> now, key |-> k] \in RequestStates
  <2>1. now \in Nat /\ k \in KeyRows
    BY LedgerAssumption DEF StoreInv, LedgerAssumption
  <2> QED
    BY <2>1 DEF RequestStates
<1>3. request' \in [Requests -> RequestStates]
  BY <1>1, <1>2 DEF StoreInv
<1>4. \A q \in Requests : request'[q].pc = "sent" => request'[q].key \in virtual_keys
  BY <1>1 DEF StoreInv
<1> QED
  BY <1>3, <1>4 DEF StoreInv, Begin, PricedRow

LEMMA TickStep == ASSUME StoreInv, Tick PROVE StoreInv'
<1>1. now' \in 0 .. MaxTime
  BY LedgerAssumption DEF StoreInv, Tick, LedgerAssumption
<1> QED
  BY <1>1 DEF StoreInv, Tick, PricedRow

\* The row of a request is a row of the ledger, priced as the file says; its cost never raises.
LEMMA EntryPriced ==
    ASSUME StoreInv, NEW r \in Requests, request[r].pc = "sent", NEW reply \in Replies, NEW id
    PROVE  LET row == Entry(id, request[r], reply)
           IN  /\ ~Raises(request[r], reply)
               /\ id \in Ids => row \in LedgerRows
               /\ row.id = id /\ PricedRow(row)
<1> DEFINE key == request[r].key
           provider == ProviderOf(key)
           price == Lookup(file, provider, reply.model)
           row == Entry(id, request[r], reply)
           entries == EntriesFor(file, provider, reply.model)
<1>1. request[r].at \in Nat /\ key \in KeyRows /\ key \in virtual_keys
  <2>1. request[r] \in RequestStates
    BY DEF StoreInv
  <2>2. request[r] \in [pc : {"sent"}, at : Nat, key : KeyRows]
    BY <2>1 DEF RequestStates
  <2> QED
    BY <2>2 DEF StoreInv
<1>2. provider \in Providers
  <2>1. \E c \in provider_credentials : c.id = key.credential
    BY <1>1 DEF StoreInv, Linked
  <2>2. (CHOOSE c \in provider_credentials : c.id = key.credential) \in CredentialRows
    BY <2>1 DEF StoreInv
  <2> QED
    BY <2>2 DEF ProviderOf, CredentialRows
<1>3. reply.model \in Models /\ reply.outcome \in Outcomes /\ reply.usage \in UsageRecord
  BY LedgerAssumption DEF LedgerAssumption
<1>4. file \in Files /\ Accepted(file)
  BY DEF StoreInv
<1>5. key.team \in Teams /\ key.id \in Nat
  BY <1>1 DEF KeyRows
<1>6. row = [id |-> id, at |-> request[r].at, team |-> key.team, key |-> key.id,
             provider |-> provider, model |-> reply.model, outcome |-> reply.outcome,
             usage |-> reply.usage,
             cost |-> IF price = None THEN None ELSE CostNanousd(reply.usage, price)]
  BY DEF Entry
<1>7. Raises(request[r], reply) <=> price # None /\ ~IsWhole(reply.usage, price)
  BY DEF Raises
<1>8. /\ price = None <=> entries = {}
      /\ \A e \in entries : price = ModelPrice(e) /\ e \in file /\ EntryAccepted(e)
  BY <1>4, LookupFinds
<1> HIDE DEF key, provider, price, row, entries
<1>9. CASE entries = {}
  <2>1. row.cost = None /\ (id \in Ids => row \in LedgerRows)
    BY <1>1, <1>2, <1>3, <1>5, <1>6, <1>8, <1>9 DEF LedgerRows
  <2>2. PricedRow(row)
    <3>1. EntriesFor(file, row.provider, row.model) = {}
      BY <1>6, <1>9 DEF entries
    <3> QED
      BY <2>1, <3>1 DEF PricedRow
  <2> QED
    BY <1>6, <1>7, <1>8, <1>9, <2>1, <2>2 DEF row
<1>10. CASE entries # {}
  <2>1. \A e \in entries :
           /\ IsWhole(reply.usage, price) /\ CostNanousd(reply.usage, price) \in Nat
           /\ \E f \in DOMAIN e.rates :
                 CostNanousd(reply.usage, price) * Fine >= TokensOf(reply.usage) * e.rates[f]
           /\ \E f \in DOMAIN e.rates :
                 CostNanousd(reply.usage, price) * Fine <= TokensOf(reply.usage) * e.rates[f]
    BY <1>3, <1>4, <1>8, CostExact
  <2>2. price # None
    BY <1>8, <1>10
  <2>3. row.cost = CostNanousd(reply.usage, price) /\ row.usage = reply.usage
    BY <1>6, <2>2
  <2>4. id \in Ids => row \in LedgerRows
    BY <1>1, <1>2, <1>3, <1>5, <1>6, <1>10, <2>1, <2>2 DEF LedgerRows
  <2>5. EntriesFor(file, row.provider, row.model) = entries
    BY <1>6 DEF entries
  <2>6. row.cost # None
    BY <1>10, <2>1, <2>3, LedgerAssumption DEF LedgerAssumption
  <2>7. PricedRow(row)
    BY <1>10, <2>1, <2>3, <2>5, <2>6 DEF PricedRow
  <2> QED
    BY <1>6, <1>7, <1>10, <2>1, <2>4, <2>7 DEF row
<1> QED
  BY <1>9, <1>10

LEMMA RecordStep == ASSUME StoreInv, NEW r \in Requests, Record(r) PROVE StoreInv'
<1>1. PICK reply \in Replies :
         \/ /\ \E id \in FreeIds(ledger) : ledger' = ledger \cup {Entry(id, request[r], reply)}
            /\ request' = [request EXCEPT ![r] = [pc |-> "recorded"]]
         \/ request' = [request EXCEPT ![r] = [pc |-> "unwritten"]] /\ UNCHANGED ledger
  <2>1. request[r].pc = "sent"
    BY DEF Record
  <2>2. \A reply \in Replies : ~Raises(request[r], reply)
    BY <2>1, EntryPriced
  <2> QED
    BY <2>2 DEF Record
<1>2. request[r].pc = "sent"
  BY DEF Record
<1>3. /\ request' \in [Requests -> RequestStates]
      /\ \A q \in Requests : request'[q].pc = "sent" => request'[q].key \in virtual_keys
  <2>1. [pc |-> "recorded"] \in RequestStates /\ [pc |-> "unwritten"] \in RequestStates
    BY DEF RequestStates
  <2> QED
    BY <1>1, <2>1 DEF StoreInv
<1>4. CASE UNCHANGED ledger
  BY <1>3, <1>4 DEF StoreInv, Record, PricedRow
<1>5. ASSUME NEW id \in FreeIds(ledger), ledger' = ledger \cup {Entry(id, request[r], reply)}
      PROVE  StoreInv'
  <2> DEFINE row == Entry(id, request[r], reply)
  <2>1. id \in Ids /\ \A x \in ledger : x.id # id
    BY DEF FreeIds
  <2>2. row \in LedgerRows /\ row.id = id /\ PricedRow(row)
    BY <1>2, <2>1, EntryPriced
  <2>3. ledger' = ledger \cup {row}
    BY <1>5
  <2> HIDE DEF row
  <2>4. ledger' \subseteq LedgerRows /\ IsFiniteSet(ledger') /\ Keyed(ledger')
    BY <2>1, <2>2, <2>3, RowAdded DEF StoreInv
  <2>5. \A x \in ledger' \ InitialLedger : PricedRow(x)
    BY <2>2, <2>3 DEF StoreInv
  <2> QED
    BY <1>3, <2>4, <2>5 DEF StoreInv, Record, PricedRow
<1> QED
  BY <1>1, <1>4, <1>5

LEMMA CreateCredentialStep ==
    ASSUME StoreInv, NEW c \in Changes, CreateCredential(c)
    PROVE  StoreInv'
<1>1. PICK name \in CredentialNames, provider \in Providers :
         IF \E x \in provider_credentials : x.name = name
         THEN change' = [change EXCEPT ![c] = [pc |-> "done"]] /\ UNCHANGED provider_credentials
         ELSE /\ provider_credentials' = provider_credentials \cup
                    {[id |-> NewId(provider_credentials), name |-> name, provider |-> provider]}
              /\ change' = [change EXCEPT ![c] = Auditing("credential.created")]
  BY DEF CreateCredential
<1>2. change' \in [Changes -> ChangeStates]
  <2>1. [pc |-> "done"] \in ChangeStates
    BY DEF ChangeStates
  <2>2. Auditing("credential.created") \in ChangeStates
    BY LedgerAssumption DEF LedgerAssumption, StoreInv, Auditing, ChangeStates
  <2> QED
    BY <1>1, <2>1, <2>2 DEF StoreInv
<1>3. /\ provider_credentials' \subseteq CredentialRows /\ IsFiniteSet(provider_credentials')
      /\ Keyed(provider_credentials') /\ Named(provider_credentials')
      /\ Linked(virtual_keys, provider_credentials')
  <2>1. CASE UNCHANGED provider_credentials
    BY <2>1 DEF StoreInv
  <2>2. CASE /\ ~\E x \in provider_credentials : x.name = name
             /\ provider_credentials' = provider_credentials \cup
                    {[id |-> NewId(provider_credentials), name |-> name, provider |-> provider]}
    <3> DEFINE row == [id |-> NewId(provider_credentials), name |-> name, provider |-> provider]
    <3>1. row \in CredentialRows /\ \A x \in provider_credentials : x.id # row.id
      BY IdFree DEF StoreInv, CredentialRows
    <3>2. row.name = name /\ provider_credentials' = provider_credentials \cup {row}
      BY <2>2
    <3> HIDE DEF row
    <3>3. IsFiniteSet(provider_credentials') /\ Keyed(provider_credentials')
      BY <3>1, <3>2, RowAdded DEF StoreInv
    <3> QED
      BY <2>2, <3>1, <3>2, <3>3 DEF StoreInv, Named, Linked
  <2> QED
    BY <1>1, <2>1, <2>2
<1> QED
  BY <1>2, <1>3 DEF StoreInv, CreateCredential, PricedRow

LEMMA CreateKeyStep == ASSUME StoreInv, NEW c \in Changes, CreateKey(c) PROVE StoreInv'
<1>1. PICK credential \in provider_credentials, team \in Teams :
         virtual_keys' = virtual_keys \cup
             {[id |-> NewId(virtual_keys), team |-> team, credential |-> credential.id]}
  BY DEF CreateKey
<1>2. change' \in [Changes -> ChangeStates]
  <2>1. Auditing("key.created") \in ChangeStates
    BY LedgerAssumption DEF LedgerAssumption, StoreInv, Auditing, ChangeStates
  <2> QED
    BY <2>1 DEF StoreInv, CreateKey
<1> DEFINE row == [id |-> NewId(virtual_keys), team |-> team, credential |-> credential.id]
<1>3. row \in KeyRows /\ \A x \in virtual_keys : x.id # row.id
  BY IdFree DEF StoreInv, CredentialRows, KeyRows
<1>4. row.credential = credential.id /\ virtual_keys' = virtual_keys \cup {row}
  BY <1>1
<1> HIDE DEF row
<1>5. IsFiniteSet(virtual_keys') /\ Keyed(virtual_keys')
  BY <1>3, <1>4, RowAdded DEF StoreInv
<1>6. virtual_keys' \subseteq KeyRows /\ Linked(virtual_keys', provider_credentials)
  BY <1>3, <1>4 DEF StoreInv, Linked
<1>7. \A r \in Requests : request[r].pc = "sent" => request[r].key \in virtual_keys'
  BY <1>4 DEF StoreInv
<1> QED
  BY <1>2, <1>5, <1>6, <1>7 DEF StoreInv, CreateKey, PricedRow

LEMMA AuditStep == ASSUME StoreInv, NEW c \in Changes, Audit(c) PROVE StoreInv'
<1>1. change' \in [Changes -> ChangeStates]
  <2>1. [pc |-> "done"] \in ChangeStates
    BY DEF ChangeStates
  <2> QED
    BY <2>1 DEF StoreInv, Audit
<1>2. CASE UNCHANGED audit_log
  BY <1>1, <1>2 DEF StoreInv, Audit, PricedRow
<1>3. ASSUME NEW id \in FreeIds(audit_log),
             audit_log' = audit_log \cup
                 {[id |-> id, at |-> change[c].at, action |-> change[c].action]}
      PROVE  StoreInv'
  <2> DEFINE row == [id |-> id, at |-> change[c].at, action |-> change[c].action]
  <2>1. change[c].at \in Nat /\ change[c].action \in {"credential.created", "key.created"}
    <3>1. change[c] \in ChangeStates /\ change[c].pc = "auditing"
      BY DEF StoreInv, Audit
    <3> QED
      BY <3>1 DEF ChangeStates
  <2>2. row \in AuditRows /\ \A x \in audit_log : x.id # row.id
    BY <2>1 DEF FreeIds, AuditRows
  <2>3. audit_log' = audit_log \cup {row}
    BY <1>3
  <2> HIDE DEF row
  <2>4. audit_log' \subseteq AuditRows /\ IsFiniteSet(audit_log') /\ Keyed(audit_log')
    BY <2>2, <2>3, RowAdded DEF StoreInv
  <2> QED
    BY <1>1, <2>4 DEF StoreInv, Audit, PricedRow
<1> QED
  BY <1>2, <1>3 DEF Audit

LEMMA ServeStep == ASSUME StoreInv, Serve PROVE StoreInv'
  BY BeginStep, RecordStep, CreateCredentialStep, CreateKeyStep, AuditStep, TickStep DEF Serve

LEMMA StoreSame == ASSUME StoreInv, UNCHANGED storeVars PROVE StoreInv'
  BY DEF StoreInv, storeVars, PricedRow

\* Rows are only added.
Grows ==
    /\ ledger \subseteq ledger' /\ audit_log \subseteq audit_log'
    /\ provider_credentials \subseteq provider_credentials' /\ virtual_keys \subseteq virtual_keys'

LEMMA StoreGrows == ASSUME Serve \/ UNCHANGED storeVars PROVE Grows
<1>1. \A r \in Requests : Begin(r) \/ Record(r) => Grows
  BY DEF Begin, Record, Grows
<1>2. \A c \in Changes : CreateCredential(c) \/ CreateKey(c) \/ Audit(c) => Grows
  BY DEF CreateCredential, CreateKey, Audit, Grows
<1> QED
  BY <1>1, <1>2 DEF Serve, Tick, Grows, storeVars

-----------------------------------------------------------------------------
(* The walk of the ledger. *)

Cursors == [at : Nat, id : Nat]

Walks ==
    [pc : {"walking", "walked"}, query : Queries, limit : Limits, cursor : Cursors \cup {None},
     pages : Seq(SUBSET LedgerRows), base : SUBSET LedgerRows]

InOrder(pages) ==
    \A i, j \in DOMAIN pages : i < j => \A a \in pages[i], b \in pages[j] : Newer(a, b)

\* What was shown is not after the cursor, and what there was at first and was not shown is.
NotAfter(pages, cursor) ==
    \A i \in DOMAIN pages : \A a \in pages[i] :
        (a.at = cursor.at /\ a.id = cursor.id) \/ Newer(a, cursor)

IsShown(r, pages) == \E i \in DOMAIN pages : r \in pages[i]

WalkInv ==
    /\ walk.pc \in {"idle", "walking", "walked", "refused"}
    /\ walk.pc \in {"walking", "walked"} =>
          /\ walk \in Walks
          /\ walk.base \subseteq Filtered(ledger, walk.query)
          /\ InOrder(walk.pages)
          /\ walk.cursor # None => NotAfter(walk.pages, walk.cursor)
          /\ walk.pc = "walking" => (walk.cursor = None <=> walk.pages = <<>>)
          /\ \A r \in walk.base :
                \/ IsShown(r, walk.pages)
                \/ walk.pc = "walking" /\ (walk.cursor = None \/ Newer(walk.cursor, r))

LEMMA LedgerListed == ASSUME StoreInv PROVE Listed(ledger) /\ Listed(audit_log)
  BY LedgerAssumption DEF LedgerAssumption, StoreInv, Listed, LedgerRows, AuditRows

LEMMA Appended ==
    ASSUME NEW S, NEW pages \in Seq(S), NEW page \in S
    PROVE  /\ Append(pages, page) \in Seq(S) /\ Append(pages, page) # <<>>
           /\ DOMAIN Append(pages, page) = 1 .. Len(pages) + 1
           /\ DOMAIN pages = 1 .. Len(pages) /\ Len(pages) \in Nat
           /\ \A i \in DOMAIN pages : Append(pages, page)[i] = pages[i]
           /\ Append(pages, page)[Len(pages) + 1] = page
  OBVIOUS

\* A page and its cursor: what it shows, and that nothing between is left out.
LEMMA OnePage ==
    ASSUME NEW rows, Listed(rows), NEW limit \in Nat \ {0},
           NEW entries, entries = Newest(rows, limit + 1)
    PROVE  LET shown == Shown(entries, limit)
               cursor == NextCursor(entries, limit)
           IN  /\ shown \subseteq rows
               /\ cursor = None => shown = rows
               /\ cursor # None =>
                     /\ cursor \in Cursors
                     /\ \E l \in shown :
                           /\ cursor = Cursor(l)
                           /\ \A a \in shown : a = l \/ Newer(a, l)
                           /\ \A r \in rows : r \in shown \/ Newer(l, r)
<1> DEFINE shown == Newest(entries, limit)
<1>1. /\ entries \subseteq rows
      /\ \A r \in entries, s \in rows : Newer(s, r) => s \in entries
      /\ Cardinality(entries) \in Nat
      /\ Cardinality(entries) < limit + 1 => entries = rows
  BY PageFacts
<1>2. Listed(entries)
  BY <1>1, ListedSubset
<1>3. /\ shown \subseteq entries
      /\ \A r \in shown, s \in entries : Newer(s, r) => s \in shown
      /\ Cardinality(shown) \in Nat
      /\ Cardinality(shown) < limit => shown = entries
      /\ Cardinality(entries) <= limit => shown = entries
  BY <1>2, PageFacts
<1> HIDE DEF shown
<1>4. CASE Cardinality(entries) <= limit
  <2>1. NextCursor(entries, limit) = None
    BY <1>1, <1>4 DEF NextCursor
  <2>2. shown = rows
    BY <1>1, <1>3, <1>4
  <2> QED
    BY <2>1, <2>2 DEF Shown, shown
<1>5. CASE Cardinality(entries) > limit
  <2>1. shown # {}
    <3> SUFFICES ASSUME shown = {} PROVE FALSE
      OBVIOUS
    <3>1. Cardinality(shown) = 0
      BY FS_EmptySet
    <3>2. entries = {}
      BY <1>3, <3>1
    <3> QED
      BY <1>5, <3>1, <3>2
  <2> DEFINE l == Last(shown)
  <2>2. l \in shown /\ \A a \in shown : a = l \/ Newer(a, l)
    BY <1>1, <1>3, <2>1, Ends
  <2>3. NextCursor(entries, limit) = Cursor(l)
    BY <1>5 DEF NextCursor, Shown, shown
  <2> HIDE DEF l
  <2>4. \A r \in rows : r \in shown \/ Newer(l, r)
    <3> SUFFICES ASSUME NEW r \in rows, ~Newer(l, r) PROVE r \in shown
      OBVIOUS
    <3>1. l \in rows /\ l \in entries
      BY <1>1, <1>3, <2>2
    <3>2. r = l \/ Newer(r, l)
      BY <3>1, Order
    <3> QED
      BY <1>1, <1>3, <2>2, <3>1, <3>2
  <2>5. Cursor(l) \in Cursors /\ Cursor(l) # None
    <3>1. l.at \in Nat /\ l.id \in Nat
      BY <1>1, <1>3, <2>2 DEF Listed
    <3> QED
      BY <3>1, ReportsAssumption DEF Cursor, Cursors, ReportsAssumption
  <2> QED
    BY <1>1, <1>3, <2>2, <2>3, <2>4, <2>5 DEF Shown, shown
<1> QED
  BY <1>1, <1>4, <1>5

LEMMA InOrderAppended ==
    ASSUME NEW S, NEW pages \in Seq(S), NEW page \in S, InOrder(pages),
           \A i \in DOMAIN pages : \A a \in pages[i], b \in page : Newer(a, b)
    PROVE  InOrder(Append(pages, page))
<1> DEFINE more == Append(pages, page)
<1>1. /\ DOMAIN more = 1 .. Len(pages) + 1 /\ DOMAIN pages = 1 .. Len(pages) /\ Len(pages) \in Nat
      /\ \A i \in DOMAIN pages : more[i] = pages[i]
      /\ more[Len(pages) + 1] = page
  BY Appended
<1> HIDE DEF more
<1>2. SUFFICES ASSUME NEW i \in DOMAIN more, NEW j \in DOMAIN more, i < j
               PROVE  \A a \in more[i], b \in more[j] : Newer(a, b)
  BY DEF InOrder, more
<1>3. i \in DOMAIN pages /\ more[i] = pages[i]
  BY <1>1, <1>2
<1>4. CASE j \in DOMAIN pages
  BY <1>1, <1>2, <1>3, <1>4 DEF InOrder
<1>5. CASE j = Len(pages) + 1
  BY <1>1, <1>3, <1>5
<1> QED
  BY <1>1, <1>4, <1>5

LEMMA ShownAppended ==
    ASSUME NEW S, NEW pages \in Seq(S), NEW page \in S, NEW r
    PROVE  IsShown(r, Append(pages, page)) <=> IsShown(r, pages) \/ r \in page
<1> DEFINE more == Append(pages, page)
<1>1. /\ DOMAIN more = 1 .. Len(pages) + 1 /\ DOMAIN pages = 1 .. Len(pages) /\ Len(pages) \in Nat
      /\ \A i \in DOMAIN pages : more[i] = pages[i]
      /\ more[Len(pages) + 1] = page
  BY Appended
<1> HIDE DEF more
<1>2. IsShown(r, more) <=> IsShown(r, pages) \/ r \in page
  BY <1>1 DEF IsShown
<1> QED
  BY <1>2 DEF more

LEMMA StartWalkStep == ASSUME StoreInv, WalkInv, StartWalk, UNCHANGED ledger PROVE WalkInv'
<1>1. PICK q \in Queries, limit \in Limits :
         walk' = IF StartBeforeEnd(q)
                 THEN [pc |-> "walking", query |-> q, limit |-> limit, cursor |-> None,
                       pages |-> <<>>, base |-> Filtered(ledger, q)]
                 ELSE [pc |-> "refused"]
  BY DEF StartWalk
<1>2. CASE ~StartBeforeEnd(q)
  <2>1. walk'.pc = "refused"
    BY <1>1, <1>2
  <2> QED
    BY <2>1 DEF WalkInv
<1>3. CASE StartBeforeEnd(q)
  <2>1. Filtered(ledger, q) \subseteq LedgerRows
    BY DEF StoreInv, Filtered
  <2>2. walk' = [pc |-> "walking", query |-> q, limit |-> limit, cursor |-> None,
                 pages |-> <<>>, base |-> Filtered(ledger, q)]
    BY <1>1, <1>3
  <2>3. walk' \in Walks
    BY <2>1, <2>2 DEF Walks
  <2>4. /\ walk'.pc = "walking" /\ walk'.query = q /\ walk'.cursor = None /\ walk'.pages = <<>>
        /\ walk'.base = Filtered(ledger, q)
    BY <2>2
  <2>5. InOrder(walk'.pages)
    BY <2>4 DEF InOrder
  <2>6. walk'.base \subseteq Filtered(ledger', q)
    BY <2>4
  <2> QED
    BY <2>3, <2>4, <2>5, <2>6 DEF WalkInv
<1> QED
  BY <1>2, <1>3

LEMMA requestsStep == ASSUME StoreInv, WalkInv, requests, UNCHANGED ledger PROVE WalkInv'
<1> DEFINE query == walk.query  limit == walk.limit  after == walk.cursor  pages == walk.pages
           rows == {r \in Filtered(ledger, query) : after = None \/ Newer(after, r)}
           entries == Page(query, limit + 1, after)
           shown == Shown(entries, limit)
           cursor == NextCursor(entries, limit)
<1>1. /\ walk.pc = "walking" /\ walk \in Walks
      /\ walk.base \subseteq Filtered(ledger, query)
      /\ InOrder(pages)
      /\ after # None => NotAfter(pages, after)
      /\ after = None <=> pages = <<>>
      /\ \A r \in walk.base : IsShown(r, pages) \/ after = None \/ Newer(after, r)
  BY DEF requests, WalkInv
<1>2. /\ query \in Queries /\ limit \in Limits /\ after \in Cursors \cup {None}
      /\ pages \in Seq(SUBSET LedgerRows) /\ walk.base \in SUBSET LedgerRows
  BY <1>1 DEF Walks
<1>3. limit \in Nat \ {0}
  BY <1>2, ReportsAssumption DEF ReportsAssumption
<1>4. walk' = [walk EXCEPT !.pages = Append(pages, shown), !.cursor = cursor,
                           !.pc = IF cursor = None THEN "walked" ELSE "walking"]
  BY DEF requests
<1>5. Listed(rows) /\ rows \in SUBSET LedgerRows
  BY LedgerListed, ListedSubset DEF Filtered, StoreInv
<1>6. entries = Newest(rows, limit + 1)
  BY DEF Page
<1> HIDE DEF rows, entries
<1>7. /\ shown \subseteq rows
      /\ cursor = None => shown = rows
      /\ cursor # None =>
            /\ cursor \in Cursors
            /\ \E l \in shown :
                  /\ cursor = Cursor(l)
                  /\ \A a \in shown : a = l \/ Newer(a, l)
                  /\ \A r \in rows : r \in shown \/ Newer(l, r)
  BY <1>3, <1>5, <1>6, OnePage
<1> HIDE DEF shown, cursor
<1> DEFINE more == Append(pages, shown)
<1>8. /\ more \in Seq(SUBSET LedgerRows) /\ more # <<>>
      /\ DOMAIN pages = 1 .. Len(pages) /\ Len(pages) \in Nat
      /\ \A r : IsShown(r, more) <=> IsShown(r, pages) \/ r \in shown
  BY <1>2, <1>5, <1>7, Appended, ShownAppended
<1>9. /\ walk' \in Walks
      /\ walk'.pc = IF cursor = None THEN "walked" ELSE "walking"
      /\ walk'.cursor = cursor /\ walk'.pages = more
      /\ walk'.query = query /\ walk'.base = walk.base
  <2>1. cursor \in Cursors \cup {None}
    BY <1>7
  <2> HIDE DEF more
  <2> QED
    BY <1>1, <1>4, <1>8, <2>1 DEF Walks, more
<1>10. \A r \in LedgerRows : r.at \in Nat /\ r.id \in Nat
  BY LedgerAssumption DEF LedgerAssumption, LedgerRows
<1>11. \A i \in DOMAIN pages : \A a \in pages[i], b \in shown : Newer(a, b)
  <2> SUFFICES ASSUME NEW i \in DOMAIN pages, NEW a \in pages[i], NEW b \in shown
               PROVE  Newer(a, b)
    OBVIOUS
  <2>1. after # None
    BY <1>1
  <2>2. (a.at = after.at /\ a.id = after.id) \/ Newer(a, after)
    BY <1>1, <2>1 DEF NotAfter
  <2>3. Newer(after, b)
    BY <1>7, <2>1 DEF rows
  <2>4. a \in LedgerRows /\ b \in LedgerRows /\ after \in Cursors
    BY <1>2, <1>5, <1>7, <2>1
  <2>5. /\ a.at \in Nat /\ a.id \in Nat /\ b.at \in Nat /\ b.id \in Nat
        /\ after.at \in Nat /\ after.id \in Nat
    BY <1>10, <2>4 DEF Cursors
  <2> QED
    BY <2>2, <2>3, <2>5 DEF Newer
<1>12. InOrder(more)
  BY <1>1, <1>2, <1>5, <1>7, <1>11, InOrderAppended
<1> HIDE DEF more
<1>13. \A r \in walk.base : IsShown(r, pages) \/ r \in rows
  BY <1>1 DEF rows
<1>14. CASE cursor = None
  <2>1. \A r \in walk.base : IsShown(r, more)
    BY <1>7, <1>8, <1>13, <1>14
  <2> QED
    BY <1>1, <1>9, <1>12, <1>14, <2>1 DEF WalkInv
<1>15. CASE cursor # None
  <2>1. PICK l \in shown :
           /\ cursor = Cursor(l)
           /\ \A a \in shown : a = l \/ Newer(a, l)
           /\ \A r \in rows : r \in shown \/ Newer(l, r)
    BY <1>7, <1>15
  <2>2. cursor.at = l.at /\ cursor.id = l.id
    BY <2>1 DEF Cursor
  <2>3. NotAfter(more, cursor)
    <3> SUFFICES ASSUME NEW a, IsShown(a, more)
                 PROVE  (a.at = cursor.at /\ a.id = cursor.id) \/ Newer(a, cursor)
      BY DEF NotAfter, IsShown
    <3>1. a = l \/ Newer(a, l)
      BY <1>8, <1>11, <2>1 DEF IsShown
    <3> QED
      BY <2>2, <3>1 DEF Newer
  <2>4. \A r \in walk.base : IsShown(r, more) \/ Newer(cursor, r)
    <3>1. \A r \in rows : r \in shown \/ Newer(cursor, r)
      BY <2>1, <2>2 DEF Newer
    <3> QED
      BY <1>8, <1>13, <3>1
  <2> QED
    BY <1>1, <1>8, <1>9, <1>12, <1>15, <2>3, <2>4 DEF WalkInv
<1> QED
  BY <1>14, <1>15

\* A walk that waits still has all it has to show, whatever is added.
LEMMA WalkWaits == ASSUME WalkInv, Grows, UNCHANGED walk PROVE WalkInv'
<1>1. \A q : Filtered(ledger, q) \subseteq Filtered(ledger', q)
  BY DEF Grows, Filtered
<1> QED
  BY <1>1 DEF WalkInv

-----------------------------------------------------------------------------
(* The review of the audit log. *)

Reviews ==
    [pc : {"reviewing", "reviewed"}, limit : Limits, action : {None, "key.created"},
     before : Nat \cup {None}, pages : Seq(SUBSET AuditRows), base : SUBSET AuditRows]

Earlier(pages) ==
    \A i, j \in DOMAIN pages : i < j => \A a \in pages[i], b \in pages[j] : a.at > b.at

\* The event bears the time of the last event of a page.
Tied(e, pages) == \E i \in DOMAIN pages : pages[i] # {} /\ Last(pages[i]).at = e.at

ReviewInv ==
    /\ review.pc \in {"idle", "reviewing", "reviewed"}
    /\ review.pc \in {"reviewing", "reviewed"} =>
          /\ review \in Reviews
          /\ review.base \subseteq Asked(audit_log, None, review.action)
          /\ Earlier(review.pages)
          /\ review.pc = "reviewing" => (review.before = None <=> review.pages = <<>>)
          /\ review.pc = "reviewing" /\ review.before # None =>
                \A i \in DOMAIN review.pages : \A a \in review.pages[i] : a.at >= review.before
          /\ \A e \in review.base :
                \/ IsShown(e, review.pages) \/ Tied(e, review.pages)
                \/ review.pc = "reviewing" /\ (review.before = None \/ e.at < review.before)

LEMMA EarlierAppended ==
    ASSUME NEW S, NEW pages \in Seq(S), NEW page \in S, Earlier(pages),
           \A i \in DOMAIN pages : \A a \in pages[i], b \in page : a.at > b.at
    PROVE  Earlier(Append(pages, page))
<1> DEFINE more == Append(pages, page)
<1>1. /\ DOMAIN more = 1 .. Len(pages) + 1 /\ DOMAIN pages = 1 .. Len(pages) /\ Len(pages) \in Nat
      /\ \A i \in DOMAIN pages : more[i] = pages[i]
      /\ more[Len(pages) + 1] = page
  BY Appended
<1> HIDE DEF more
<1>2. SUFFICES ASSUME NEW i \in DOMAIN more, NEW j \in DOMAIN more, i < j
               PROVE  \A a \in more[i], b \in more[j] : a.at > b.at
  BY DEF Earlier, more
<1>3. i \in DOMAIN pages /\ more[i] = pages[i]
  BY <1>1, <1>2
<1>4. CASE j \in DOMAIN pages
  BY <1>1, <1>2, <1>3, <1>4 DEF Earlier
<1>5. CASE j = Len(pages) + 1
  BY <1>1, <1>3, <1>5
<1> QED
  BY <1>1, <1>4, <1>5

LEMMA TiedAppended ==
    ASSUME NEW S, NEW pages \in Seq(S), NEW page \in S, NEW e
    PROVE  Tied(e, Append(pages, page)) <=>
              Tied(e, pages) \/ (page # {} /\ Last(page).at = e.at)
<1> DEFINE more == Append(pages, page)
<1>1. /\ DOMAIN more = 1 .. Len(pages) + 1 /\ DOMAIN pages = 1 .. Len(pages) /\ Len(pages) \in Nat
      /\ \A i \in DOMAIN pages : more[i] = pages[i]
      /\ more[Len(pages) + 1] = page
  BY Appended
<1> HIDE DEF more
<1>2. Tied(e, more) <=> Tied(e, pages) \/ (page # {} /\ Last(page).at = e.at)
  BY <1>1 DEF Tied
<1> QED
  BY <1>2 DEF more

LEMMA StartReviewStep ==
    ASSUME StoreInv, ReviewInv, StartReview, UNCHANGED audit_log
    PROVE  ReviewInv'
<1>1. PICK limit \in Limits, action \in {None, "key.created"} :
         review' = [pc |-> "reviewing", limit |-> limit, action |-> action, before |-> None,
                    pages |-> <<>>, base |-> Asked(audit_log, None, action)]
  BY DEF StartReview
<1>2. Asked(audit_log, None, action) \subseteq AuditRows
  BY DEF StoreInv, Asked
<1>3. review' \in Reviews
  BY <1>1, <1>2 DEF Reviews
<1>4. /\ review'.pc = "reviewing" /\ review'.action = action /\ review'.before = None
      /\ review'.pages = <<>> /\ review'.base = Asked(audit_log, None, action)
  BY <1>1
<1>5. Earlier(review'.pages)
  BY <1>4 DEF Earlier
<1> QED
  BY <1>3, <1>4, <1>5 DEF ReviewInv

LEMMA list_audit_eventsStep ==
    ASSUME StoreInv, ReviewInv, list_audit_events, UNCHANGED audit_log
    PROVE  ReviewInv'
<1> DEFINE limit == review.limit  action == review.action  before == review.before
           pages == review.pages
           rows == Asked(audit_log, before, action)
           page == Recent(limit, before, action)
           full == Cardinality(page) = limit
           more == Append(pages, page)
<1>1. /\ review.pc = "reviewing" /\ review \in Reviews
      /\ review.base \subseteq Asked(audit_log, None, action)
      /\ Earlier(pages)
      /\ before = None <=> pages = <<>>
      /\ before # None => \A i \in DOMAIN pages : \A a \in pages[i] : a.at >= before
      /\ \A e \in review.base : \/ IsShown(e, pages) \/ Tied(e, pages)
                                \/ before = None \/ e.at < before
  BY DEF list_audit_events, ReviewInv
<1>2. /\ limit \in Limits /\ action \in {None, "key.created"} /\ before \in Nat \cup {None}
      /\ pages \in Seq(SUBSET AuditRows) /\ review.base \in SUBSET AuditRows
  BY <1>1 DEF Reviews
<1>3. limit \in Nat \ {0}
  BY <1>2, ReportsAssumption DEF ReportsAssumption
<1>4. review' = [review EXCEPT !.pages = more, !.before = IF full THEN Last(page).at ELSE before,
                               !.pc = IF full THEN "reviewing" ELSE "reviewed"]
  BY DEF list_audit_events
<1>5. Listed(rows) /\ rows \in SUBSET AuditRows
  BY LedgerListed, ListedSubset DEF Asked, StoreInv
<1>6. page = Newest(rows, limit)
  BY DEF Recent
<1>7. \A e \in rows : before = None \/ e.at < before
  BY DEF Asked
<1>8. \A e \in review.base : IsShown(e, pages) \/ Tied(e, pages) \/ e \in rows
  BY <1>1 DEF Asked
<1> HIDE DEF rows, page
<1>9. /\ page \subseteq rows
      /\ \A r \in page, s \in rows : Newer(s, r) => s \in page
      /\ Cardinality(page) \in Nat
      /\ Cardinality(page) <= limit
      /\ Cardinality(page) < limit => page = rows
  BY <1>3, <1>5, <1>6, PageFacts
<1>10. /\ more \in Seq(SUBSET AuditRows) /\ more # <<>>
       /\ DOMAIN pages = 1 .. Len(pages) /\ Len(pages) \in Nat
       /\ \A e : IsShown(e, more) <=> IsShown(e, pages) \/ e \in page
       /\ \A e : Tied(e, more) <=> Tied(e, pages) \/ (page # {} /\ Last(page).at = e.at)
  BY <1>2, <1>5, <1>9, Appended, ShownAppended, TiedAppended
<1>11. \A e \in AuditRows : e.at \in Nat /\ e.id \in Nat
  BY LedgerAssumption DEF LedgerAssumption, AuditRows
<1>12. \A i \in DOMAIN pages : \A a \in pages[i], b \in page : a.at > b.at
  <2> SUFFICES ASSUME NEW i \in DOMAIN pages, NEW a \in pages[i], NEW b \in page
               PROVE  a.at > b.at
    OBVIOUS
  <2>1. before # None
    BY <1>1
  <2>2. a.at >= before /\ b.at < before
    BY <1>1, <1>7, <1>9, <2>1
  <2>3. a \in AuditRows /\ b \in AuditRows /\ before \in Nat
    BY <1>2, <1>5, <1>9, <2>1
  <2> QED
    BY <1>11, <2>2, <2>3
<1>13. Earlier(more)
  BY <1>1, <1>2, <1>5, <1>9, <1>12, EarlierAppended
<1> HIDE DEF more
<1>14. CASE ~full
  <2>1. page = rows
    BY <1>3, <1>9, <1>14
  <2>2. review' = [review EXCEPT !.pages = more, !.before = before, !.pc = "reviewed"]
    BY <1>4, <1>14
  <2>3. /\ review' \in Reviews /\ review'.pc = "reviewed" /\ review'.pages = more
        /\ review'.base = review.base /\ review'.action = action
    BY <1>1, <1>10, <2>2 DEF Reviews
  <2>4. \A e \in review.base : IsShown(e, more) \/ Tied(e, more)
    BY <1>8, <1>10, <2>1
  <2> QED
    BY <1>1, <1>13, <2>3, <2>4 DEF ReviewInv
<1>15. CASE full
  <2> DEFINE l == Last(page)
  <2>1. page # {}
    BY <1>3, <1>15, FS_EmptySet
  <2>2. l \in page /\ \A a \in page : a = l \/ Newer(a, l)
    BY <1>5, <1>9, <2>1, Ends
  <2>3. review' = [review EXCEPT !.pages = more, !.before = l.at, !.pc = "reviewing"]
    BY <1>4, <1>15
  <2>4. l.at \in Nat /\ l \in AuditRows /\ l \in rows
    BY <1>5, <1>9, <1>11, <2>2
  <2>5. /\ review' \in Reviews /\ review'.pc = "reviewing" /\ review'.pages = more
        /\ review'.base = review.base /\ review'.action = action /\ review'.before = l.at
    BY <1>1, <1>10, <2>3, <2>4 DEF Reviews
  <2>6. l.at # None
    BY <2>4, LedgerAssumption DEF LedgerAssumption
  <2>7. \A e \in rows : e \in page \/ l.at = e.at \/ e.at < l.at
    <3> SUFFICES ASSUME NEW e \in rows, e \notin page PROVE l.at = e.at \/ e.at < l.at
      OBVIOUS
    <3>1. ~Newer(e, l) /\ e # l
      BY <1>9, <2>2
    <3>2. Newer(l, e)
      BY <1>5, <2>4, <3>1, Order
    <3>3. e.at \in Nat
      BY <1>5, <1>11
    <3> QED
      BY <2>4, <3>2, <3>3 DEF Newer
  <2> HIDE DEF l
  <2>8. \A e \in review.base : IsShown(e, more) \/ Tied(e, more) \/ e.at < l.at
    BY <1>8, <1>10, <2>1, <2>7 DEF l
  <2>9. \A e : IsShown(e, more) => e.at >= l.at
    <3> SUFFICES ASSUME NEW e, IsShown(e, more) PROVE e.at >= l.at
      OBVIOUS
    <3>1. CASE e \in page
      <4>1. e.at \in Nat
        BY <1>5, <1>9, <1>11, <3>1
      <4> QED
        BY <2>2, <2>4, <3>1, <4>1 DEF Newer
    <3>2. CASE IsShown(e, pages)
      <4>1. e.at > l.at
        BY <1>12, <2>2, <3>2 DEF IsShown
      <4>2. e.at \in Nat
        BY <1>2, <1>11, <3>2 DEF IsShown
      <4> QED
        BY <2>4, <4>1, <4>2
    <3> QED
      BY <1>10, <3>1, <3>2
  <2>10. \A i \in DOMAIN more : \A a \in more[i] : a.at >= l.at
    BY <2>9 DEF IsShown
  <2> QED
    BY <1>1, <1>10, <1>13, <2>5, <2>6, <2>8, <2>10 DEF ReviewInv
<1> QED
  BY <1>14, <1>15

LEMMA ReviewWaits == ASSUME ReviewInv, Grows, UNCHANGED review PROVE ReviewInv'
<1>1. \A action : Asked(audit_log, None, action) \subseteq Asked(audit_log', None, action)
  BY DEF Grows, Asked
<1> QED
  BY <1>1 DEF ReviewInv

-----------------------------------------------------------------------------
(* Spend reports. *)

\* The sum of a metric over ledger rows.
Of(f, rows) == SumFunctionOnSet([r \in LedgerRows |-> MetricOf(r)[f]], rows)

LEMMA MetricTyped ==
    ASSUME NEW r \in LedgerRows, NEW f \in MetricFields
    PROVE  MetricOf(r)[f] \in Nat
<1>1. /\ r.usage.input \in Nat /\ r.usage.output \in Nat /\ r.usage.cache_read \in Nat
      /\ r.usage.cache_write \in Nat /\ r.usage.cache_write_1h \in Nat
      /\ r.cost \in Nat \cup {None}
  BY DEF LedgerRows, UsageRecord
<1> QED
  BY <1>1 DEF MetricOf, MetricFields

LEMMA OfSubset ==
    ASSUME NEW rows, rows \subseteq LedgerRows, IsFiniteSet(rows), NEW f \in MetricFields,
           NEW S \in SUBSET rows
    PROVE  Of(f, S) \in Nat /\ Of(f, S) <= Of(f, rows)
<1> DEFINE m == [r \in LedgerRows |-> MetricOf(r)[f]]
<1>1. \A x \in rows : m[x] \in Nat /\ m[x] <= m[x]
  BY MetricTyped
<1>2. \A x \in S : m[x] \in Nat /\ m[x] <= m[x]
  BY <1>1
<1> HIDE DEF m
<1>3. SumFunctionOnSet(m, S) \in Nat /\ SumFunctionOnSet(m, S) <= SumFunctionOnSet(m, rows)
  BY <1>1, <1>2, SumSubsets, SumMonotone
<1> QED
  BY <1>3 DEF Of, m

LEMMA MetricsSum ==
    ASSUME NEW rows, rows \subseteq LedgerRows, IsFiniteSet(rows), NEW f \in MetricFields
    PROVE  Metrics(rows)[f] = Of(f, rows)
<1> DEFINE m == [r \in LedgerRows |-> MetricOf(r)[f]]
           each == [r \in rows |-> MetricOf(r)]
           column == [x \in DOMAIN each |-> each[x][f]]
<1>1. Metrics(rows)[f] = SumFunctionOnSet(column, DOMAIN column)
  BY DEF Metrics, Summed, SumFunction
<1>2. DOMAIN column = rows /\ \A x \in rows : m[x] \in Nat /\ column[x] = m[x]
  BY MetricTyped
<1> HIDE DEF m, column
<1>3. SumFunctionOnSet(column, rows) = SumFunctionOnSet(m, rows)
  BY <1>2, SumSame
<1> QED
  BY <1>1, <1>2, <1>3 DEF Of, m

LEMMA OfGroups ==
    ASSUME NEW rows, rows \subseteq LedgerRows, IsFiniteSet(rows), NEW f \in MetricFields,
           NEW p, NEW G, G = {p[x] : x \in rows},
           NEW part, \A g \in G : \A x : x \in part[g] <=> x \in rows /\ p[x] = g,
           NEW column, \A g \in G : column[g] = Of(f, part[g])
    PROVE  SumFunctionOnSet(column, G) = Of(f, rows)
<1> DEFINE m == [r \in LedgerRows |-> MetricOf(r)[f]]
<1>1. \A x \in rows : m[x] \in Nat
  BY MetricTyped
<1> HIDE DEF m
<1>2. \A g \in G : column[g] = SumFunctionOnSet(m, part[g])
  BY DEF Of, m
<1>3. SumFunctionOnSet(column, G) = SumFunctionOnSet(m, rows)
  BY <1>1, <1>2, SumGroups, SMTT(60)
<1> QED
  BY <1>3 DEF Of, m

\* A total over groups is the sum over their rows, whichever way p puts rows into groups.
LEMMA GroupsTotal ==
    ASSUME NEW rows, rows \subseteq LedgerRows, IsFiniteSet(rows), NEW f \in MetricFields,
           NEW p, NEW G, G = {p[x] : x \in rows},
           \A g \in G : g.metrics = Metrics({x \in rows : p[x] = g})
    PROVE  Total(G)[f] = Of(f, rows)
<1> DEFINE m == [r \in LedgerRows |-> MetricOf(r)[f]]
           each == [g \in G |-> g.metrics]
           column == [x \in DOMAIN each |-> each[x][f]]
<1>1. Total(G)[f] = SumFunctionOnSet(column, DOMAIN column) /\ DOMAIN column = G
  BY DEF Total, Summed, SumFunction
<1> DEFINE Group(g) == {x \in rows : p[x] = g}
<1>2. ASSUME NEW g \in G PROVE column[g] = SumFunctionOnSet(m, Group(g))
  <2> DEFINE S == {x \in rows : p[x] = g}
  <2>1. S \subseteq LedgerRows /\ IsFiniteSet(S)
    BY FS_Subset
  <2>2. column[g] = Metrics(S)[f]
    OBVIOUS
  <2> QED
    BY <2>1, <2>2, MetricsSum DEF Of
<1> DEFINE part == [g \in G |-> Group(g)]
<1>3. \A g \in G : column[g] = Of(f, part[g])
  BY <1>2 DEF Of
<1>4. \A g \in G : \A x : x \in part[g] <=> x \in rows /\ p[x] = g
  OBVIOUS
<1> HIDE DEF column, part
<1>5. SumFunctionOnSet(column, G) = Of(f, rows)
  BY <1>3, <1>4, OfGroups
<1> QED
  BY <1>1, <1>5

LEMMA SpendTotal ==
    ASSUME StoreInv, NEW q, NEW by, NEW f \in MetricFields
    PROVE  Total(Spend(by, q))[f] = Of(f, Filtered(ledger, q))
<1> DEFINE rows == Filtered(ledger, q)
           Alike(g) == {r \in rows : r[by] = g}
           p == [x \in rows |-> [group |-> x[by], metrics |-> Metrics(Alike(x[by]))]]
           G == {p[x] : x \in rows}
<1>1. rows \subseteq LedgerRows /\ IsFiniteSet(rows)
  BY FS_Subset DEF StoreInv, Filtered
<1>2. ASSUME NEW g \in G PROVE g.metrics = Metrics({x \in rows : p[x] = g})
  <2>1. PICK y \in rows : g = p[y]
    OBVIOUS
  <2>2. g.group = y[by] /\ g.metrics = Metrics(Alike(y[by]))
    BY <2>1
  <2>3. ASSUME NEW x \in rows PROVE p[x] = g <=> x[by] = y[by]
    <3>1. p[x].group = x[by]
      OBVIOUS
    <3> QED
      BY <2>1, <2>2, <3>1
  <2>4. {x \in rows : p[x] = g} = Alike(y[by])
    BY <2>3
  <2> QED
    BY <2>2, <2>4
<1>3. Spend(by, q) = G
  <2>1. Spend(by, q) =
           {[group |-> g, metrics |-> Metrics(Alike(g))] : g \in {r[by] : r \in rows}}
    BY DEF Spend
  <2> HIDE DEF Alike, rows
  <2> QED
    BY <2>1
<1> HIDE DEF rows, p, G
<1>4. Total(G)[f] = Of(f, rows)
  <2>1. G = {p[x] : x \in rows}
    BY DEF G
  <2> QED
    BY <1>1, <1>2, <2>1, GroupsTotal
<1> QED
  BY <1>3, <1>4 DEF rows

LEMMA SeriesTotal ==
    ASSUME StoreInv, NEW q, NEW by, NEW interval, NEW f \in MetricFields
    PROVE  Total(Timeseries(interval, by, q))[f] = Of(f, Filtered(ledger, q))
<1> DEFINE rows == Filtered(ledger, q)
           key(r) == <<Bucket(r, interval), IF by = None THEN None ELSE r[by]>>
           Alike(k) == {r \in rows : key(r) = k}
           Point(k) == [bucket |-> k[1], group |-> k[2], metrics |-> Metrics(Alike(k))]
           p == [x \in rows |-> Point(key(x))]
           G == {p[x] : x \in rows}
<1>1. rows \subseteq LedgerRows /\ IsFiniteSet(rows)
  BY FS_Subset DEF StoreInv, Filtered
<1>2. ASSUME NEW g \in G PROVE g.metrics = Metrics({x \in rows : p[x] = g})
  <2>1. PICK y \in rows : g = Point(key(y))
    OBVIOUS
  <2>2. g.metrics = Metrics(Alike(key(y)))
    BY <2>1
  <2>3. ASSUME NEW x \in rows PROVE p[x] = g <=> key(x) = key(y)
    <3>1. ASSUME p[x] = g PROVE key(x) = key(y)
      <4>1. Point(key(x)) = Point(key(y))
        BY <2>1, <3>1
      <4>2. key(x)[1] = key(y)[1] /\ key(x)[2] = key(y)[2]
        <5> HIDE DEF key, Alike
        <5> QED
          BY <4>1
      <4> QED
        BY <4>2
    <3> QED
      BY <2>1, <3>1
  <2>4. {x \in rows : p[x] = g} = Alike(key(y))
    BY <2>3
  <2> QED
    BY <2>2, <2>4
<1>3. Timeseries(interval, by, q) = G
  <2>1. Timeseries(interval, by, q) = {Point(k) : k \in {key(r) : r \in rows}}
    BY DEF Timeseries
  <2> HIDE DEF rows, Point, key
  <2> QED
    BY <2>1
<1> HIDE DEF rows, p, G
<1>4. Total(G)[f] = Of(f, rows)
  <2>1. G = {p[x] : x \in rows}
    BY DEF G
  <2> QED
    BY <1>1, <1>2, <2>1, GroupsTotal
<1> QED
  BY <1>3, <1>4 DEF rows

LEMMA SeriesBuckets ==
    ASSUME NEW interval, NEW by, NEW q, NEW p \in Timeseries(interval, by, q)
    PROVE  \E r \in Filtered(ledger, q) : p.bucket = Bucket(r, interval)
<1> DEFINE rows == Filtered(ledger, q)
           key(r) == <<Bucket(r, interval), IF by = None THEN None ELSE r[by]>>
           Sum(k) == Metrics({r \in rows : key(r) = k})
<1>1. p \in {[bucket |-> k[1], group |-> k[2], metrics |-> Sum(k)] : k \in {key(r) : r \in rows}}
  BY DEF Timeseries
<1> HIDE DEF Sum, rows
<1>2. PICK r \in rows : p = [bucket |-> key(r)[1], group |-> key(r)[2], metrics |-> Sum(key(r))]
  BY <1>1
<1>3. p.bucket = Bucket(r, interval)
  BY <1>2
<1> QED
  BY <1>3 DEF rows

\* The rows of two adjoining ranges are those of both, each once.
LEMMA Parted ==
    ASSUME StoreInv, NEW q, Adjoining(q), StartBeforeEnd(q[1]), StartBeforeEnd(q[2]),
           NEW f \in MetricFields
    PROVE  Of(f, Filtered(ledger, q[1])) + Of(f, Filtered(ledger, q[2]))
              = Of(f, Filtered(ledger, q[3]))
<1> DEFINE m == [r \in LedgerRows |-> MetricOf(r)[f]]
           A == Filtered(ledger, q[1])
           B == Filtered(ledger, q[2])
<1>1. ASSUME NEW i \in 1 .. 3
      PROVE  q[i].start \in Nat /\ q[i].end \in Nat /\ q[i].start # None /\ q[i].end # None
  BY LedgerAssumption DEF Adjoining, LedgerAssumption
<1>2. q[1].start < q[1].end /\ q[2].start < q[2].end
  BY <1>1 DEF StartBeforeEnd
<1>3. \A r \in ledger : r.at \in Nat
  BY DEF StoreInv, LedgerRows
<1>4. /\ q[1].start = q[3].start /\ q[1].end = q[2].start /\ q[2].end = q[3].end
      /\ \A x \in Filters : q[1][x] = q[3][x] /\ q[2][x] = q[3][x]
  BY DEF Adjoining
<1>5. ASSUME NEW r \in ledger
      PROVE  /\ r \in Filtered(ledger, q[3]) <=> r \in A \/ r \in B
             /\ ~(r \in A /\ r \in B)
  <2>1. ASSUME NEW i \in 1 .. 3
        PROVE  r \in Filtered(ledger, q[i]) <=>
                  /\ r.at >= q[i].start /\ r.at < q[i].end
                  /\ \A x \in Filters : q[3][x] = None \/ r[x] = q[3][x]
    BY <1>1, <1>4 DEF Filtered
  <2>2. r.at \in Nat /\ \A i \in 1 .. 3 : q[i].start \in Nat /\ q[i].end \in Nat
    BY <1>1, <1>3
  <2> QED
    BY <1>2, <1>4, <2>1, <2>2
<1>6. Filtered(ledger, q[3]) = A \cup B /\ A \cap B = {}
  BY <1>5 DEF Filtered
<1>7. IsFiniteSet(A) /\ IsFiniteSet(B)
  BY FS_Subset DEF Filtered, StoreInv
<1>8. \A r \in A \cup B : m[r] \in Nat
  BY MetricTyped DEF Filtered, StoreInv
<1> HIDE DEF m, A, B
<1>9. SumFunctionOnSet(m, A \cup B) = SumFunctionOnSet(m, A) + SumFunctionOnSet(m, B)
  BY <1>6, <1>7, <1>8, SumUnion
<1> QED
  BY <1>6, <1>9 DEF Of, m, A, B

\* A range as long as its bound meets at most one bucket more.
LEMMA FewBuckets ==
    ASSUME NEW s \in Nat \ {0}, NEW m \in Nat, NEW start \in Nat, NEW end \in Nat,
           end - start <= m * s, NEW B,
           \A b \in B : \E at \in Nat : start <= at /\ at < end /\ b = at - (at % s)
    PROVE  Cardinality(B) \in Nat /\ Cardinality(B) <= m + 1
<1> DEFINE lo == start \div s
           T == {s * k : k \in lo .. lo + m}
<1>1. lo \in Nat
  OBVIOUS
<1>2. ASSUME NEW at \in Nat, start <= at, at < end
      PROVE  /\ at - (at % s) = s * (at \div s)
             /\ at \div s \in lo .. lo + m
  <2> DEFINE k == at \div s
  <2>1. at = s * k + (at % s) /\ at % s \in 0 .. s - 1 /\ k \in Nat
    OBVIOUS
  <2>2. start = s * lo + (start % s) /\ start % s \in 0 .. s - 1
    OBVIOUS
  <2> HIDE DEF k, lo
  <2>3. lo <= k
    <3>1. CASE k + 1 <= lo
      <4>1. s * (k + 1) <= s * lo
        BY <1>1, <2>1, <3>1, TimesLess
      <4>2. s * (k + 1) = s * k + s
        BY <2>1
      <4> QED
        BY <1>1, <1>2, <2>1, <2>2, <4>1, <4>2
    <3> QED
      BY <1>1, <2>1, <3>1
  <2>4. k <= lo + m
    <3>1. CASE lo + m + 1 <= k
      <4>1. s * (lo + m + 1) <= s * k
        BY <1>1, <2>1, <3>1, TimesLess
      <4>2. s * (lo + m + 1) = s * lo + m * s + s
        BY <1>1
      <4> DEFINE a == s * k   b == s * lo   c == m * s
      <4>3. a \in Nat /\ b \in Nat /\ c \in Nat
        BY <1>1, <2>1
      <4>4. b + c + s <= a /\ at = a + (at % s) /\ start = b + (start % s) /\ end - start <= c
        BY <2>1, <2>2, <4>1, <4>2
      <4> HIDE DEF a, b, c
      <4> QED
        BY <1>2, <2>1, <2>2, <4>3, <4>4
    <3> QED
      BY <1>1, <2>1, <3>1
  <2> QED
    BY <1>1, <2>1, <2>3, <2>4 DEF k
<1>3. B \subseteq T
  BY <1>2
<1>4. IsFiniteSet(lo .. lo + m) /\ Cardinality(lo .. lo + m) = m + 1
  BY <1>1, FS_Interval
<1>5. [k \in lo .. lo + m |-> s * k] \in Surjection(lo .. lo + m, T)
  BY DEF Surjection
<1> HIDE DEF T
<1>6. IsFiniteSet(T) /\ Cardinality(T) <= m + 1
  BY <1>4, <1>5, FS_Surjection
<1>7. IsFiniteSet(B) /\ Cardinality(B) <= Cardinality(T)
  BY <1>3, <1>6, FS_Subset
<1> QED
  BY <1>6, <1>7, FS_CardinalityType

-----------------------------------------------------------------------------
(* Reading. *)

Reports ==
    [pc : {"spend", "timeseries", "reported"}, asked : Accounting,
     sums : Seq([MetricFields -> Nat]), points : SUBSET Nat, base : Nat, quiet : BOOLEAN]

\* A sum that was drawn up counts rows that are still there, and all there are unless rows were
\* added since the first of them.
SumOK(sum, q) ==
    /\ StartBeforeEnd(q)
    /\ \A f \in MetricFields :
          /\ sum[f] <= Of(f, Filtered(ledger, q))
          /\ Cardinality(ledger) = report.base => sum[f] = Of(f, Filtered(ledger, q))

ReportInv ==
    /\ report.pc \in {"idle", "spend", "timeseries", "reported", "refused"}
    /\ report.pc \notin {"idle", "refused"} => report \in Reports
    /\ report.pc \in {"spend", "timeseries"} =>
          /\ report.base <= Cardinality(ledger)
          /\ Len(report.sums) \in IF report.pc = "spend" THEN {0, 1} ELSE {2}
          /\ \A i \in 1 .. Len(report.sums) : SumOK(report.sums[i], report.asked.queries[i])
    /\ ReportsAddUp

ReadInv == WalkInv /\ ReviewInv /\ ReportInv

LEMMA ReadStart == ReadInit => ReadInv
<1> SUFFICES ASSUME ReadInit PROVE ReadInv
  OBVIOUS
<1>1. walk.pc = "idle" /\ review.pc = "idle"
  BY DEF ReadInit
<1>2. ReportInv
  BY DEF ReadInit, ReportInv, ReportsAddUp
<1> QED
  BY <1>1, <1>2 DEF ReadInv, WalkInv, ReviewInv

LEMMA TotalTyped ==
    ASSUME NEW rows, rows \subseteq LedgerRows, IsFiniteSet(rows), NEW G,
           \A f \in MetricFields : Total(G)[f] = Of(f, rows)
    PROVE  Total(G) \in [MetricFields -> Nat]
<1>1. \A f \in MetricFields : Of(f, rows) \in Nat
  BY OfSubset
<1>2. Total(G) = [f \in MetricFields |-> Total(G)[f]]
  BY DEF Total, Summed
<1> QED
  BY <1>1, <1>2

LEMMA StartReportStep ==
    ASSUME StoreInv, ReportInv, StartReport, UNCHANGED ledger
    PROVE  ReportInv'
<1>1. PICK asked \in Accounting :
         report' = [pc |-> "spend", asked |-> asked, sums |-> <<>>, points |-> {},
                    base |-> Cardinality(ledger), quiet |-> FALSE]
  BY DEF StartReport
<1>2. Cardinality(ledger) \in Nat
  BY FS_CardinalityType DEF StoreInv
<1>3. report' \in Reports /\ report'.pc = "spend" /\ report'.sums = <<>>
      /\ report'.base = Cardinality(ledger)
  BY <1>1, <1>2 DEF Reports
<1> QED
  BY <1>2, <1>3 DEF ReportInv, ReportsAddUp

LEMMA FilteredListed ==
    ASSUME StoreInv, NEW q
    PROVE  /\ Filtered(ledger, q) \subseteq LedgerRows /\ IsFiniteSet(Filtered(ledger, q))
           /\ \A f \in MetricFields : Of(f, Filtered(ledger, q)) \in Nat
<1>1. Filtered(ledger, q) \subseteq LedgerRows /\ IsFiniteSet(Filtered(ledger, q))
  BY FS_Subset DEF StoreInv, Filtered
<1> QED
  BY <1>1, OfSubset

LEMMA spendStep ==
    ASSUME StoreInv, ReportInv, spend, UNCHANGED ledger
    PROVE  ReportInv'
<1> DEFINE n == Len(report.sums)
           query == report.asked.queries[n + 1]
           total == Total(Spend(report.asked.group_by, query))
           sums == Append(report.sums, total)
<1>1. /\ report.pc = "spend" /\ report \in Reports
      /\ report' = IF StartBeforeEnd(query)
                   THEN [report EXCEPT !.sums = sums,
                           !.pc = IF report.sums = <<>> THEN "spend" ELSE "timeseries"]
                   ELSE [pc |-> "refused"]
  BY DEF spend, ReportInv
<1>2. /\ n \in {0, 1} /\ report.base <= Cardinality(ledger)
      /\ \A i \in 1 .. n : SumOK(report.sums[i], report.asked.queries[i])
  BY <1>1 DEF ReportInv
<1>3. CASE ~StartBeforeEnd(query)
  <2>1. report' = [pc |-> "refused"]
    BY <1>1, <1>3
  <2> QED
    BY <2>1 DEF ReportInv, ReportsAddUp
<1>4. CASE StartBeforeEnd(query)
  <2>1. \A f \in MetricFields : total[f] = Of(f, Filtered(ledger, query))
    BY SpendTotal
  <2>2. total \in [MetricFields -> Nat] /\ \A f \in MetricFields : total[f] \in Nat
    BY <2>1, FilteredListed, TotalTyped
  <2>3. SumOK(total, query)
    BY <1>4, <2>1, <2>2 DEF SumOK
  <2> HIDE DEF total, query
  <2>4. report.sums \in Seq([MetricFields -> Nat])
    BY <1>1 DEF Reports
  <2>5. /\ sums \in Seq([MetricFields -> Nat]) /\ Len(sums) = n + 1
        /\ \A i \in 1 .. n : sums[i] = report.sums[i]
        /\ sums[n + 1] = total
    BY <2>2, <2>4
  <2>6. report.sums = <<>> <=> n = 0
    BY <2>4
  <2> DEFINE pc == IF n = 0 THEN "spend" ELSE "timeseries"
  <2>7. report' = [report EXCEPT !.sums = sums, !.pc = pc]
    BY <1>1, <1>4, <2>6
  <2> HIDE DEF sums, pc
  <2>8. /\ report' \in Reports /\ report'.pc = pc /\ report'.sums = sums
        /\ report'.base = report.base /\ report'.asked = report.asked
    BY <1>1, <2>5, <2>7 DEF Reports, pc
  <2>9. ASSUME NEW i \in 1 .. n + 1
        PROVE  SumOK(sums[i], report.asked.queries[i])
    BY <1>2, <2>3, <2>5 DEF query
  <2>10. \A i \in 1 .. Len(sums) : SumOK(sums[i], report.asked.queries[i])
    BY <2>5, <2>9
  <2>11. (\A i \in 1 .. Len(report.sums) : SumOK(report.sums[i], report.asked.queries[i]))'
    BY <2>8, <2>10 DEF SumOK
  <2>12. (Len(report.sums) \in IF report.pc = "spend" THEN {0, 1} ELSE {2})'
    <3>1. Len(report'.sums) = n + 1 /\ report'.pc = IF n = 0 THEN "spend" ELSE "timeseries"
      BY <2>5, <2>8 DEF pc
    <3> QED
      BY <1>2, <3>1
  <2>13. (report.pc \in {"spend", "timeseries"})'
    BY <2>8 DEF pc
  <2>14. (report.base <= Cardinality(ledger))'
    BY <1>2, <2>8
  <2> QED
    BY <2>8, <2>11, <2>12, <2>13, <2>14 DEF ReportInv, ReportsAddUp
<1> QED
  BY <1>3, <1>4

LEMMA spend_timeseriesStep ==
    ASSUME StoreInv, ReportInv, spend_timeseries, UNCHANGED ledger
    PROVE  ReportInv'
<1> DEFINE queries == report.asked.queries
           query == queries[3]
           interval == report.asked.interval
           points == Timeseries(interval, report.asked.split, query)
           total == Total(points)
           sums == Append(report.sums, total)
           buckets == {p.bucket : p \in points}
           quiet == Cardinality(ledger) = report.base
<1>1. /\ report.pc = "timeseries" /\ report \in Reports
      /\ report' = IF StartBeforeEnd(query) /\ Bounded(query, interval)
                   THEN [report EXCEPT !.pc = "reported", !.sums = sums, !.points = buckets,
                                       !.quiet = quiet]
                   ELSE [pc |-> "refused"]
  BY DEF spend_timeseries, ReportInv
<1>2. /\ Len(report.sums) = 2 /\ SumOK(report.sums[1], queries[1])
      /\ SumOK(report.sums[2], queries[2])
  BY <1>1 DEF ReportInv
<1>3. CASE ~(StartBeforeEnd(query) /\ Bounded(query, interval))
  <2>1. report' = [pc |-> "refused"]
    BY <1>1, <1>3
  <2> QED
    BY <2>1 DEF ReportInv, ReportsAddUp
<1>4. CASE StartBeforeEnd(query) /\ Bounded(query, interval)
  <2>1. report.asked \in Accounting /\ Adjoining(queries) /\ interval \in DOMAIN Size
    BY <1>1, ReportsAssumption DEF Reports, ReportsAssumption
  <2>2. \A f \in MetricFields : total[f] = Of(f, Filtered(ledger, query))
    BY SeriesTotal
  <2>3. total \in [MetricFields -> Nat]
    BY <2>2, FilteredListed, TotalTyped
  <2>4. report.sums \in Seq([MetricFields -> Nat])
    BY <1>1 DEF Reports
  <2>5. /\ buckets \in SUBSET Nat /\ Cardinality(buckets) \in Nat
        /\ Cardinality(buckets) <= MaxBuckets[interval] + 1
    <3>1. /\ Size[interval] \in Nat \ {0} /\ MaxBuckets[interval] \in Nat
          /\ query.start \in Nat /\ query.end \in Nat
      BY <2>1, ReportsAssumption DEF ReportsAssumption, Adjoining
    <3>2. query.start # None /\ query.end # None
      BY <3>1, LedgerAssumption DEF LedgerAssumption
    <3>3. ASSUME NEW b \in buckets
          PROVE  \E at \in Nat : query.start <= at /\ at < query.end
                                 /\ b = at - (at % Size[interval])
      <4>1. PICK r \in Filtered(ledger, query) : b = Bucket(r, interval)
        BY SeriesBuckets
      <4>2. r.at \in Nat /\ r.at >= query.start /\ r.at < query.end
        BY <3>2, <4>1 DEF Filtered, StoreInv, LedgerRows
      <4> QED
        BY <3>1, <4>1, <4>2 DEF Bucket
    <3>4. query.end - query.start <= MaxBuckets[interval] * Size[interval]
      BY <1>4 DEF Bounded
    <3> HIDE DEF buckets, query
    <3>5. Cardinality(buckets) \in Nat /\ Cardinality(buckets) <= MaxBuckets[interval] + 1
      BY <3>1, <3>3, <3>4, FewBuckets
    <3>6. \A b \in buckets : b \in Nat
      <4> SUFFICES ASSUME NEW b \in buckets PROVE b \in Nat
        OBVIOUS
      <4>1. PICK at \in Nat : b = at - (at % Size[interval])
        BY <3>3
      <4>2. at % Size[interval] \in Nat /\ at % Size[interval] <= at
        BY <3>1
      <4> QED
        BY <4>1, <4>2
    <3> QED
      BY <3>5, <3>6
  <2>6. ASSUME NEW f \in MetricFields
        PROVE  /\ report.sums[1][f] + report.sums[2][f] <= total[f]
               /\ quiet => report.sums[1][f] + report.sums[2][f] = total[f]
    <3> DEFINE a == report.sums[1][f]   b == report.sums[2][f]
               A == Of(f, Filtered(ledger, queries[1]))
               B == Of(f, Filtered(ledger, queries[2]))
    <3>1. a \in Nat /\ b \in Nat
      <4>1. report.sums[1] \in [MetricFields -> Nat] /\ report.sums[2] \in [MetricFields -> Nat]
        BY <1>2, <2>4
      <4> QED
        BY <4>1
    <3>2. A \in Nat /\ B \in Nat
      BY FilteredListed
    <3>3. a <= A /\ b <= B /\ (quiet => a = A /\ b = B)
      BY <1>2 DEF SumOK
    <3>4. A + B = total[f]
      BY <1>2, <2>1, <2>2, Parted DEF SumOK
    <3> HIDE DEF a, b, A, B, total, quiet
    <3>5. a + b <= total[f] /\ (quiet => a + b = total[f])
      BY <3>1, <3>2, <3>3, <3>4
    <3> QED
      BY <3>5 DEF a, b
  <2> HIDE DEF queries, query, interval, points, total, buckets, quiet
  <2>7. /\ sums \in Seq([MetricFields -> Nat]) /\ sums[3] = total
        /\ sums[1] = report.sums[1] /\ sums[2] = report.sums[2]
    BY <1>2, <2>3, <2>4
  <2> HIDE DEF sums
  <2>8. report' = [report EXCEPT !.pc = "reported", !.sums = sums, !.points = buckets,
                                 !.quiet = quiet]
    BY <1>1, <1>4
  <2>9. quiet \in BOOLEAN
    BY DEF quiet
  <2>10. /\ report' \in Reports /\ report'.pc = "reported" /\ report'.sums = sums
         /\ report'.points = buckets /\ report'.asked = report.asked /\ report'.quiet = quiet
    BY <1>1, <2>5, <2>7, <2>8, <2>9 DEF Reports
  <2>11. ReportsAddUp'
    BY <2>5, <2>6, <2>7, <2>10 DEF ReportsAddUp, interval
  <2> QED
    BY <2>10, <2>11 DEF ReportInv
<1> QED
  BY <1>3, <1>4

LEMMA ReportStep ==
    ASSUME StoreInv, ReportInv, StartReport \/ spend \/ spend_timeseries, UNCHANGED ledger
    PROVE  ReportInv'
  BY StartReportStep, spendStep, spend_timeseriesStep

\* Rows that are added do not make a sum wrong, but it may be short of them.
LEMMA ReportWaits ==
    ASSUME StoreInv, ReportInv, Grows, UNCHANGED report, StoreInv'
    PROVE  ReportInv'
<1>1. /\ IsFiniteSet(ledger) /\ ledger' \subseteq LedgerRows /\ IsFiniteSet(ledger')
      /\ ledger \subseteq ledger'
  BY DEF StoreInv, Grows
<1>2. /\ Cardinality(ledger) \in Nat /\ Cardinality(ledger') \in Nat
      /\ Cardinality(ledger) <= Cardinality(ledger')
      /\ Cardinality(ledger) = Cardinality(ledger') => ledger = ledger'
  BY <1>1, FS_Subset, FS_CardinalityType
<1>3. ASSUME report.pc \in {"spend", "timeseries"}
      PROVE  /\ report.base <= Cardinality(ledger')
             /\ \A i \in 1 .. Len(report.sums) : SumOK(report.sums[i], report.asked.queries[i])'
  <2>1. report \in Reports /\ report.base \in Nat /\ report.base <= Cardinality(ledger)
        /\ report.sums \in Seq([MetricFields -> Nat])
    BY <1>3 DEF ReportInv, Reports
  <2>2. ASSUME NEW i \in 1 .. Len(report.sums)
        PROVE  SumOK(report.sums[i], report.asked.queries[i])'
    <3> DEFINE q == report.asked.queries[i]
    <3>1. SumOK(report.sums[i], q) /\ report.sums[i] \in [MetricFields -> Nat]
      BY <1>3, <2>1 DEF ReportInv
    <3>2. ASSUME NEW f \in MetricFields
          PROVE  /\ Of(f, Filtered(ledger, q)) \in Nat /\ Of(f, Filtered(ledger', q)) \in Nat
                 /\ Of(f, Filtered(ledger, q)) <= Of(f, Filtered(ledger', q))
      <4>1. Filtered(ledger, q) \in SUBSET Filtered(ledger', q)
        BY <1>1 DEF Filtered
      <4>2. Filtered(ledger', q) \subseteq LedgerRows /\ IsFiniteSet(Filtered(ledger', q))
        BY <1>1, FS_Subset DEF Filtered
      <4>3. Filtered(ledger', q) \in SUBSET Filtered(ledger', q)
        OBVIOUS
      <4> QED
        BY <4>1, <4>2, <4>3, OfSubset
    <3>3. ASSUME NEW f \in MetricFields
          PROVE  /\ report.sums[i][f] <= Of(f, Filtered(ledger', q))
                 /\ Cardinality(ledger') = report.base =>
                       report.sums[i][f] = Of(f, Filtered(ledger', q))
      <4>1. /\ report.sums[i][f] <= Of(f, Filtered(ledger, q)) /\ report.sums[i][f] \in Nat
            /\ Cardinality(ledger) = report.base =>
                  report.sums[i][f] = Of(f, Filtered(ledger, q))
        BY <3>1 DEF SumOK
      <4>2. Cardinality(ledger') = report.base =>
               Cardinality(ledger) = report.base /\ ledger = ledger'
        BY <1>2, <2>1
      <4> QED
        BY <3>2, <4>1, <4>2
    <3> QED
      BY <3>1, <3>3 DEF SumOK
  <2> QED
    BY <1>2, <2>1, <2>2
<1> QED
  BY <1>3 DEF ReportInv, ReportsAddUp

LEMMA ReadStep == ASSUME StoreInv, ReadInv, Read, UNCHANGED storeVars PROVE ReadInv'
<1>1. Grows /\ UNCHANGED <<ledger, audit_log>>
  BY DEF storeVars, Grows
<1>2. CASE StartWalk \/ requests
  <2>1. WalkInv'
    BY <1>1, <1>2, StartWalkStep, requestsStep DEF ReadInv
  <2>2. UNCHANGED <<review, report>>
    BY <1>2 DEF StartWalk, requests
  <2>3. ReviewInv'
    BY <1>1, <2>2, ReviewWaits DEF ReadInv
  <2> QED
    BY <1>1, <2>1, <2>2, <2>3, ReportWaits, StoreSame DEF ReadInv
<1>3. CASE StartReview \/ list_audit_events
  <2>1. ReviewInv'
    BY <1>1, <1>3, StartReviewStep, list_audit_eventsStep DEF ReadInv
  <2>2. UNCHANGED <<walk, report>>
    BY <1>3 DEF StartReview, list_audit_events
  <2>3. WalkInv'
    BY <1>1, <2>2, WalkWaits DEF ReadInv
  <2> QED
    BY <1>1, <2>1, <2>2, <2>3, ReportWaits, StoreSame DEF ReadInv
<1>4. CASE StartReport \/ spend \/ spend_timeseries
  <2>1. ReportInv'
    BY <1>1, <1>4, ReportStep DEF ReadInv
  <2>2. UNCHANGED <<walk, review>>
    BY <1>4 DEF StartReport, spend, spend_timeseries
  <2> QED
    BY <1>1, <2>1, <2>2, WalkWaits, ReviewWaits DEF ReadInv
<1> QED
  BY <1>2, <1>3, <1>4 DEF Read

LEMMA ReadWaits ==
    ASSUME StoreInv, StoreInv', ReadInv, Grows, UNCHANGED readVars
    PROVE  ReadInv'
  BY WalkWaits, ReviewWaits, ReportWaits DEF ReadInv, readVars

-----------------------------------------------------------------------------
(* The copy of the database. *)

AnyRows == CredentialRows \cup KeyRows \cup LedgerRows \cup AuditRows

Copiers ==
    [pc : {"checking", "reading", "writing", "copied", "failed"},
     why : {"none", "version", "not empty", "conflict", "broken"}, at : 1 .. 4,
     rows : SUBSET AnyRows, staged : [Tables -> SUBSET AnyRows],
     base : [Tables -> SUBSET AnyRows], found : SUBSET Intruders]

\* A table that is finished has what there was to copy, one to come has nothing, and the one
\* at hand has it between what is staged and what is read; none has a row of another's.
Progress ==
    \A i \in 1 .. 4 :
        LET t == SortedTables[i]
            staged == copier.staged[t]
        IN  /\ staged \subseteq Source[t]
            /\ i < copier.at => copier.base[t] \subseteq staged
            /\ i > copier.at => staged = {}
            /\ i = copier.at /\ copier.pc = "reading" => staged = {}
            /\ i = copier.at /\ copier.pc = "writing" =>
                  /\ copier.base[t] \subseteq staged \cup copier.rows
                  /\ copier.rows \subseteq Source[t]
                  /\ staged \cap copier.rows = {}

KeysHeld(tables) == Linked(tables["virtual_keys"], tables["provider_credentials"])

Copied ==
    /\ \A t \in Tables : copier.base[t] \subseteq target[t]
    /\ \A t \in Tables \ {"provider_credentials"} : target[t] \subseteq Source[t]
    /\ target["provider_credentials"] \subseteq provider_credentials \cup intruded
    /\ KeysHeld(target)

\* The target as it is but for the copy, and what has been written to meanwhile.
Untouched == target = [NoRows EXCEPT !["provider_credentials"] = intruded]
Meddled == Source # copier.base \/ intruded # copier.found

CopyInv ==
    /\ copier.pc \in {"idle", "checking", "reading", "writing", "copied", "failed"}
    /\ intruded \subseteq Intruders
    /\ target \in [Tables -> SUBSET AnyRows]
    /\ copier.pc # "copied" => Untouched
    /\ copier.pc # "idle" =>
          /\ copier \in Copiers
          /\ \A t \in Tables : copier.base[t] \subseteq Source[t]
          /\ copier.found \subseteq intruded
          /\ copier.found # {} => intruded = copier.found
          /\ copier.pc = "checking" =>
                copier.staged = NoRows /\ (copier.at > 1 => copier.found = {})
          /\ copier.pc \in {"reading", "writing"} => copier.found = {} /\ Progress /\ KeysHeld(Held)
          /\ copier.pc = "copied" => Copied
          /\ copier.pc = "failed" /\ copier.why = "conflict" => Meddled

LEMMA TableFacts ==
    /\ Len(SortedTables) = 4 /\ DOMAIN SortedTables = 1 .. 4
    /\ Tables = {"provider_credentials", "virtual_keys", "ledger", "audit_log"}
    /\ SortedTables[1] = "provider_credentials" /\ SortedTables[2] = "virtual_keys"
    /\ SortedTables[3] = "ledger" /\ SortedTables[4] = "audit_log"
    /\ \A i \in 1 .. 4 : SortedTables[i] \in Tables
    /\ \A i, j \in 1 .. 4 : SortedTables[i] = SortedTables[j] => i = j
<1>1. Len(SortedTables) = 4 /\ DOMAIN SortedTables = 1 .. 4
  BY DEF SortedTables
<1>2. /\ SortedTables[1] = "provider_credentials" /\ SortedTables[2] = "virtual_keys"
      /\ SortedTables[3] = "ledger" /\ SortedTables[4] = "audit_log"
  BY DEF SortedTables
<1>3. \A i \in 1 .. 4 : i = 1 \/ i = 2 \/ i = 3 \/ i = 4
  OBVIOUS
<1>4. Tables = {SortedTables[1], SortedTables[2], SortedTables[3], SortedTables[4]}
  BY <1>1, <1>3 DEF Tables
<1> QED
  BY <1>1, <1>2, <1>3, <1>4

LEMMA SourceFacts ==
    /\ Source["provider_credentials"] = provider_credentials
    /\ Source["virtual_keys"] = virtual_keys
    /\ Source["ledger"] = ledger /\ Source["audit_log"] = audit_log
    /\ Source = [t \in Tables |-> Source[t]]
    /\ Tables = {"provider_credentials", "virtual_keys", "ledger", "audit_log"}
  BY TableFacts DEF Source

LEMMA SourceTyped == ASSUME StoreInv PROVE Source \in [Tables -> SUBSET AnyRows]
<1>1. \A t \in Tables : Source[t] \in SUBSET AnyRows
  BY SourceFacts DEF StoreInv, AnyRows
<1> QED
  BY <1>1, SourceFacts

LEMMA CopyStart == CopyInit => CopyInv
<1> SUFFICES ASSUME CopyInit PROVE CopyInv
  OBVIOUS
<1>1. copier.pc = "idle" /\ Untouched
  BY DEF CopyInit, Untouched
<1>2. intruded \subseteq Intruders
  BY DEF CopyInit
<1>3. intruded \subseteq AnyRows
  BY <1>2, CopyAssumption DEF CopyAssumption, AnyRows
<1>4. target \in [Tables -> SUBSET AnyRows]
  BY <1>1, <1>3, TableFacts DEF Untouched, NoRows
<1> QED
  BY <1>1, <1>2, <1>4 DEF CopyInv

LEMMA SourceGrows == ASSUME Grows PROVE \A t \in Tables : Source[t] \subseteq Source'[t]
<1>1. /\ Source'["provider_credentials"] = provider_credentials'
      /\ Source'["virtual_keys"] = virtual_keys'
      /\ Source'["ledger"] = ledger' /\ Source'["audit_log"] = audit_log'
  BY TableFacts DEF Source
<1> QED
  BY <1>1, SourceFacts DEF Grows

LEMMA SourceSame == ASSUME UNCHANGED storeVars PROVE UNCHANGED Source
  BY DEF storeVars, Source

LEMMA CopierTyped == ASSUME CopyInv, copier.pc # "idle" PROVE copier \in Copiers
  BY DEF CopyInv

\* A copy that waits goes on where it was, whatever is added to the source; what was written to
\* meanwhile remains written to.
LEMMA CopyWaits ==
    ASSUME StoreInv, CopyInv, Grows, UNCHANGED copyVars
    PROVE  CopyInv'
<1> USE DEF copyVars
<1>1. /\ Held' = Held /\ (Untouched <=> Untouched')
  BY DEF Held, Untouched
<1>2. CASE copier.pc = "idle"
  BY <1>1, <1>2 DEF CopyInv
<1>3. CASE copier.pc # "idle"
  <2>1. \A t \in Tables : Source[t] \subseteq Source'[t]
    BY SourceGrows
  <2>2. copier \in Copiers /\ \A t \in Tables : copier.base[t] \subseteq Source[t]
    BY <1>3 DEF CopyInv
  <2>3. Meddled => Meddled'
    <3> SUFFICES ASSUME Source # copier.base, Source' = copier.base PROVE FALSE
      BY DEF Meddled
    <3>1. Source \in [Tables -> SUBSET AnyRows] /\ copier.base \in [Tables -> SUBSET AnyRows]
      BY <2>2, SourceTyped DEF Copiers
    <3>2. \A t \in Tables : Source[t] = copier.base[t]
      BY <2>1, <2>2
    <3> QED
      BY <3>1, <3>2
  <2>4. Progress => Progress'
    BY <2>1, TableFacts DEF Progress
  <2>5. Copied => Copied'
    BY <2>1, SourceFacts DEF Copied, Grows
  <2>6. \A t \in Tables : copier.base[t] \subseteq Source'[t]
    BY <2>1, <2>2
  <2> QED
    BY <1>1, <1>3, <2>2, <2>3, <2>4, <2>5, <2>6 DEF CopyInv
<1> QED
  BY <1>2, <1>3

LEMMA StartCopyStep ==
    ASSUME StoreInv, CopyInv, StartCopy, UNCHANGED storeVars
    PROVE  CopyInv'
<1>1. PICK version \in {"head", "older"} :
        copier' = [pc |-> IF version = "head" THEN "checking" ELSE "failed",
                   why |-> IF version = "head" THEN "none" ELSE "version",
                   at |-> 1, rows |-> {}, staged |-> NoRows, base |-> Source, found |-> intruded]
  BY DEF StartCopy
<1>2. Source \in [Tables -> SUBSET AnyRows] /\ NoRows \in [Tables -> SUBSET AnyRows]
  BY SourceTyped DEF NoRows
<1>3. UNCHANGED <<target, intruded, Source>> /\ intruded \subseteq Intruders /\ Untouched
  BY DEF StartCopy, storeVars, Source, CopyInv
<1>4. /\ copier' \in Copiers /\ copier'.pc \in {"checking", "failed"} /\ copier'.why # "conflict"
      /\ copier'.at = 1 /\ copier'.staged = NoRows /\ copier'.base = Source
      /\ copier'.found = intruded
  <2> DEFINE source == Source  none == NoRows
  <2>1. source \in [Tables -> SUBSET AnyRows] /\ none \in [Tables -> SUBSET AnyRows]
    BY <1>2
  <2> HIDE DEF source, none
  <2>2. PICK pc \in {"checking", "failed"}, why \in {"none", "version"} :
           copier' = [pc |-> pc, why |-> why, at |-> 1, rows |-> {}, staged |-> none,
                      base |-> source, found |-> intruded]
    BY <1>1 DEF source, none
  <2>3. /\ copier'.pc = pc /\ copier'.why = why /\ copier'.at = 1 /\ copier'.staged = none
        /\ copier'.base = source /\ copier'.found = intruded
    BY <2>2
  <2>4. copier' \in Copiers
    <3>1. intruded \in SUBSET Intruders /\ 1 \in 1 .. 4
      BY <1>3
    <3> QED
      BY <2>1, <2>2, <3>1 DEF Copiers
  <2> QED
    BY <2>3, <2>4 DEF source, none
<1>5. Untouched' /\ target' \in [Tables -> SUBSET AnyRows]
  BY <1>3 DEF Untouched, CopyInv
<1>6. \A t \in Tables : copier'.base[t] \subseteq Source'[t]
  BY <1>3, <1>4
<1> QED
  BY <1>3, <1>4, <1>5, <1>6 DEF CopyInv

\* A copy that fails leaves the target alone; a conflict has to be somebody else's.
LEMMA FailStep ==
    ASSUME CopyInv, copier.pc \in {"checking", "reading", "writing"},
           NEW why \in {"not empty", "conflict", "broken"}, copier' = Fail(why),
           why = "conflict" => Meddled, UNCHANGED <<target, intruded>>, UNCHANGED storeVars
    PROVE  CopyInv'
<1>1. copier \in Copiers /\ UNCHANGED Source
  BY SourceSame, CopierTyped
<1>2. copier' = [copier EXCEPT !.pc = "failed", !.why = why, !.rows = {}, !.staged = NoRows]
  BY DEF Fail
<1>3. NoRows \in [Tables -> SUBSET AnyRows]
  BY DEF NoRows
<1>4. /\ copier' \in Copiers /\ copier'.pc = "failed" /\ copier'.why = why
      /\ copier'.base = copier.base /\ copier'.found = copier.found
  <2> DEFINE none == NoRows
  <2>1. none \in [Tables -> SUBSET AnyRows]
    BY <1>3
  <2>2. copier' = [copier EXCEPT !.pc = "failed", !.why = why, !.rows = {}, !.staged = none]
    BY <1>2
  <2> HIDE DEF none
  <2> QED
    BY <1>1, <2>1, <2>2 DEF Copiers
<1>5. Meddled => Meddled'
  BY <1>1, <1>4 DEF Meddled
<1>6. Untouched'
  BY DEF CopyInv, Untouched
<1> QED
  BY <1>1, <1>4, <1>5, <1>6 DEF CopyInv

LEMMA CheckEmptyStep ==
    ASSUME StoreInv, CopyInv, CheckEmpty, UNCHANGED storeVars
    PROVE  CopyInv'
<1>1. /\ copier.pc = "checking" /\ copier \in Copiers /\ copier.at \in 1 .. 4
      /\ UNCHANGED <<target, intruded>> /\ UNCHANGED Source
  <2>1. copier.pc = "checking" /\ UNCHANGED <<target, intruded>>
    BY DEF CheckEmpty
  <2>2. copier \in Copiers
    BY <2>1, CopierTyped
  <2>3. copier.at \in 1 .. 4
    BY <2>2 DEF Copiers
  <2> QED
    BY <2>1, <2>2, <2>3, SourceSame
<1>2. CASE target[SortedTables[copier.at]] # {}
  <2>1. copier' = Fail("not empty")
    BY <1>2 DEF CheckEmpty
  <2> QED
    BY <1>1, <2>1, FailStep
<1>3. CASE target[SortedTables[copier.at]] = {}
  <2>1. copier.found = {}
    <3>1. CASE copier.at = 1
      <4>1. target["provider_credentials"] = intruded
        BY <1>1, TableFacts DEF CopyInv, Untouched, NoRows
      <4>2. intruded = {}
        BY <1>3, <3>1, <4>1, TableFacts
      <4> QED
        BY <1>1, <4>2 DEF CopyInv
    <3>2. CASE copier.at > 1
      BY <1>1, <3>2 DEF CopyInv
    <3> QED
      BY <1>1, <3>1, <3>2
  <2>2. CASE copier.at < 4
    <3>1. copier' = [copier EXCEPT !.at = copier.at + 1]
      BY <1>3, <2>2, TableFacts DEF CheckEmpty
    <3>2. /\ copier' \in Copiers /\ copier'.pc = "checking" /\ copier'.staged = copier.staged
          /\ copier'.base = copier.base /\ copier'.found = copier.found
      <4>1. copier.at + 1 \in 1 .. 4
        BY <1>1, <2>2
      <4>2. copier' \in Copiers
        BY <1>1, <3>1, <4>1 DEF Copiers
      <4> QED
        BY <1>1, <3>1, <4>2 DEF Copiers
    <3> QED
      BY <1>1, <2>1, <3>2 DEF CopyInv, Untouched
  <2>3. CASE copier.at = 4
    <3>1. copier' = [copier EXCEPT !.pc = "reading", !.at = 1]
      BY <1>3, <2>3, TableFacts DEF CheckEmpty
    <3>2. /\ copier' \in Copiers /\ copier'.pc = "reading" /\ copier'.staged = copier.staged
          /\ copier'.base = copier.base /\ copier'.found = copier.found /\ copier'.at = 1
      <4>1. 1 \in 1 .. 4
        OBVIOUS
      <4>2. copier' \in Copiers
        BY <1>1, <3>1, <4>1 DEF Copiers
      <4> QED
        BY <1>1, <3>1, <4>2 DEF Copiers
    <3>3. copier'.staged = NoRows /\ \A t \in Tables : NoRows[t] = {}
      BY <1>1, <3>2 DEF CopyInv, NoRows
    <3>4. Progress'
      BY <3>2, <3>3, TableFacts DEF Progress
    <3>5. KeysHeld(Held)'
      <4>1. Held'["virtual_keys"] = {}
        BY <1>1, <3>2, <3>3, TableFacts DEF Held, CopyInv, Untouched, NoRows
      <4> QED
        BY <4>1 DEF KeysHeld, Linked
    <3> QED
      BY <1>1, <2>1, <3>2, <3>4, <3>5 DEF CopyInv, Untouched
  <2> QED
    BY <1>1, <2>2, <2>3
<1> QED
  BY <1>2, <1>3

LEMMA SelectStep ==
    ASSUME StoreInv, CopyInv, Select, UNCHANGED storeVars
    PROVE  CopyInv'
<1> DEFINE t == SortedTables[copier.at]  rows == Source[t]
<1>1. /\ copier.pc = "reading" /\ copier \in Copiers /\ copier.at \in 1 .. 4
      /\ UNCHANGED <<target, intruded>> /\ UNCHANGED Source /\ Progress
      /\ copier.base[t] \subseteq Source[t]
  <2>1. copier.pc = "reading" /\ UNCHANGED <<target, intruded>>
    BY DEF Select
  <2>2. copier \in Copiers
    BY <2>1, CopierTyped
  <2>3. copier.at \in 1 .. 4
    BY <2>2 DEF Copiers
  <2> QED
    BY <2>1, <2>2, <2>3, SourceSame, TableFacts DEF CopyInv
<1>2. copier' = [copier EXCEPT !.pc = "writing", !.rows = rows] /\ rows \in SUBSET AnyRows
  BY <1>1, SourceTyped, TableFacts DEF Select
<1> HIDE DEF rows
<1>3. /\ copier' \in Copiers /\ copier'.pc = "writing" /\ copier'.staged = copier.staged
      /\ copier'.base = copier.base /\ copier'.found = copier.found /\ copier'.at = copier.at
      /\ copier'.rows = rows
  BY <1>1, <1>2 DEF Copiers
<1>4. Progress'
  BY <1>1, <1>3, TableFacts DEF Progress, rows
<1>5. Held' = Held
  BY <1>1, <1>3 DEF Held
<1> QED
  BY <1>1, <1>3, <1>4, <1>5 DEF CopyInv, Untouched

LEMMA BreakStep ==
    ASSUME StoreInv, CopyInv, Break, UNCHANGED storeVars
    PROVE  CopyInv'
  BY FailStep DEF Break

\* Against what is staged, no row of a source that nobody wrote to is refused.
LEMMA ConflictMeddled ==
    ASSUME StoreInv, CopyInv, copier.pc = "writing", NEW batch \in SUBSET copier.rows,
           Refused(SortedTables[copier.at], Held, batch)
    PROVE  Meddled
<1> DEFINE t == SortedTables[copier.at]
<1>1. SUFFICES ASSUME Source = copier.base, intruded = copier.found PROVE FALSE
  BY DEF Meddled
<1>2. /\ copier \in Copiers /\ copier.at \in 1 .. 4 /\ t \in Tables /\ Progress
      /\ copier.found = {} /\ Untouched
  <2>1. copier \in Copiers
    BY CopierTyped
  <2>2. copier.at \in 1 .. 4
    BY <2>1 DEF Copiers
  <2> QED
    BY <2>1, <2>2, TableFacts DEF CopyInv
<1>3. \A x \in Tables : Held[x] = copier.staged[x]
  <2>1. \A x \in Tables : target[x] = {}
    BY <1>1, <1>2, TableFacts DEF Untouched, NoRows
  <2> QED
    BY <2>1 DEF Held
<1>4. /\ batch \subseteq Source[t] /\ copier.staged[t] \subseteq Source[t]
      /\ copier.staged[t] \cap batch = {}
  BY <1>2 DEF Progress
<1>5. Keyed(Source[t])
  BY <1>2, TableFacts, SourceFacts DEF StoreInv
<1>6. CASE \E r \in batch, s \in Held[t] : r.id = s.id
  BY <1>2, <1>3, <1>4, <1>5, <1>6 DEF Keyed
<1>7. CASE t = "provider_credentials" /\ \E r \in batch, s \in Held[t] : r.name = s.name
  BY <1>2, <1>3, <1>4, <1>7, SourceFacts DEF StoreInv, Named
<1>8. CASE /\ t = "virtual_keys"
           /\ \E r \in batch : \A c \in Held["provider_credentials"] : c.id # r.credential
  <2>1. copier.at = 2
    BY <1>2, <1>8, TableFacts
  <2>2. copier.base["provider_credentials"] \subseteq copier.staged["provider_credentials"]
    BY <1>2, <2>1, TableFacts DEF Progress
  <2>3. provider_credentials \subseteq Held["provider_credentials"]
    BY <1>1, <1>3, <2>2, SourceFacts
  <2>4. batch \subseteq virtual_keys
    BY <1>4, <1>8, SourceFacts
  <2> QED
    BY <1>8, <2>3, <2>4 DEF StoreInv, Linked
<1> QED
  BY <1>6, <1>7, <1>8 DEF Refused

LEMMA InsertStep ==
    ASSUME StoreInv, CopyInv, Insert, UNCHANGED storeVars
    PROVE  CopyInv'
<1> DEFINE t == SortedTables[copier.at]
<1>1. PICK batch \in SUBSET copier.rows :
         copier' = IF Refused(t, Held, batch) THEN Fail("conflict")
                   ELSE [copier EXCEPT !.rows = @ \ batch, !.staged[t] = @ \cup batch]
  BY DEF Insert, kSubset
<1>2. copier.pc = "writing" /\ UNCHANGED <<target, intruded>>
  BY DEF Insert
<1>3. /\ copier \in Copiers /\ copier.at \in 1 .. 4 /\ t \in Tables /\ Progress
      /\ copier.found = {} /\ Untouched /\ KeysHeld(Held) /\ UNCHANGED Source
      /\ target \in [Tables -> SUBSET AnyRows] /\ intruded \subseteq Intruders
      /\ \A x \in Tables : copier.base[x] \subseteq Source[x]
  <2>1. copier \in Copiers
    BY <1>2, CopierTyped
  <2>2. copier.at \in 1 .. 4
    BY <2>1 DEF Copiers
  <2> QED
    BY <1>2, <2>1, <2>2, SourceSame, TableFacts DEF CopyInv
<1>4. CASE Refused(t, Held, batch)
  <2>1. Meddled
    BY <1>2, <1>4, ConflictMeddled
  <2> QED
    BY <1>1, <1>2, <1>4, <2>1, FailStep
<1>5. CASE ~Refused(t, Held, batch)
  <2> DEFINE rows == copier.rows \ batch
             staged == [copier.staged EXCEPT ![t] = @ \cup batch]
  <2>1. /\ copier.staged \in [Tables -> SUBSET AnyRows] /\ copier.rows \in SUBSET AnyRows
    BY <1>3 DEF Copiers
  <2>2. /\ staged \in [Tables -> SUBSET AnyRows] /\ rows \in SUBSET AnyRows
        /\ \A x \in Tables :
              staged[x] = IF x = t THEN copier.staged[t] \cup batch ELSE copier.staged[x]
    BY <1>3, <2>1
  <2>3. copier' = [copier EXCEPT !.rows = rows, !.staged = staged]
    <3>1. copier' = [copier EXCEPT !.rows = @ \ batch, !.staged[t] = @ \cup batch]
      BY <1>1, <1>5
    <3> QED
      BY <1>3, <3>1 DEF Copiers
  <2> HIDE DEF rows, staged
  <2>4. copier' \in Copiers
    BY <1>3, <2>2, <2>3 DEF Copiers
  <2>5. /\ copier'.pc = "writing" /\ copier'.staged = staged /\ copier'.rows = rows
        /\ copier'.base = copier.base /\ copier'.found = copier.found /\ copier'.at = copier.at
    BY <1>2, <1>3, <2>3 DEF Copiers
  <2>6. Progress'
    <3> SUFFICES ASSUME NEW i \in 1 .. 4
                 PROVE  LET x == SortedTables[i]
                        IN  /\ staged[x] \subseteq Source[x]
                            /\ i < copier.at => copier.base[x] \subseteq staged[x]
                            /\ i > copier.at => staged[x] = {}
                            /\ i = copier.at =>
                                  /\ copier.base[x] \subseteq staged[x] \cup rows
                                  /\ rows \subseteq Source[x]
                                  /\ staged[x] \cap rows = {}
      BY <1>3, <2>5 DEF Progress
    <3>1. CASE i = copier.at
      BY <1>2, <1>3, <2>2, <3>1 DEF Progress, rows
    <3>2. CASE i # copier.at
      <4>1. SortedTables[i] \in Tables /\ SortedTables[i] # t
        BY <1>3, <3>2, TableFacts
      <4> QED
        BY <1>3, <2>2, <3>2, <4>1 DEF Progress
    <3> QED
      BY <3>1, <3>2
  <2>7. \A x \in Tables : Held'[x] = IF x = t THEN Held[x] \cup batch ELSE Held[x]
    BY <1>2, <2>2, <2>5 DEF Held
  <2>8. KeysHeld(Held)'
    <3>1. \A k \in Held'["virtual_keys"] : \E c \in Held["provider_credentials"] :
             c.id = k.credential
      BY <1>3, <1>5, <2>7, TableFacts DEF KeysHeld, Linked, Refused
    <3>2. Held["provider_credentials"] \subseteq Held'["provider_credentials"]
      BY <2>7, TableFacts
    <3> QED
      BY <3>1, <3>2 DEF KeysHeld, Linked
  <2>9. Untouched'
    BY <1>2, <1>3 DEF Untouched
  <2> QED
    BY <1>2, <1>3, <2>4, <2>5, <2>6, <2>8, <2>9 DEF CopyInv
<1> QED
  BY <1>4, <1>5

LEMMA EndTableStep ==
    ASSUME StoreInv, CopyInv, EndTable, UNCHANGED storeVars
    PROVE  CopyInv'
<1>1. copier.pc = "writing" /\ copier.rows = {} /\ UNCHANGED intruded
  BY DEF EndTable
<1>2. /\ copier \in Copiers /\ copier.at \in 1 .. 4 /\ Progress
      /\ copier.found = {} /\ Untouched /\ KeysHeld(Held) /\ UNCHANGED Source
      /\ target \in [Tables -> SUBSET AnyRows] /\ intruded \subseteq Intruders
      /\ \A x \in Tables : copier.base[x] \subseteq Source[x]
  <2>1. copier \in Copiers
    BY <1>1, CopierTyped
  <2>2. copier.at \in 1 .. 4
    BY <2>1 DEF Copiers
  <2> QED
    BY <1>1, <2>1, <2>2, SourceSame DEF CopyInv
<1>3. CASE copier.at < 4
  <2>1. copier' = [copier EXCEPT !.pc = "reading", !.at = copier.at + 1] /\ UNCHANGED target
    BY <1>3, TableFacts DEF EndTable
  <2>2. copier.at + 1 \in 1 .. 4
    BY <1>2, <1>3
  <2>3. copier' \in Copiers
    BY <1>2, <2>1, <2>2 DEF Copiers
  <2>4. /\ copier'.pc = "reading" /\ copier'.at = copier.at + 1
        /\ copier'.staged = copier.staged /\ copier'.base = copier.base
        /\ copier'.found = copier.found
    BY <1>2, <2>1 DEF Copiers
  <2>5. Progress'
    <3> SUFFICES ASSUME NEW i \in 1 .. 4
                 PROVE  LET t == SortedTables[i]
                            staged == copier.staged[t]
                        IN  /\ staged \subseteq Source[t]
                            /\ i < copier.at + 1 => copier.base[t] \subseteq staged
                            /\ i >= copier.at + 1 => staged = {}
      BY <1>2, <2>4 DEF Progress
    <3>1. i < copier.at \/ i = copier.at \/ i > copier.at
      BY <1>2
    <3> QED
      BY <1>1, <1>2, <3>1 DEF Progress
  <2>6. Held' = Held
    BY <1>1, <2>1, <2>4 DEF Held
  <2> QED
    BY <1>1, <1>2, <2>1, <2>3, <2>4, <2>5, <2>6 DEF CopyInv, Untouched
<1>4. CASE copier.at = 4
  <2>1. copier' = [copier EXCEPT !.pc = "copied", !.staged = NoRows] /\ target' = Held
    BY <1>4, TableFacts DEF EndTable
  <2>2. copier' \in Copiers
    <3> DEFINE none == NoRows
    <3>1. none \in [Tables -> SUBSET AnyRows]
      BY DEF NoRows
    <3>2. copier' = [copier EXCEPT !.pc = "copied", !.staged = none]
      BY <2>1
    <3> HIDE DEF none
    <3> QED
      BY <1>2, <3>1, <3>2 DEF Copiers
  <2>3. copier'.pc = "copied" /\ copier'.base = copier.base /\ copier'.found = copier.found
    BY <1>2, <2>1 DEF Copiers
  <2>4. \A t \in Tables : target'[t] = target[t] \cup copier.staged[t]
    BY <1>1, <2>1 DEF Held
  <2>5. target' \in [Tables -> SUBSET AnyRows]
    BY <1>1, <1>2, <2>1, <2>4 DEF Held, Copiers
  <2>6. \A t \in Tables : /\ copier.base[t] \subseteq copier.staged[t]
                          /\ copier.staged[t] \subseteq Source[t]
    BY <1>1, <1>2, <1>4, TableFacts DEF Progress
  <2>7. /\ target["provider_credentials"] = intruded
        /\ \A t \in Tables \ {"provider_credentials"} : target[t] = {}
    BY <1>2, TableFacts DEF Untouched, NoRows
  <2>8. UNCHANGED provider_credentials
    BY DEF storeVars
  <2>9. Copied'
    <3>1. \A t \in Tables : copier'.base[t] \subseteq target'[t]
      BY <2>3, <2>4, <2>6
    <3>2. \A t \in Tables \ {"provider_credentials"} : target'[t] \subseteq Source'[t]
      BY <1>2, <2>4, <2>6, <2>7
    <3>3. target'["provider_credentials"] \subseteq provider_credentials' \cup intruded'
      BY <1>1, <2>4, <2>6, <2>7, <2>8, TableFacts, SourceFacts
    <3>4. KeysHeld(target)'
      BY <1>2, <2>1 DEF KeysHeld
    <3> QED
      BY <3>1, <3>2, <3>3, <3>4 DEF Copied
  <2> QED
    BY <1>1, <1>2, <2>2, <2>3, <2>5, <2>9 DEF CopyInv
<1> QED
  BY <1>2, <1>3, <1>4

LEMMA IntrudeStep ==
    ASSUME StoreInv, CopyInv, Intrude, UNCHANGED storeVars
    PROVE  CopyInv'
<1>1. PICK c \in Intruders :
         /\ intruded' = {c}
         /\ target' = [target EXCEPT !["provider_credentials"] = @ \cup {c}]
  BY DEF Intrude
<1>2. copier.pc # "idle" /\ intruded = {} /\ UNCHANGED copier /\ UNCHANGED Source
  BY SourceSame DEF Intrude
<1>3. /\ copier \in Copiers /\ target \in [Tables -> SUBSET AnyRows]
      /\ copier.found = {} /\ \A t \in Tables : copier.base[t] \subseteq Source[t]
  BY <1>2 DEF CopyInv
<1>4. /\ target' \in [Tables -> SUBSET AnyRows]
      /\ target'["provider_credentials"] = target["provider_credentials"] \cup {c}
      /\ \A t \in Tables \ {"provider_credentials"} : target'[t] = target[t]
  <2>1. c \in AnyRows
    BY CopyAssumption DEF CopyAssumption, AnyRows
  <2> QED
    BY <1>1, <1>3, <2>1, TableFacts
<1>5. copier.pc # "copied" => Untouched'
  BY <1>1, <1>2, TableFacts DEF CopyInv, Untouched, NoRows
<1>6. KeysHeld(Held) => KeysHeld(Held)'
  <2>1. /\ Held'["virtual_keys"] = Held["virtual_keys"]
        /\ Held["provider_credentials"] \subseteq Held'["provider_credentials"]
    BY <1>2, <1>4, TableFacts DEF Held
  <2> QED
    BY <2>1 DEF KeysHeld, Linked
<1>7. Copied => Copied'
  <2> SUFFICES ASSUME Copied PROVE Copied'
    OBVIOUS
  <2>1. UNCHANGED provider_credentials
    BY DEF storeVars
  <2>2. \A t \in Tables : copier'.base[t] \subseteq target'[t]
    BY <1>2, <1>4 DEF Copied
  <2>3. \A t \in Tables \ {"provider_credentials"} : target'[t] \subseteq Source'[t]
    BY <1>2, <1>4 DEF Copied
  <2>4. target'["provider_credentials"] \subseteq provider_credentials' \cup intruded'
    BY <1>1, <1>2, <1>4, <2>1 DEF Copied
  <2>5. KeysHeld(target)'
    <3>1. /\ target'["virtual_keys"] = target["virtual_keys"]
          /\ target["provider_credentials"] \subseteq target'["provider_credentials"]
      BY <1>4, TableFacts
    <3> QED
      BY <3>1 DEF Copied, KeysHeld, Linked
  <2> QED
    BY <2>2, <2>3, <2>4, <2>5 DEF Copied
<1>8. Progress => Progress'
  BY <1>2 DEF Progress
<1>9. Meddled'
  BY <1>1, <1>2, <1>3 DEF Meddled
<1>10. intruded' \subseteq Intruders
  BY <1>1
<1> QED
  BY <1>2, <1>3, <1>4, <1>5, <1>6, <1>7, <1>8, <1>9, <1>10 DEF CopyInv

LEMMA CopyStep == ASSUME StoreInv, CopyInv, Copy, UNCHANGED storeVars PROVE CopyInv'
  BY StartCopyStep, CheckEmptyStep, SelectStep, InsertStep, EndTableStep, BreakStep, IntrudeStep
  DEF Copy

-----------------------------------------------------------------------------
(* The theorems. *)

IInv == StoreInv /\ ReadInv /\ CopyInv

\* The invariant every theorem below is drawn from: the tables, the readers, the copy.
THEOREM Inductive == Spec => []IInv
<1>1. Init => IInv
  BY StoreStart, ReadStart, CopyStart DEF Init, IInv
<1>2. IInv /\ [Next]_vars => IInv'
  <2> SUFFICES ASSUME IInv, [Next]_vars PROVE IInv'
    OBVIOUS
  <2>1. CASE Serve /\ UNCHANGED <<readVars, copyVars>>
    BY <2>1, ServeStep, StoreGrows, ReadWaits, CopyWaits DEF IInv
  <2>2. CASE Read /\ UNCHANGED <<storeVars, copyVars>>
    BY <2>2, StoreSame, StoreGrows, ReadStep, CopyWaits DEF IInv
  <2>3. CASE Copy /\ UNCHANGED <<storeVars, readVars>>
    BY <2>3, StoreSame, StoreGrows, CopyStep, ReadWaits DEF IInv
  <2>4. CASE UNCHANGED vars
    BY <2>4, StoreSame, StoreGrows, ReadWaits, CopyWaits DEF IInv, vars
  <2> QED
    BY <2>1, <2>2, <2>3, <2>4 DEF Next
<1> QED
  BY <1>1, <1>2, PTL DEF Spec

\* Every reachable state is of the types of its tables, its requests and changes, its readers
\* and its copy.
THEOREM Typed == Spec => []TypeOK
<1>1. IInv => StoreTypeOK
  <2> SUFFICES ASSUME IInv PROVE StoreTypeOK
    OBVIOUS
  <2>1. \A r \in Requests : request[r].pc \in {"idle", "sent", "recorded", "unwritten"}
    BY DEF IInv, StoreInv, RequestStates
  <2>2. \A c \in Changes : change[c].pc \in {"idle", "auditing", "done"}
    BY DEF IInv, StoreInv, ChangeStates
  <2> QED
    BY <2>1, <2>2 DEF IInv, StoreInv, StoreTypeOK
<1>2. IInv => ReadTypeOK
  BY DEF IInv, ReadInv, WalkInv, ReviewInv, ReportInv, ReadTypeOK
<1>3. IInv => CopyTypeOK
  <2> SUFFICES ASSUME IInv PROVE CopyTypeOK
    OBVIOUS
  <2>1. copier.pc # "idle" => copier.at \in DOMAIN SortedTables
    BY CopierTyped, TableFacts DEF IInv, Copiers
  <2>2. target["ledger"] \subseteq LedgerRows
    <3>1. CASE copier.pc = "copied"
      <4>1. target["ledger"] \subseteq ledger
        BY <3>1, SourceFacts DEF IInv, CopyInv, Copied
      <4> QED
        BY <4>1 DEF IInv, StoreInv
    <3>2. CASE copier.pc # "copied"
      BY <3>2, TableFacts DEF IInv, CopyInv, Untouched, NoRows
    <3> QED
      BY <3>1, <3>2
  <2> QED
    BY <2>1, <2>2 DEF IInv, CopyInv, CopyTypeOK
<1> QED
  BY <1>1, <1>2, <1>3, Inductive, PTL DEF TypeOK

\* Under a file that was accepted no request goes without its row because of its cost, and
\* every row recorded since the start is priced by the table that names its model, dated or not,
\* between the lowest and the highest of its rates.
THEOREM Priced == Spec => []RowsPriced
<1>1. IInv => RowsPriced
  <2> SUFFICES ASSUME IInv PROVE RowsPriced
    OBVIOUS
  <2>1. \A r \in Requests : request[r].pc # "raised"
    BY DEF IInv, StoreInv, RequestStates
  <2>2. \A row \in ledger \ InitialLedger : PricedRow(row)
    BY DEF IInv, StoreInv
  <2> QED
    BY <2>1, <2>2 DEF RowsPriced, PricedRow, EntriesFor, Naming, TokensOf
<1> QED
  BY <1>1, Inductive, PTL

\* A walk of the ledger shows no row twice or out of order, and by its end every row there was
\* at its start, whatever its page size and whatever is recorded meanwhile.
THEOREM WalksWhole == Spec => []WalkWhole
<1>1. IInv => WalkWhole
  BY DEF IInv, ReadInv, WalkInv, WalkWhole, InOrder, IsShown
<1> QED
  BY <1>1, Inductive, PTL

\* A review of the audit log by time shows no event twice and misses, of those there were at its
\* start, only events stamped at the very time of the last event of a page.
THEOREM ReviewsMissOnlyTies == Spec => []ReviewMissesOnlyTies
<1>1. IInv => ReviewMissesOnlyTies
  BY DEF IInv, ReadInv, ReviewInv, ReviewMissesOnlyTies, Earlier, IsShown, Tied
<1> QED
  BY <1>1, Inductive, PTL

\* Two spend reports of adjoining ranges add up to the time series of both, in each metric and
\* however either is grouped, if no row was recorded meanwhile, and to no more otherwise; and a
\* series has at most one bucket more than its bound.
THEOREM SumsAgree == Spec => []ReportsAddUp
<1>1. IInv => ReportsAddUp
  BY DEF IInv, ReadInv, ReportInv
<1> QED
  BY <1>1, Inductive, PTL

\* Short of its end a copy leaves nothing in the target; at its end the target has all there was
\* to copy, nothing else, and every key with its credential; and a copy only meets a conflict
\* when the source or the target was written to meanwhile.
THEOREM CopiesWhole == Spec => []CopyWhole
<1>1. IInv => CopyWhole
  <2> SUFFICES ASSUME IInv PROVE CopyWhole
    OBVIOUS
  <2>1. copier.pc # "copied" => target = [NoRows EXCEPT !["provider_credentials"] = intruded]
    BY DEF IInv, CopyInv, Untouched
  <2>2. copier.pc = "copied" => Copied
    BY DEF IInv, CopyInv
  <2>3. copier.pc = "failed" /\ copier.why = "conflict" => Meddled
    BY DEF IInv, CopyInv
  <2> QED
    BY <2>1, <2>2, <2>3 DEF CopyWhole, Copied, KeysHeld, Linked, Meddled
<1> QED
  BY <1>1, Inductive, PTL

=============================================================================
