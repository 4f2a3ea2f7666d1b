------------------------------ MODULE Pricing ------------------------------
(***************************************************************************)
(* The pricing file and what a request costs (pricing.py, cost.py).        *)
(*                                                                         *)
(* A file is a set of entries, one per [provider.model] table; the rates   *)
(* of an entry are a function from the fields it has.  Rates are counted   *)
(* in 1/Fine of PRICE_QUANTUM, and a quantum per million tokens is one     *)
(* nanodollar per token.                                                   *)
(***************************************************************************)
EXTENDS Integers, Sequences, Functions

CONSTANTS
    Providers,   \* Provider
    Models,      \* names of models
    Undated,     \* per name, the name without a dated snapshot suffix (_DATE_SUFFIX)
    Fine,        \* the units a price may be written in, per PRICE_QUANTUM
    NotANumber,  \* a rate of another type
    None

RateFields == {"input", "output", "cache_read", "cache_write", "cache_write_1h"}
Required == {"input", "output"}

ASSUME PricingAssumption ==
    /\ Undated \in [Models -> Models]
    /\ Fine \in Nat \ {0}

-----------------------------------------------------------------------------
(* parse_pricing: a file that is not accepted stops the start.  "Required" are the fields an
   entry must have; aliases are further names of the entry. *)
Names(entry) == <<entry.model>> \o entry.aliases

\* Mutant of IsRate: the quantum is not checked.
IsRateUnrounded(v) == v # NotANumber /\ v >= 0

\* Mutant of IsRate: the sign is not checked.
IsRateSigned(v) == v # NotANumber /\ v % Fine = 0

IsRate(v) == v # NotANumber /\ v >= 0 /\ v % Fine = 0

EntryAccepted(entry) ==
    /\ entry.provider \in Providers
    /\ Required \subseteq DOMAIN entry.rates
    /\ DOMAIN entry.rates \subseteq RateFields
    /\ \A f \in DOMAIN entry.rates : IsRate(entry.rates[f])

\* Two tables of the file, or two places of one, give the same name.
NamedTwice(file) ==
    \E e, d \in file : \E i \in DOMAIN Names(e), j \in DOMAIN Names(d) :
        /\ e.provider = d.provider /\ Names(e)[i] = Names(d)[j]
        /\ e # d \/ i # j

Accepted(file) == (\A e \in file : EntryAccepted(e)) /\ ~NamedTwice(file)

Rate(entry, f) == IF f \in DOMAIN entry.rates THEN entry.rates[f] ELSE None

ModelPrice(entry) == [f \in RateFields |-> Rate(entry, f)]

\* The prices dict of an accepted file, and its get.
Prices(file, provider, name) ==
    LET named == {e \in file : e.provider = provider /\ name \in Range(Names(e))}
    IN  IF named = {} THEN None ELSE ModelPrice(CHOOSE e \in named : TRUE)

\* PricingTable.lookup
Lookup(file, provider, model) ==
    LET own == Prices(file, provider, model)
    IN  IF own # None THEN own ELSE Prices(file, provider, Undated[model])

-----------------------------------------------------------------------------
(* cost.py.  A cost is counted in 1/Fine of a nanodollar. *)
CacheRead(price) == IF price.cache_read # None THEN price.cache_read ELSE price.input

CacheWrite(price) == IF price.cache_write # None THEN price.cache_write ELSE price.input

CacheWrite1h(price) ==
    IF price.cache_write_1h # None THEN price.cache_write_1h ELSE CacheWrite(price)

Cost(usage, price) ==
    usage.input * price.input + usage.output * price.output
      + usage.cache_read * CacheRead(price)
      + usage.cache_write * CacheWrite(price)
      + usage.cache_write_1h * CacheWrite1h(price)

\* cost_nanousd raises when the cost is no whole number of nanodollars.
IsWhole(usage, price) == Cost(usage, price) % Fine = 0

CostNanousd(usage, price) == Cost(usage, price) \div Fine
=============================================================================
