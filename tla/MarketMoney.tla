----------------------------- MODULE MarketMoney -----------------------------
(***************************************************************************)
(* The prices of the market (inventory/money.ts).                          *)
(*                                                                         *)
(* Steam counts every currency in hundredths, the user in the smallest     *)
(* unit of the currency.  A sale asks for the highest seller's share whose *)
(* price, with the fees of Steam and of the publisher, does not exceed     *)
(* what the rules allow.  The code computes with BigInt: numbers here are  *)
(* exact as well; Limit stands for the greatest amount that it accepts.    *)
(***************************************************************************)
EXTENDS Integers

CONSTANTS
    Wallets,        \* wallets that parseWallet accepts
    Rates,          \* fees of publishers, as fractions
    References,     \* prices on the market, in hundredths
    RuleSets,       \* the rules of users, in smallest units
    Limit,
    Unset           \* no price limit, no currency

(***************************************************************************)
(* Units                                                                   *)
(***************************************************************************)

\* Exact or not at all: what a unit does not divide is refused.
Convertible(amount, from, to) == (amount * to) % from = 0

ToMinorUnits(steamAmount, w)   == (steamAmount * 10^w.minor) \div 100
FromMinorUnits(amount, w)      == (amount * 100) \div 10^w.minor
HasMinorUnits(steamAmount, w)  == Convertible(steamAmount, 100, 10^w.minor)
HasSteamAmount(amount, w)      == Convertible(amount, 10^w.minor, 100)

\* parseWallet
Wallet(w) ==
    /\ w.minor \in 0..3 /\ w.minimum \in Nat \ {0} /\ w.increment \in Nat \ {0}
    /\ w.minimum % w.increment = 0 /\ w.steamBase \in Nat
    /\ HasMinorUnits(w.minimum, w) /\ HasMinorUnits(w.increment, w)

\* parseRate: a fraction of at most one
Rate(r) == r.num \in Nat /\ r.den \in Nat \ {0} /\ r.num <= r.den

ASSUME MoneyAssumption ==
    /\ Limit \in Nat /\ References \subseteq Nat
    /\ \A w \in Wallets : Wallet(w) /\ Rate(w.steamRate)
    /\ \A r \in Rates : Rate(r)
    /\ Unset \notin Int
    /\ \A rules \in RuleSets :
        rules.adjustment \in Int /\ {rules.min, rules.max} \subseteq Nat \cup {Unset}

(***************************************************************************)
(* Fees                                                                    *)
(***************************************************************************)

\* At least the minimum of the wallet, and on its grid.
Fee(base, rate, w) ==
    LET floor == (base * rate.num) \div rate.den IN
    IF rate.num = 0 THEN 0
    ELSE IF floor <= w.minimum THEN w.minimum
    ELSE ((2 * floor + w.increment) \div (2 * w.increment)) * w.increment

BuyerPays(base, w, rate) ==
    base + Fee(base, w.steamRate, w) + w.steamBase + Fee(base, rate, w)

\* Mutant: a price that meets the cap exactly is too high.
Fits_Below(base, cap, w, rate) == BuyerPays(base, w, rate) < cap

Fits(base, cap, w, rate) == BuyerPays(base, w, rate) <= cap

\* quoteFromBuyerCap: the search halves what is left of the grid, and remembers the last
\* share that fits; 0 is none.
QuoteFromBuyerCap(cap, w, rate) ==
    LET search[s \in Nat \X Int \X Nat] ==
            LET low    == s[1]
                high   == s[2]
                middle == (low + high) \div 2
                base   == middle * w.increment
            IN  IF low > high THEN s[3]
                ELSE IF Fits(base, cap, w, rate) THEN search[<<middle + 1, high, base>>]
                ELSE search[<<low, middle - 1, s[3]>>]
    IN  search[<<w.minimum \div w.increment, cap \div w.increment, 0>>]

(***************************************************************************)
(* Rules                                                                   *)
(***************************************************************************)

Amounts(rules) == {rules.adjustment, rules.min, rules.max} \ {Unset}

\* moneyCustomized
Customized(rules) == rules.adjustment # 0 \/ {rules.min, rules.max} # {Unset}

\* validatePriceSettings
Valid(w, rules) ==
    /\ Customized(rules) => rules.currency # Unset
    /\ rules.currency \in {Unset, w.currency}
    /\ Unset \notin {rules.min, rules.max} => rules.min <= rules.max
    /\ \A amount \in Amounts(rules) :
        HasSteamAmount(amount, w) /\ FromMinorUnits(amount, w) % w.increment = 0

\* checkBounds
InBounds(steamPrice, w, rules) ==
    /\ HasMinorUnits(steamPrice, w)
    /\ LET amount == ToMinorUnits(steamPrice, w) IN
        /\ rules.min # Unset => amount >= rules.min
        /\ rules.max # Unset => amount <= rules.max

BuyerCap(reference, w, rules) == reference + FromMinorUnits(rules.adjustment, w)

\* Mutant: the limits are checked for the price that was asked for only.
Acceptable_Asked(base, cap, w, rate, rules) == base # 0

\* The price that the fees leave is checked again.
Acceptable(base, cap, w, rate, rules) ==
    base # 0 /\ InBounds(BuyerPays(base, w, rate), w, rules)

\* quoteWithRules: the seller's share, or 0 when the sale is refused.
QuoteWithRules(reference, w, rate, rules) ==
    LET cap  == BuyerCap(reference, w, rules)
        base == QuoteFromBuyerCap(cap, w, rate)
    IN  IF /\ Valid(w, rules)
           /\ reference \in 1..Limit /\ reference % w.increment = 0
           /\ cap \in 1..Limit /\ InBounds(cap, w, rules)
           /\ Acceptable(base, cap, w, rate, rules)
        THEN base ELSE 0

(***************************************************************************)
(* Properties                                                              *)
(***************************************************************************)

\* The shares of the seller that the wallet can express and the cap covers.
Shares(cap, w, rate) ==
    {base \in {k * w.increment : k \in 1..(cap \div w.increment)} :
        base >= w.minimum /\ BuyerPays(base, w, rate) <= cap}

\* The search by halves finds the highest share that fits, although fees jump at the
\* minimum and are rounded to the grid.
SearchIsExact ==
    \A w \in Wallets, rate \in Rates, cap \in References :
        LET base == QuoteFromBuyerCap(cap, w, rate) IN
        IF Shares(cap, w, rate) = {} THEN base = 0
        ELSE /\ base \in Shares(cap, w, rate)
             /\ \A other \in Shares(cap, w, rate) : other <= base

\* What a sale is offered for keeps the limits of the user, in the units that he wrote
\* them in, and is never more than the price on the market with his adjustment.
LimitsAreKept ==
    \A w \in Wallets, rate \in Rates, reference \in References, rules \in RuleSets :
        LET base  == QuoteWithRules(reference, w, rate, rules)
            price == BuyerPays(base, w, rate)
            spent == price * 10^w.minor
        IN  base # 0 =>
            /\ spent <= reference * 10^w.minor + rules.adjustment * 100
            /\ rules.min # Unset => spent >= rules.min * 100
            /\ rules.max # Unset => spent <= rules.max * 100
            /\ spent % 100 = 0
=============================================================================
