-------------------------------- MODULE Money --------------------------------
(***************************************************************************)
(* The money of an order: pricing its items (priceOrderItems of            *)
(* service.ts) and splitting the total, VAT included, into supply value    *)
(* and VAT (domain/src/money.ts).  Amounts are whole won.  The total is    *)
(* rounded once for the whole document; what the rounding down of the      *)
(* lines leaves over goes, one won each, to the lines with the largest     *)
(* remainders - among equal ones in the order of their random ids.         *)
(***************************************************************************)
EXTENDS Integers, Sequences, FiniteSets, SequencesExt, Folds

CONSTANTS
    UnitPrices,    \* unit prices of products, VAT included
    ItemCounts,    \* quantities ordered
    MaxItems       \* bound: lines of an order

ASSUME PriceAssumption ==
    UnitPrices \subseteq Nat /\ ItemCounts \subseteq Nat \ {0} /\ MaxItems \in Nat

VARIABLE quote     \* what an order is priced with

LineGross(items) == [i \in DOMAIN items |-> items[i].unit * items[i].quantity]
TotalOf(amounts) == FoldFunction(LAMBDA x, y : x + y, 0, amounts)

(* 100/110 of an amount: rounded half up, and rounded down with what is    *)
(* left over, in 110ths.                                                   *)
RoundedSupply(gross) == (gross * 100 + 55) \div 110
Base(gross) == (gross * 100) \div 110
Remainder(gross) == (gross * 100) % 110

(* The choices of lines that get one won more. *)
LargestRemainders(gross) ==
    LET remaining == RoundedSupply(TotalOf(gross)) - TotalOf([i \in DOMAIN gross |-> Base(gross[i])])
    IN {extra \in SUBSET DOMAIN gross :
           /\ Cardinality(extra) = IF remaining < 0 THEN 0 ELSE remaining
           /\ \A i \in extra, j \in DOMAIN gross \ extra : Remainder(gross[i]) >= Remainder(gross[j])}

(* Variant: each line is rounded for itself. *)
RoundEachLine(gross) == {[i \in DOMAIN gross |-> RoundedSupply(gross[i])]}
LineSupplies(gross) ==
    {[i \in DOMAIN gross |-> Base(gross[i]) + IF i \in extra THEN 1 ELSE 0] :
        extra \in LargestRemainders(gross)}

splitVatInclusive(gross) ==
    {[gross |-> TotalOf(gross), supply |-> RoundedSupply(TotalOf(gross)),
      vat |-> TotalOf(gross) - RoundedSupply(TotalOf(gross)),
      lines |-> [i \in DOMAIN gross |-> [gross |-> gross[i], supply |-> supplies[i],
                                         vat |-> gross[i] - supplies[i]]]] :
        supplies \in LineSupplies(gross)}

(* More is left over than there are lines: the loop runs past the end. *)
NotSplit(gross) == {[gross |-> TotalOf(gross), supply |-> 0, vat |-> 0, lines |-> <<>>]}

MoneyInit == quote = [lines |-> <<>>, gross |-> 0, supply |-> 0, vat |-> 0]

priceOrderItems ==
    /\ quote.lines = <<>>
    /\ \E n \in 1 .. MaxItems : \E items \in [1 .. n -> [unit : UnitPrices, quantity : ItemCounts]] :
          LET splits == splitVatInclusive(LineGross(items))
          IN quote' \in IF splits = {} THEN NotSplit(LineGross(items)) ELSE splits

MoneySpec == MoneyInit /\ [][priceOrderItems]_quote

-----------------------------------------------------------------------------
(* An order can always be split; its lines add up to its document exactly, *)
(* and no line is a whole won away from its own 100/110: what the document *)
(* rounds is never put on a line that has nothing to round                 *)
(* (splitVatInclusive).                                                    *)
SplitAddsUp ==
    LET lines == quote.lines IN
    /\ quote.supply = TotalOf([i \in DOMAIN lines |-> lines[i].supply])
    /\ quote.vat = TotalOf([i \in DOMAIN lines |-> lines[i].vat])
    /\ quote.gross = quote.supply + quote.vat
    /\ \A i \in DOMAIN lines :
         /\ lines[i].vat >= 0
         /\ LET off == 110 * lines[i].supply - 100 * lines[i].gross IN -110 < off /\ off < 110
=============================================================================
