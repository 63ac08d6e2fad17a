-------------------------------- MODULE Depot --------------------------------
(***************************************************************************)
(* What the market for memory promises: bytes are sold out of the stock    *)
(* for at least their price, and taken back from whoever holds them for no *)
(* more than it, out of what buyers have paid. One account trades at a     *)
(* time, nobody else's bytes change, and the stock only loses what is sold. *)
(* Lot bytes cost Price tokens.                                            *)
(***************************************************************************)
EXTENDS Integers

CONSTANTS Holders, Lot, Price

VARIABLES stock,    \* bytes for sale
          held,     \* bytes of each holder
          till      \* tokens paid for the bytes that are held

vars == <<stock, held, till>>

Init ==
    /\ held = [h \in Holders |-> 0]
    /\ till = 0

Trade(h, n, q) ==
    /\ held' = [held EXCEPT ![h] = @ + n]
    /\ till' = till + q

\* The stock may grow just before a trade, and always keeps more than it sells.
Sell(h) == \E n \in 1 .. stock' - 1, q \in 1 .. till' :
    /\ n * Price <= q * Lot
    /\ stock' + n >= stock
    /\ Trade(h, n, q)

TakeBack(h) == \E n \in 1 .. held[h], q \in 1 .. till :
    /\ q * Lot <= n * Price
    /\ stock' >= stock + n
    /\ Trade(h, -n, -q)

Restock ==
    /\ stock' > stock
    /\ UNCHANGED <<held, till>>

Next == Restock \/ \E h \in Holders : Sell(h) \/ TakeBack(h)
=============================================================================
