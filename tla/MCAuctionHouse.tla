--------------------------- MODULE MCAuctionHouse ---------------------------
(* The seller has the item at first; two players bid for it.                   *)
EXTENDS AuctionHouse

CONSTANTS seller, bidder, rival, sword

MCOwner == [i \in Item |-> seller]

(* The two bidders are alike. *)
Bidders == Permutations({bidder, rival})
(* Nothing is claimed of what follows once an item went astray. *)
NothingAstray == ~astray
=============================================================================
