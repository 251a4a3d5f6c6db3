----------------------------- MODULE MCStartup ------------------------------
(* Three reserves, two fees; three ranges with three, two and no borrowers. *)
EXTENDS Startup, TLC

MCReserves == <<7, 4, 9>>
MCFees == <<500, 3000>>
MCBalance == (<<4, 7, 500>> :> 4) @@ (<<4, 7, 3000>> :> 7) @@ (<<7, 9, 3000>> :> 0)
             @@ (<<4, 9, 500>> :> 9) @@ (<<4, 9, 3000>> :> 9)
MCBorrowers == {1, 3, 4, 11, 13}
MCCategoryOf == [u \in MCBorrowers |-> CASE u \in {1, 4} -> 0 [] u = 11 -> 2 [] OTHER -> 1]
MCBounds == <<0, 10, 20, 30>>
=============================================================================
