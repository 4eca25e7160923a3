------------------------------- MODULE MCBrowser -------------------------------
EXTENDS Browser, TLC

CONSTANTS r, p, c, k, west, t1, t2, j1, j2, la, lb, lx

MCOrder == <<r, p, c, k>>
MCSort == (r :> "recorded") @@ (p :> "planned") @@ (c :> "collection") @@ (k :> "track")
MCWithin == (west :> {r, c})
MCUrls == {[kinds |-> Kinds, marked |-> FALSE, tagged |-> FALSE, bbox |-> None,
            followed |-> TRUE]}
MCPairs == {{la, lb}, {lb, lx}}
Sym == Permutations(Tasks) \cup Permutations(Jobs)
=============================================================================
