------------------------- MODULE MCBitcoinCreation -------------------------
EXTENDS BitcoinCreation
MCWallet == <<"a", "b", "c">>
MCValue == [u \in ToSet(MCWallet) |->
              CASE u = "a" -> 1000 [] u = "b" -> 3000 [] u = "c" -> 2000]
MCRanges == {[min |-> 1024, std |-> 2048, max |-> 4096], [min |-> 0, std |-> 1500, max |-> 3000]}
============================================================================
