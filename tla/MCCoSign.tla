------------------------------ MODULE MCCoSign ------------------------------
(* Two intents, two co-signs and a user with two accounts, for TLC. *)
EXTENDS CoSign, TLC

CONSTANTS i1, i2, j1, j2, h1, h2

MCIntents == {i1, i2}
MCJobs == {j1, j2}
MCHashes == {h1, h2}
MCNames == {"alice", "bob", "shop", "token"}
Alice == [tag |-> "01", name |-> "alice"]
Bob == [tag |-> "02", name |-> "bob"]
ShopAccount == [tag |-> "00", name |-> "shop"]
TokenPackage == [tag |-> "00", name |-> "token"]
MCAccounts == {Alice, Bob}
MCOperators == {Alice, ShopAccount}
MCReceivers == {Alice, ShopAccount}
MCContracts == {TokenPackage}
MCTokens == {"cspr-test-cep18"}
One == [form |-> "digits", value |-> 1]
OneHalf == [form |-> "decimal", value |-> 1]
MCAmounts == {One, OneHalf}
(* A native transfer to an account hash, tokens to what could be a contract. *)
MCOtherBodies ==
    {[token |-> "CSPR", contract |-> Sentinel, receiver |-> ShopAccount, amount |-> One],
     [token |-> "cspr-test-cep18", contract |-> TokenPackage, receiver |-> Alice, amount |-> One]}
Symmetry == Permutations(MCIntents) \cup Permutations(MCJobs) \cup Permutations(MCHashes)
=============================================================================
