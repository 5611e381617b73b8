--------------------------- MODULE IPredictToken ---------------------------
(***************************************************************************)
(* The IPRED reward token (contracts/ipredict_token): an admin names the   *)
(* authorized minters, minters create tokens, holders move and burn them.  *)
(* A call that returns an error reverts, so only the successful calls are  *)
(* actions; an action's guard is the negation of every early return.       *)
(***************************************************************************)
EXTENDS Integers, Functions, FiniteSets

CONSTANTS
    Address,        \* every account and contract address
    Nobody,         \* an unset address slot
    TokenAmounts,   \* amounts a caller passes, bad ones included
    SupplyCap       \* bound: TokenNext mints no further than this

ASSUME TokenConstants ==
    /\ IsFiniteSet(Address) /\ Nobody \notin Address
    /\ TokenAmounts \subseteq Int
    /\ SupplyCap \in Nat

VARIABLES
    tokenAdmin,     \* DataKey::Admin
    minters,        \* the addresses with AuthorizedMinter = true
    balance,        \* DataKey::Balance, 0 when absent
    totalSupply     \* DataKey::TotalSupply

tokenVars == <<tokenAdmin, minters, balance, totalSupply>>

TokenInit ==
    /\ tokenAdmin = Nobody
    /\ minters = {}
    /\ balance = [a \in Address |-> 0]
    /\ totalSupply = 0

-----------------------------------------------------------------------------
(* Administration *)

TokenInitialize(admin) ==
    /\ tokenAdmin = Nobody
    /\ tokenAdmin' = admin
    /\ totalSupply' = 0
    /\ UNCHANGED <<minters, balance>>

\* The admin is read from storage, so only its own signature gets this far.
SetMinter(minter) ==
    /\ tokenAdmin # Nobody
    /\ minters' = minters \cup {minter}
    /\ UNCHANGED <<tokenAdmin, balance, totalSupply>>

RemoveMinter(minter) ==
    /\ tokenAdmin # Nobody
    /\ minters' = minters \ {minter}
    /\ UNCHANGED <<tokenAdmin, balance, totalSupply>>

-----------------------------------------------------------------------------
(* Supply and holdings *)

Mint(minter, to, amount) ==
    /\ amount > 0
    /\ minter \in minters
    /\ balance' = [balance EXCEPT ![to] = @ + amount]
    /\ totalSupply' = totalSupply + amount
    /\ UNCHANGED <<tokenAdmin, minters>>

\* A slip: the receiver's balance is read before the sender's is written.
Transfer_EarlyRead(from, to, amount) ==
    /\ amount > 0
    /\ balance[from] >= amount
    /\ balance' = [[balance EXCEPT ![from] = @ - amount]
                      EXCEPT ![to] = balance[to] + amount]
    /\ UNCHANGED <<tokenAdmin, minters, totalSupply>>

\* The receiver is read after the sender is written: from = to is harmless.
TokenTransfer(from, to, amount) ==
    /\ amount > 0
    /\ balance[from] >= amount
    /\ balance' = [[balance EXCEPT ![from] = @ - amount] EXCEPT ![to] = @ + amount]
    /\ UNCHANGED <<tokenAdmin, minters, totalSupply>>

\* A slip: the balance check is missing.
Burn_Unchecked(from, amount) ==
    /\ amount > 0
    /\ balance' = [balance EXCEPT ![from] = @ - amount]
    /\ totalSupply' = totalSupply - amount
    /\ UNCHANGED <<tokenAdmin, minters>>

Burn(from, amount) ==
    /\ amount > 0
    /\ balance[from] >= amount
    /\ balance' = [balance EXCEPT ![from] = @ - amount]
    /\ totalSupply' = totalSupply - amount
    /\ UNCHANGED <<tokenAdmin, minters>>

TokenNext ==
    \/ \E a \in Address : TokenInitialize(a)
    \/ \E a \in Address : SetMinter(a) \/ RemoveMinter(a)
    \/ \E m, a \in Address, n \in TokenAmounts :
          totalSupply + n <= SupplyCap /\ Mint(m, a, n)
    \/ \E a, b \in Address, n \in TokenAmounts : TokenTransfer(a, b, n)
    \/ \E a \in Address, n \in TokenAmounts : Burn(a, n)

TokenSpec == TokenInit /\ [][TokenNext]_tokenVars

-----------------------------------------------------------------------------
(* Properties *)

\* Every balance and the supply stay natural numbers (mint, transfer, burn).
TokenTypeOK ==
    /\ tokenAdmin \in Address \cup {Nobody}
    /\ minters \subseteq Address
    /\ balance \in [Address -> Nat]
    /\ totalSupply \in Nat

\* TotalSupply, kept by mint and burn only, is what the holders hold together,
\* whatever they transfer, to themselves included, and nobody holds less than 0.
SupplyIsHeld ==
    /\ totalSupply = SumFunction(balance)
    /\ \A a \in DOMAIN balance : balance[a] >= 0
=============================================================================
