----------------------------- MODULE EscrowVault -----------------------------
(***************************************************************************)
(* What the escrow contract promises about MONEY: every deal behaves as if *)
(* it had a vault of its own.  Securing a deal moves its amount from the   *)
(* buyer's wallet to the vault, settling it moves the same amount from the *)
(* vault to one of the two parties, and nothing else touches either.  The  *)
(* contract has no vaults: it keeps one pooled balance per token, and      *)
(* EscrowContract is shown to implement this module all the same.          *)
(***************************************************************************)
EXTENDS Integers

CONSTANTS Ids,       \* deals
          Parties,   \* wallets of people
          Tokens,
          Terms,     \* what can be agreed: buyer, seller, arbiter, token, amount
          NoTerms,   \* a deal nobody has agreed yet
          InitialBalance

VARIABLES terms,     \* the agreement, once there is one
          vault,     \* what each deal holds
          open,      \* deals agreed and not settled
          wallet     \* what each party holds of each token

vars == <<terms, vault, open, wallet>>

Init ==
  /\ terms = [id \in Ids |-> NoTerms]
  /\ vault = [id \in Ids |-> 0]
  /\ open = {}
  /\ wallet = [t \in Tokens |-> [p \in Parties |-> InitialBalance]]

Agree(id) ==
  /\ terms[id] = NoTerms
  /\ \E t \in Terms : terms' = [terms EXCEPT ![id] = t]
  /\ open' = open \cup {id}
  /\ UNCHANGED <<vault, wallet>>

Secure(id) ==
  /\ id \in open
  /\ vault[id] = 0
  /\ LET t == terms[id] IN
       /\ wallet[t.token][t.buyer] >= t.amount
       /\ wallet' = [wallet EXCEPT ![t.token][t.buyer] = @ - t.amount]
       /\ vault' = [vault EXCEPT ![id] = t.amount]
  /\ UNCHANGED <<terms, open>>

\* What a wallet of the parties shows of a payment; an address that is no
\* party's wallet (the contract's own) keeps what it gets out of their sight.
Credited(to, token, amount) ==
  IF to \in Parties THEN [wallet EXCEPT ![token][to] = @ + amount] ELSE wallet

Settle(id) ==
  /\ id \in open
  /\ vault[id] > 0
  /\ \E to \in {terms[id].seller, terms[id].buyer} :
       wallet' = Credited(to, terms[id].token, vault[id])
  /\ vault' = [vault EXCEPT ![id] = 0]
  /\ open' = open \ {id}
  /\ UNCHANGED terms

Next == \E id \in Ids : Agree(id) \/ Secure(id) \/ Settle(id)

Spec == Init /\ [][Next]_vars
=============================================================================
