------------------------------- MODULE Leases -------------------------------
(***************************************************************************)
(* What the trades are promised about the data of their tokens: a token's  *)
(* data is cached exactly while some trade holds a lease on the token.     *)
(***************************************************************************)
CONSTANTS Client, Mint, MintOf

VARIABLES holders,    \* the trades whose lease counts
          cached      \* the tokens with data in the cache

leaseVars == <<holders, cached>>

Needed(H) == {MintOf[c] : c \in H}

LeaseInit == holders = {} /\ cached = {}

Acquire(c) == /\ c \notin holders
              /\ holders' = holders \cup {c}
              /\ cached' = Needed(holders')

Release(c) == /\ c \in holders
              /\ holders' = holders \ {c}
              /\ cached' = Needed(holders')

LeaseNext == \E c \in Client : Acquire(c) \/ Release(c)

LeaseSpec == LeaseInit /\ [][LeaseNext]_leaseVars
=============================================================================
