------------------------------ MODULE Shylock -------------------------------
(***************************************************************************)
(* Shylock (shylock/src): the cache of token data, shared by the trades of *)
(* a token through reference counts.  One loop handles one command at a    *)
(* time; a registration that has to fetch keeps the loop busy through its  *)
(* retries.  A poller runs beside it: it reads which tokens are subscribed,*)
(* asks for their priority fees with no lock held, and writes the answers. *)
(*                                                                         *)
(* The clients are the trades' actors: each registers its token, asks for  *)
(* the data it starts from, may ask for transactions while it runs, and    *)
(* deregisters when it is cleaned up.                                      *)
(*                                                                         *)
(* Abstracted: token data is the protocol it describes, a priority fee is  *)
(* the default or a polled one.  A token migrates from its bonding curve   *)
(* to a pool once, on the chain.  Blocking RPC calls either succeed or     *)
(* fail.  GetFeeConfig, which nothing sends, is left out.                  *)
(***************************************************************************)
EXTENDS Naturals, Sequences, FiniteSets

CONSTANTS Client,       \* trade actors
          Mint,
          MintOf,       \* monitored_token of each actor
          OneShot,      \* the actors that ask for live data to act at once
          MaxAttempts   \* max_attempts of a registration's fetch

ASSUME ShylockAssumption ==
    /\ MintOf \in [Client -> Mint]
    /\ OneShot \subseteq Client
    /\ IsFiniteSet(Client)
    /\ MaxAttempts \in Nat \ {0}

VARIABLES chain,      \* the protocol each token trades on
          phase,      \* where each actor is
          context,    \* the protocol each actor believes in (token_context)
          answer,     \* the reply an actor is about to read
          commands,   \* the command channel
          fetching,   \* failed attempts of the registration at the head
          count,      \* token_subscriptions: the count, 0 if absent
          subContext, \* token_subscriptions: the context kept with it
          cache,      \* token_cache: protocol and fee, or none
          polling     \* the tokens whose fees the poller is asking for

vars == <<chain, phase, context, answer, commands, fetching, count,
          subContext, cache, polling>>
shylockVars == <<fetching, count, subContext, cache>>
clientVars == <<phase, context>>

Protocol == {"curve", "pool"}
Phase == {"idle", "registering", "preparing", "running", "asking", "gone",
          "failed"}
NoData == [protocol |-> "none", fee |-> "none"]
Data == [protocol : Protocol, fee : {"default", "polled"}] \cup {NoData}
Answer == {"none", "ok", "err", "dropped"} \cup Protocol
Command == [kind : {"register", "deregister", "cached", "live", "transaction"},
            client : Client, context : Protocol]

Init == /\ chain = [m \in Mint |-> "curve"]
        /\ phase = [c \in Client |-> "idle"]
        /\ context = [c \in Client |-> "curve"]
        /\ answer = [c \in Client |-> "none"]
        /\ commands = <<>>
        /\ fetching = 0
        /\ count = [m \in Mint |-> 0]
        /\ subContext = [m \in Mint |-> "curve"]
        /\ cache = [m \in Mint |-> NoData]
        /\ polling = {}

-----------------------------------------------------------------------------
(* The actors.                                                             *)

Ask(c, kind) ==
    commands' = Append(commands, [kind |-> kind, client |-> c,
                                  context |-> context'[c]])

Migrate(m) == /\ chain[m] = "curve"
              /\ chain' = [chain EXCEPT ![m] = "pool"]
              /\ UNCHANGED <<clientVars, answer, commands, shylockVars, polling>>

\* The actor is built with the context the protocol detector read.
Register(c) == /\ phase[c] = "idle"
               /\ phase' = [phase EXCEPT ![c] = "registering"]
               /\ context' = [context EXCEPT ![c] = chain[MintOf[c]]]
               /\ Ask(c, "register")
               /\ UNCHANGED <<chain, answer, shylockVars, polling>>

Read(c, from) == /\ phase[c] = from
                 /\ answer[c] # "none"
                 /\ answer' = [answer EXCEPT ![c] = "none"]

Registered(c) == /\ Read(c, "registering")
                 /\ answer[c] = "ok"
                 /\ phase' = [phase EXCEPT ![c] = "preparing"]
                 /\ UNCHANGED context
                 /\ Ask(c, IF c \in OneShot THEN "live" ELSE "cached")
                 /\ UNCHANGED <<chain, shylockVars, polling>>

\* Slip: an actor that could not register is cleaned up all the same.
FailedDeregisters(c) ==
    /\ Read(c, "registering")
    /\ answer[c] = "err"
    /\ phase' = [phase EXCEPT ![c] = "failed"]
    /\ UNCHANGED context
    /\ Ask(c, "deregister")
    /\ UNCHANGED <<chain, shylockVars, polling>>

\* initialize returns its error, and run returns without a cleanup.
NotRegistered(c) == /\ Read(c, "registering")
                    /\ answer[c] = "err"
                    /\ phase' = [phase EXCEPT ![c] = "failed"]
                    /\ UNCHANGED <<chain, context, commands, shylockVars,
                                   polling>>

\* Whatever the data says, the actor's loop begins; an activation that
\* failed is forgotten.
Prepared(c) == /\ Read(c, "preparing")
               /\ phase' = [phase EXCEPT ![c] = "running"]
               /\ UNCHANGED <<chain, context, commands, shylockVars, polling>>

\* A countersell sees the migration in a transaction's logs.
SeeMigration(c) == /\ phase[c] = "running"
                   /\ c \notin OneShot
                   /\ chain[MintOf[c]] = "pool"
                   /\ context[c] = "curve"
                   /\ context' = [context EXCEPT ![c] = "pool"]
                   /\ UNCHANGED <<chain, phase, answer, commands, shylockVars,
                                  polling>>

\* A confirmed result makes the actor fetch its transaction.
AskTransaction(c) == /\ phase[c] = "running"
                     /\ phase' = [phase EXCEPT ![c] = "asking"]
                     /\ UNCHANGED context
                     /\ Ask(c, "transaction")
                     /\ UNCHANGED <<chain, answer, shylockVars, polling>>

ReadTransaction(c) == /\ Read(c, "asking")
                      /\ phase' = [phase EXCEPT ![c] = "running"]
                      /\ UNCHANGED <<chain, context, commands, shylockVars,
                                     polling>>

\* cleanup, after a completion or a closed mailbox.
CleanUp(c) == /\ phase[c] = "running"
              /\ phase' = [phase EXCEPT ![c] = "gone"]
              /\ UNCHANGED context
              /\ Ask(c, "deregister")
              /\ UNCHANGED <<chain, answer, shylockVars, polling>>

-----------------------------------------------------------------------------
(* Shylock's loop.                                                         *)

Is(kind) == commands # <<>> /\ Head(commands).kind = kind
Asker == Head(commands).client
Token == MintOf[Asker]

\* The command is done with; its client reads a, if it asked for anything.
Reply(a) == /\ commands' = Tail(commands)
            /\ answer' = [answer EXCEPT ![Asker] = a]

\* Slip: the count starts again at each registration.
HandleRegisterAnew ==
    /\ Is("register")
    /\ count[Token] > 0
    /\ count' = [count EXCEPT ![Token] = 1]
    /\ Reply("ok")
    /\ UNCHANGED <<chain, clientVars, fetching, subContext, cache, polling>>

\* The token is known: the count goes up, the context kept is the old one.
HandleRegister ==
    /\ Is("register")
    /\ count[Token] > 0
    /\ count' = [count EXCEPT ![Token] = @ + 1]
    /\ Reply("ok")
    /\ UNCHANGED <<chain, clientVars, fetching, subContext, cache, polling>>

Fetching == Is("register") /\ count[Token] = 0

\* Slip: a token that comes back keeps the context it had.
FetchSucceedsOldContext ==
    /\ Fetching
    /\ fetching' = 0
    /\ count' = [count EXCEPT ![Token] = 1]
    /\ cache' = [cache EXCEPT ![Token] =
                   [protocol |-> Head(commands).context, fee |-> "default"]]
    /\ Reply("ok")
    /\ UNCHANGED <<chain, clientVars, subContext, polling>>

FetchSucceeds ==
    /\ Fetching
    /\ fetching' = 0
    /\ count' = [count EXCEPT ![Token] = 1]
    /\ subContext' = [subContext EXCEPT ![Token] = Head(commands).context]
    /\ cache' = [cache EXCEPT ![Token] =
                   [protocol |-> Head(commands).context, fee |-> "default"]]
    /\ Reply("ok")
    /\ UNCHANGED <<chain, clientVars, polling>>

\* Slip: the fetch is tried for ever.
FetchFailsForEver ==
    /\ Fetching
    /\ fetching' = (fetching + 1) % MaxAttempts
    /\ UNCHANGED <<chain, clientVars, answer, commands, count, subContext,
                   cache, polling>>

\* Slip: one attempt too many.
FetchFailsOnceMore ==
    /\ Fetching
    /\ IF fetching < MaxAttempts
       THEN /\ fetching' = fetching + 1
            /\ UNCHANGED <<answer, commands>>
       ELSE /\ fetching' = 0
            /\ Reply("err")
    /\ UNCHANGED <<chain, clientVars, count, subContext, cache, polling>>

\* One failed attempt: the loop sleeps and tries again, or gives up.
FetchFails ==
    /\ Fetching
    /\ IF fetching + 1 < MaxAttempts
       THEN /\ fetching' = fetching + 1
            /\ UNCHANGED <<answer, commands>>
       ELSE /\ fetching' = 0
            /\ Reply("err")
    /\ UNCHANGED <<chain, clientVars, count, subContext, cache, polling>>

\* Slip: the last client's token leaves the subscriptions but not the cache.
HandleDeregisterKeeps ==
    /\ Is("deregister")
    /\ commands' = Tail(commands)
    /\ count' = [count EXCEPT ![Token] = IF @ = 0 THEN 0 ELSE @ - 1]
    /\ UNCHANGED <<chain, clientVars, answer, fetching, subContext, cache,
                   polling>>

HandleDeregister ==
    /\ Is("deregister")
    /\ commands' = Tail(commands)
    /\ count' = [count EXCEPT ![Token] = IF @ = 0 THEN 0 ELSE @ - 1]
    /\ cache' = [cache EXCEPT ![Token] = IF count[Token] = 1 THEN NoData ELSE @]
    /\ UNCHANGED <<chain, clientVars, answer, fetching, subContext, polling>>

HandleCached ==
    /\ Is("cached")
    /\ Reply(IF cache[Token] = NoData THEN "err" ELSE cache[Token].protocol)
    /\ UNCHANGED <<chain, clientVars, shylockVars, polling>>

\* Live data is fetched for the context that was registered first; a failed
\* read drops the reply, as does data of the other protocol in the cache.
HandleLive(readable) ==
    /\ Is("live")
    /\ Reply(CASE count[Token] = 0 -> "err"
               [] count[Token] > 0 /\ ~readable -> "dropped"
               [] count[Token] > 0 /\ readable -> subContext[Token])
    /\ UNCHANGED <<chain, clientVars, shylockVars, polling>>

HandleTransaction(a) ==
    /\ Is("transaction")
    /\ Reply(a)
    /\ UNCHANGED <<chain, clientVars, shylockVars, polling>>

-----------------------------------------------------------------------------
(* The poller.                                                             *)

StartPoll == /\ polling = {}
             /\ polling' = {m \in Mint : count[m] > 0}
             /\ polling' # {}
             /\ UNCHANGED <<chain, clientVars, answer, commands, shylockVars>>

\* Slip: fees are written for every token that was asked for.
EndPollInserting(known) ==
    /\ polling # {}
    /\ known \subseteq polling
    /\ cache' = [m \in Mint |-> IF m \in known
                                THEN [protocol |-> subContext[m], fee |-> "polled"]
                                ELSE cache[m]]
    /\ polling' = {}
    /\ UNCHANGED <<chain, clientVars, answer, commands, fetching, count,
                   subContext>>

\* The fees that the answer has (none if the request failed) are written to
\* the entries that still exist.
EndPoll(known) ==
    /\ polling # {}
    /\ known \subseteq polling
    /\ cache' = [m \in Mint |-> IF m \in known /\ cache[m] # NoData
                                THEN [cache[m] EXCEPT !.fee = "polled"]
                                ELSE cache[m]]
    /\ polling' = {}
    /\ UNCHANGED <<chain, clientVars, answer, commands, fetching, count,
                   subContext>>

-----------------------------------------------------------------------------
ClientStep(c) == \/ Registered(c) \/ NotRegistered(c) \/ Prepared(c)
                 \/ ReadTransaction(c)

Serve == \/ HandleRegister \/ FetchSucceeds \/ FetchFails
         \/ HandleDeregister \/ HandleCached
         \/ \E readable \in BOOLEAN : HandleLive(readable)
         \/ \E a \in {"ok", "err", "dropped"} : HandleTransaction(a)

Next == \/ \E m \in Mint : Migrate(m)
        \/ \E c \in Client : \/ Register(c) \/ SeeMigration(c)
                             \/ AskTransaction(c) \/ CleanUp(c)
                             \/ ClientStep(c)
        \/ Serve
        \/ StartPoll
        \/ \E known \in SUBSET Mint : EndPoll(known)

Spec == Init /\ [][Next]_vars

\* The loop takes the next command, an RPC call returns, and an actor that
\* was answered goes on.
FairSpec == /\ Spec
            /\ WF_vars(Serve)
            /\ \A c \in Client : WF_vars(ClientStep(c))

-----------------------------------------------------------------------------
TypeOK == /\ chain \in [Mint -> Protocol]
          /\ phase \in [Client -> Phase]
          /\ context \in [Client -> Protocol]
          /\ answer \in [Client -> Answer]
          /\ commands \in Seq(Command)
          /\ fetching \in 0 .. MaxAttempts - 1
          /\ count \in [Mint -> Nat]
          /\ subContext \in [Mint -> Protocol]
          /\ cache \in [Mint -> Data]
          /\ polling \subseteq Mint

Queued(c, kind) == \E i \in 1 .. Len(commands) :
                      commands[i].client = c /\ commands[i].kind = kind

\* The actors whose registration counts: answered ok, not yet deregistered.
Holders == {c \in Client : \/ phase[c] = "registering" /\ answer[c] = "ok"
                           \/ phase[c] \in {"preparing", "running", "asking"}
                           \/ phase[c] = "gone" /\ Queued(c, "deregister")}

\* The reference count of a token is the number of actors that hold it: what
\* is queued is never lost or counted twice, and the saturating subtraction
\* hides nothing.
CountsExact ==
    \A m \in Mint : count[m] = Cardinality({c \in Holders : MintOf[c] = m})

\* The cache follows the counts, whatever the poller read earlier: no data
\* outlives the last actor, and none is missing while one holds the token.
CacheFollowsCounts == \A m \in Mint : cache[m] # NoData <=> count[m] > 0

\* A token's cached and its live data are those of one protocol, that of the
\* registration the token was fetched for: neither the poller nor a token that
\* is dropped and comes back after its migration sets them apart.
OneContext ==
    \A m \in Mint : cache[m] # NoData => cache[m].protocol = subContext[m]

\* An actor that registered finds its token's data until it is cleaned up, so
\* neither of its requests is answered with nothing.
DataWhenRegistered ==
    \A c \in Client : phase[c] = "preparing" => answer[c] # "err"

\* The counts, the cache and what the actors believe of them agree.
Consistent == /\ TypeOK
              /\ CacheFollowsCounts
              /\ OneContext
              /\ DataWhenRegistered

Lease == INSTANCE Leases
           WITH holders <- Holders,
                cached <- {m \in Mint : cache[m] # NoData}

\* The counts, the queue and the cache implement leases.
ImplementsLeases == Lease!LeaseSpec

\* Nobody waits for ever, though a fetch may block the loop through its
\* retries: every request is answered or its reply dropped.
EveryRequestAnswered ==
    \A c \in Client : phase[c] \in {"registering", "preparing", "asking"}
                        ~> phase[c] \in {"running", "failed"}

-----------------------------------------------------------------------------
(* A claim of the documentation that does not hold.                        *)

\* A one-shot computes its price from live data of the protocol its token
\* trades on, as its own context has it.
LiveDataIsCurrent ==
    \A c \in OneShot : phase[c] = "preparing" /\ answer[c] \in Protocol
                         => answer[c] = context[c]
=============================================================================
