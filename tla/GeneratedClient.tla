---------------------------- MODULE GeneratedClient ----------------------------
(***************************************************************************)
(* The two concurrent parts of the clients the generator writes: the       *)
(* discovery client, which caches the provider's OpenID configuration      *)
(* behind a read-write lock, and the request editor that refreshes an      *)
(* OAuth2 token behind a mutex.  Threads call them in any order; answers    *)
(* of the provider may be lost, and the provider may rotate refresh tokens. *)
(*                                                                         *)
(* A refresh token is a number, 0 being the empty string; a time of 0 is   *)
(* Go's zero time.  A configuration is known by the number of ClearCache    *)
(* calls that had returned when the provider served it.                    *)
(***************************************************************************)
EXTENDS Naturals

CONSTANTS
    Threads,
    Nobody,         \* no thread holds a lock
    NoConfig,       \* the nil configuration
    TTLs,           \* what WithOIDCCacheTTL may be given; 0 disables caching
    Grace,          \* gracePeriod
    Lifetimes,      \* expires_in of the answers, 0 when absent
    MaxTime, MaxClears, MaxTokens   \* bounds of the model

ASSUME NobodyAssumption      == Nobody \notin Threads
ASSUME DurationAssumption    == TTLs \subseteq Nat /\ Grace \in Nat /\ Lifetimes \subseteq Nat
ASSUME ClientBoundAssumption == MaxTime \in Nat /\ MaxClears \in Nat /\ MaxTokens \in Nat

VARIABLES
    time,
    ttl, config, configLock,    \* OIDCDiscoveryClient: cacheTTL, config with lastFetched, mu
    token, tokenLock,           \* OAuth2Token, shared by the requests, and its mu
    issued, valid,              \* the provider's refresh tokens
    pc,                         \* where each thread is
    got,                        \* the configuration a thread has in hand
    sent, reply,                \* the refresh token it sent, the token it got for it
    clears, since,              \* history: ClearCache calls, and those before the thread's call
    superseded                  \* history: refresh tokens the client was given another for

discovery  == <<ttl, config, configLock, got, clears, since>>
refresh    == <<token, tokenLock, issued, valid, sent, reply, superseded>>
clientVars == <<time, pc, discovery, refresh>>

Goto(t, place) == pc' = [pc EXCEPT ![t] = place]

-------------------------------------------------------------------------------
(* GetConfiguration and ClearCache.                                          *)

Fresh == config # NoConfig /\ ttl > 0 /\ time - config.lastFetched < ttl

BeginGet(t) ==
    /\ pc[t] = "idle"
    /\ Goto(t, "check")
    /\ since' = [since EXCEPT ![t] = clears]
    /\ UNCHANGED <<time, ttl, config, configLock, got, clears, refresh>>

Answer(t, served) == Goto(t, "returned") /\ got' = [got EXCEPT ![t] = served]

\* Under the read lock, which no thread holds for longer than this.
Check(t) ==
    /\ pc[t] = "check" /\ configLock = Nobody
    /\ IF Fresh THEN Answer(t, config.served) ELSE Goto(t, "lock") /\ UNCHANGED got
    /\ UNCHANGED <<time, ttl, config, configLock, clears, since, refresh>>

\* Mutant: the configuration is not looked at again.
LockAndFetch(t) ==
    /\ pc[t] = "lock" /\ configLock = Nobody
    /\ configLock' = t /\ Goto(t, "fetch")
    /\ UNCHANGED <<time, ttl, config, got, clears, since, refresh>>

\* The second look, under the write lock, which is kept if it fails.
Lock(t) ==
    /\ pc[t] = "lock" /\ configLock = Nobody
    /\ IF Fresh THEN Answer(t, config.served) /\ UNCHANGED configLock
                ELSE configLock' = t /\ Goto(t, "fetch") /\ UNCHANGED got
    /\ UNCHANGED <<time, ttl, config, clears, since, refresh>>

\* The provider answers the request of fetchConfiguration.
ProviderServes(t) ==
    /\ pc[t] = "fetch"
    /\ Goto(t, "receive")
    /\ got' = [got EXCEPT ![t] = clears]
    /\ UNCHANGED <<time, ttl, config, configLock, clears, since, refresh>>

Receive(t) ==
    /\ pc[t] = "receive"
    /\ config' = [served |-> got[t], lastFetched |-> time]
    /\ configLock' = Nobody
    /\ Answer(t, got[t])
    /\ UNCHANGED <<time, ttl, clears, since, refresh>>

\* A call of GetConfiguration is over, and its variables with it.
Leave(t) ==
    /\ Goto(t, "idle")
    /\ got' = [got EXCEPT ![t] = 0]
    /\ since' = [since EXCEPT ![t] = 0]
    /\ UNCHANGED <<time, ttl, config, clears, refresh>>

\* Mutant: a fetch that fails is tried again, under the lock.
FetchAgain(t) ==
    /\ pc[t] \in {"fetch", "receive"}
    /\ Goto(t, "fetch")
    /\ UNCHANGED <<time, discovery, refresh>>

\* No connection, another status than 200, an answer that is lost or no JSON.
FetchFails(t) ==
    /\ pc[t] \in {"fetch", "receive"}
    /\ configLock' = Nobody
    /\ Leave(t)

\* The caller has its configuration.
ReturnConfiguration(t) == pc[t] = "returned" /\ Leave(t) /\ UNCHANGED configLock

BeginClear(t) ==
    /\ pc[t] = "idle" /\ clears < MaxClears
    /\ Goto(t, "clear")
    /\ UNCHANGED <<time, discovery, refresh>>

ClearCache(t) ==
    /\ pc[t] = "clear" /\ configLock = Nobody
    /\ config' = NoConfig
    /\ clears' = clears + 1
    /\ Goto(t, "idle")
    /\ UNCHANGED <<time, ttl, configLock, got, since, refresh>>

-------------------------------------------------------------------------------
(* The request editor of With...OAuth2AutoRefresh.                           *)

IsExpired == token.expiresAt # 0 /\ time + Grace > token.expiresAt

BeginRequest(t) ==
    /\ pc[t] = "idle"
    /\ Goto(t, "request")
    /\ UNCHANGED <<time, discovery, refresh>>

\* Mutant: the mutex protects no more than the look at the token.
EditBriefly(t) ==
    /\ pc[t] = "request" /\ tokenLock = Nobody
    /\ IF IsExpired /\ token.refresh # 0
       THEN Goto(t, "redeem") /\ sent' = [sent EXCEPT ![t] = token.refresh]
       ELSE Goto(t, "idle") /\ UNCHANGED sent
    /\ UNCHANGED <<time, discovery, token, tokenLock, issued, valid, reply, superseded>>

\* The token goes into the request as it is, or is refreshed first.
Edit(t) ==
    /\ pc[t] = "request" /\ tokenLock = Nobody
    /\ IF IsExpired /\ token.refresh # 0
       THEN tokenLock' = t /\ Goto(t, "redeem") /\ sent' = [sent EXCEPT ![t] = token.refresh]
       ELSE Goto(t, "idle") /\ UNCHANGED <<tokenLock, sent>>
    /\ UNCHANGED <<time, discovery, token, issued, valid, reply, superseded>>

\* The provider accepts the refresh token; it may put another in its place.
Redeem(t) ==
    /\ pc[t] = "redeem" /\ sent[t] \in valid
    /\ Goto(t, "redeemed")
    /\ \E lifetime \in Lifetimes :
         \/ /\ issued < MaxTokens
            /\ issued' = issued + 1
            /\ valid' = (valid \ {sent[t]}) \cup {issued'}
            /\ reply' = [reply EXCEPT ![t] = [refresh |-> issued', lifetime |-> lifetime]]
         \/ /\ reply' = [reply EXCEPT ![t] = [refresh |-> 0, lifetime |-> lifetime]]
            /\ UNCHANGED <<issued, valid>>
    /\ UNCHANGED <<time, discovery, token, tokenLock, sent, superseded>>

\* doTokenRequest: no expiry without a lifetime.
ExpiresAt(answer) == IF answer.lifetime > 0 THEN time + answer.lifetime ELSE 0

NoReply == [refresh |-> 0, lifetime |-> 0]

\* The editor returns: the mutex is free and its variables are gone.
LeaveEditor(t) ==
    /\ tokenLock' = Nobody
    /\ Goto(t, "idle")
    /\ sent' = [sent EXCEPT ![t] = 0]
    /\ reply' = [reply EXCEPT ![t] = NoReply]
    /\ UNCHANGED <<time, discovery, issued, valid>>

\* The answer takes the token's place, its empty refresh token included.
Refreshed(t) ==
    /\ pc[t] = "redeemed"
    /\ token' = [refresh |-> reply[t].refresh, expiresAt |-> ExpiresAt(reply[t])]
    /\ superseded' = IF reply[t].refresh # 0 THEN superseded \cup {sent[t]} ELSE superseded
    /\ LeaveEditor(t)

\* The provider refuses, or its answer is lost after it acted on the request.
RefreshFails(t) ==
    /\ pc[t] \in {"redeem", "redeemed"}
    /\ LeaveEditor(t)
    /\ UNCHANGED <<token, superseded>>

-------------------------------------------------------------------------------
TimePasses ==
    /\ time < MaxTime
    /\ time' = time + 1
    /\ UNCHANGED <<pc, discovery, refresh>>

ClientInit ==
    /\ time = 1
    /\ ttl \in TTLs
    /\ config = NoConfig /\ configLock = Nobody
    /\ \E lifetime \in Lifetimes :
          token = [refresh |-> 1, expiresAt |-> IF lifetime > 0 THEN 1 + lifetime ELSE 0]
    /\ tokenLock = Nobody
    /\ issued = 1 /\ valid = {1}
    /\ pc = [t \in Threads |-> "idle"]
    /\ got = [t \in Threads |-> 0] /\ since = [t \in Threads |-> 0]
    /\ sent = [t \in Threads |-> 0]
    /\ reply = [t \in Threads |-> NoReply]
    /\ clears = 0 /\ superseded = {}

BeginCall(t) == BeginGet(t) \/ BeginClear(t) \/ BeginRequest(t)
Acquire(t)   == Check(t) \/ Lock(t) \/ ClearCache(t) \/ Edit(t)
Proceed(t)   == \/ ProviderServes(t) \/ Receive(t) \/ FetchFails(t) \/ ReturnConfiguration(t)
                \/ Redeem(t) \/ Refreshed(t) \/ RefreshFails(t)

ClientNext == TimePasses \/ \E t \in Threads : BeginCall(t) \/ Acquire(t) \/ Proceed(t)

\* Go's locks do not starve a waiting goroutine, and a request to the provider
\* ends, if only by its timeout.  No thread has to call anything.
ClientFairness == \A t \in Threads : SF_clientVars(Acquire(t)) /\ WF_clientVars(Proceed(t))

ClientSpec == ClientInit /\ [][ClientNext]_clientVars /\ ClientFairness

-------------------------------------------------------------------------------
(* Properties.                                                               *)

\* Type invariant.
ClientTypeOK ==
    /\ time \in Nat /\ ttl \in TTLs /\ clears \in Nat /\ issued \in Nat
    /\ config # NoConfig => config \in [served : Nat, lastFetched : Nat]
    /\ configLock \in Threads \cup {Nobody} /\ tokenLock \in Threads \cup {Nobody}
    /\ token \in [refresh : Nat, expiresAt : Nat]
    /\ valid \subseteq Nat /\ superseded \subseteq Nat
    /\ pc \in [Threads -> {"idle", "check", "lock", "fetch", "receive", "returned", "clear",
                           "request", "redeem", "redeemed"}]
    /\ got \in [Threads -> Nat] /\ since \in [Threads -> Nat] /\ sent \in [Threads -> Nat]
    /\ reply \in [Threads -> [refresh : Nat, lifetime : Nat]]

\* A call of GetConfiguration that begins after a ClearCache has returned never
\* gives a configuration that was served before it, whichever fetch was under
\* way while the cache was cleared.
ClearForgets == \A t \in Threads : pc[t] = "returned" => got[t] >= since[t]

\* However many callers find the cache stale together, the provider is asked
\* only while no other has brought a configuration that is still fresh.
FetchOnlyStale ==
    [][\A t \in Threads : pc[t] = "fetch" /\ pc'[t] = "receive" => ~Fresh]_clientVars

\* No two requests use the same refresh token: once the client holds the token
\* that replaces one, it sends the old one no more (a provider that rotates its
\* tokens takes a second use for theft).
RedeemedOnce == \A t \in Threads : pc[t] \in {"redeem", "redeemed"} => sent[t] \notin superseded

\* Neither a configuration nor a token is used after it has been given up.
NothingSpentIsUsed == ClearForgets /\ RedeemedOnce

\* Every call of GetConfiguration and ClearCache and every request comes to its
\* end, whichever of them fail: no lock is left behind.
CallsEnd == \A t \in Threads : pc[t] # "idle" ~> pc[t] = "idle"

===============================================================================
