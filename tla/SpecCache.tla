----------------------------- MODULE SpecCache -----------------------------
(***************************************************************************)
(* The session cache of parsed specifications kept by the MCP server       *)
(* (internal/mcpserver/input.go).  Tool calls run concurrently; each one   *)
(* resolves its input in separate steps: the key is computed (os.Stat for  *)
(* a file), the cache is consulted under the mutex, the source is read and *)
(* parsed with no lock held, and the result is stored under the mutex.  A  *)
(* background goroutine removes expired entries.                           *)
(*                                                                         *)
(* Sources change underneath: a file gets a new version (and a new mtime,  *)
(* the version number stands for both) or disappears, a URL serves         *)
(* something new or is unreachable.  Inline content never changes.         *)
(***************************************************************************)
EXTENDS Naturals, FiniteSets

CONSTANTS
    Proc,           \* concurrent tool calls
    File, Url,      \* absolute paths and URLs
    Content,        \* inline documents
    Oversized,      \* the inline documents longer than cfg.MaxInlineSize
    NoKey,          \* the empty cache key
    FileTTL, UrlTTL, ContentTTL,
    MaxSize,        \* cfg.CacheMaxSize
    CacheEnabled,   \* cfg.CacheEnabled
    Ctx,            \* contexts startSweeper is called with
    Gor,            \* identities of the goroutines it may spawn
    MaxClock, MaxVersion    \* bounds of the exploration

Source == File \cup Url \cup Content
Key    == [src : Source, stamp : Nat]

ASSUME SourcesDisjoint ==
    /\ File \cap Url = {} /\ File \cap Content = {} /\ Url \cap Content = {}
    /\ Oversized \subseteq Content /\ Source # {} /\ Ctx # {}
\* envInt and envDuration accept only positive values.
ASSUME ConfigAssumption ==
    /\ MaxSize \in Nat \ {0}
    /\ FileTTL \in Nat \ {0} /\ UrlTTL \in Nat \ {0} /\ ContentTTL \in Nat \ {0}
    /\ CacheEnabled \in BOOLEAN
ASSUME NoKeyAssumption == NoKey \notin Key
ASSUME BoundAssumption == MaxClock \in Nat /\ MaxVersion \in Nat

VARIABLES
    clock,      \* time.Now()
    version,    \* version[s]: the version source s has now
    there,      \* there[s]: s exists (file) or answers (URL)
    entries,    \* specCache.entries
    calls,      \* calls[p]: the resolve call of p, or its last outcome
    started,    \* specCache.sweeperStarted
    gor,        \* the sweeper goroutines
    ctx         \* whether each context is live

cacheVars   == <<entries, calls>>
worldVars   == <<version, there>>
sweeperVars == <<started, gor, ctx>>
vars        == <<clock, worldVars, cacheVars, sweeperVars>>

\* putAt and usedAt are history: when the entry was stored, when it was last
\* stored or returned.
Entry == [ver : Nat, insertAt : Nat, expiresAt : Nat, putAt : Nat, usedAt : Nat]

\* since, at and putAt are history: the version when the call began and, of a
\* hit, the time it was returned and the time its entry was stored.
Call == [pc : {"idle", "get", "read", "put", "done"},
         src : Source, key : Key \cup {NoKey}, since : Nat, ver : Nat,
         outcome : {"none", "hit", "parsed", "error"}, at : Nat, putAt : Nat]

TTL(s) == IF s \in File THEN FileTTL ELSE IF s \in Url THEN UrlTTL ELSE ContentTTL

-----------------------------------------------------------------------------
\* The environment: time, files and URLs (external).

Tick ==
    /\ clock < MaxClock
    /\ clock' = clock + 1
    /\ UNCHANGED <<worldVars, cacheVars, sweeperVars>>

Change(s) ==
    /\ s \notin Content
    /\ version[s] < MaxVersion
    /\ version' = [version EXCEPT ![s] = @ + 1]
    /\ there' = [there EXCEPT ![s] = TRUE]
    /\ UNCHANGED <<clock, cacheVars, sweeperVars>>

Vanish(s) ==
    /\ s \notin Content
    /\ there[s]
    /\ there' = [there EXCEPT ![s] = FALSE]
    /\ UNCHANGED <<clock, version, cacheVars, sweeperVars>>

-----------------------------------------------------------------------------
\* specInput.resolve, one action per step between which others may run.

\* Mutant: the key forgets the modification time.
CacheKeyByPath(s, extraOpts) ==
    IF ~CacheEnabled \/ extraOpts \/ (s \in File /\ ~there[s])
    THEN NoKey
    ELSE [src |-> s, stamp |-> 0]

\* makeCacheKey: no key with extra parser options or when the file cannot be
\* stat'ed; a file's key carries its modification time.
CacheKey(s, extraOpts) ==
    IF ~CacheEnabled \/ extraOpts \/ (s \in File /\ ~there[s])
    THEN NoKey
    ELSE [src |-> s, stamp |-> IF s \in File THEN version[s] ELSE 0]

Free(p) == calls[p].pc \in {"idle", "done"}

Reply(p, outcome, ver, at, putAt) ==
    [pc |-> "done", src |-> calls[p].src, key |-> NoKey, since |-> calls[p].since,
     ver |-> ver, outcome |-> outcome, at |-> at, putAt |-> putAt]

\* Not exactly one input, or inline content that is too large.
Reject(p) ==
    /\ Free(p)
    /\ \E given \in SUBSET Source :
        /\ Cardinality(given) # 1 \/ given \subseteq Oversized
        /\ calls' = [calls EXCEPT ![p] = Reply(p, "error", 0, 0, 0)]
    /\ UNCHANGED <<clock, worldVars, entries, sweeperVars>>

Begin(p) ==
    /\ Free(p)
    /\ \E s \in Source \ Oversized, extraOpts \in BOOLEAN :
        LET key == CacheKey(s, extraOpts) IN
        calls' = [calls EXCEPT ![p] =
            [pc |-> IF key = NoKey THEN "read" ELSE "get", src |-> s, key |-> key,
             since |-> version[s], ver |-> 0, outcome |-> "none", at |-> 0, putAt |-> 0]]
    /\ UNCHANGED <<clock, worldVars, entries, sweeperVars>>

Expired(k)   == clock > entries[k].expiresAt
Without(gone) == [k \in DOMAIN entries \ gone |-> entries[k]]

\* Mutant: a hit renews the entry's expiry.
GetHitRenews(p) ==
    LET k == calls[p].key
        e == entries[k]
    IN
    /\ calls[p].pc = "get"
    /\ k \in DOMAIN entries
    /\ ~Expired(k)
    /\ entries' = [entries EXCEPT ![k].insertAt = clock, ![k].usedAt = clock,
                                 ![k].expiresAt = clock + TTL(k.src)]
    /\ calls' = [calls EXCEPT ![p] = Reply(p, "hit", e.ver, clock, e.putAt)]
    /\ UNCHANGED <<clock, worldVars, sweeperVars>>

\* Mutant: a hit does not touch the entry.
GetHitNoTouch(p) ==
    LET k == calls[p].key
        e == entries[k]
    IN
    /\ calls[p].pc = "get"
    /\ k \in DOMAIN entries
    /\ ~Expired(k)
    /\ entries' = [entries EXCEPT ![k].usedAt = clock]
    /\ calls' = [calls EXCEPT ![p] = Reply(p, "hit", e.ver, clock, e.putAt)]
    /\ UNCHANGED <<clock, worldVars, sweeperVars>>

\* specCacheStore.get returns the entry and touches it.
GetHit(p) ==
    LET k == calls[p].key
        e == entries[k]
    IN
    /\ calls[p].pc = "get"
    /\ k \in DOMAIN entries
    /\ ~Expired(k)
    /\ entries' = [entries EXCEPT ![k] =
         [ver |-> e.ver, insertAt |-> clock, expiresAt |-> e.expiresAt,
          putAt |-> e.putAt, usedAt |-> clock]]
    /\ calls' = [calls EXCEPT ![p] = Reply(p, "hit", e.ver, clock, e.putAt)]
    /\ UNCHANGED <<clock, worldVars, sweeperVars>>

\* specCacheStore.get finds nothing, or an expired entry that it removes.
GetMiss(p) ==
    LET k == calls[p].key IN
    /\ calls[p].pc = "get"
    /\ k \in DOMAIN entries => Expired(k)
    /\ entries' = Without({k})
    /\ calls' = [calls EXCEPT ![p].pc = "read"]
    /\ UNCHANGED <<clock, worldVars, sweeperVars>>

\* parser.ParseWithOptions reads the source now, whatever the key says.
Read(p) ==
    LET s == calls[p].src IN
    /\ calls[p].pc = "read"
    /\ there[s]
    /\ calls' = [calls EXCEPT ![p] =
         IF calls[p].key = NoKey
         THEN Reply(p, "parsed", version[s], 0, 0)
         ELSE [@ EXCEPT !.pc = "put", !.ver = version[s]]]
    /\ UNCHANGED <<clock, worldVars, entries, sweeperVars>>

\* A missing file, a network failure, a document that does not parse.
ReadFails(p) ==
    /\ calls[p].pc = "read"
    /\ calls' = [calls EXCEPT ![p] = Reply(p, "error", 0, 0, 0)]
    /\ UNCHANGED <<clock, worldVars, entries, sweeperVars>>

Oldest == {k \in DOMAIN entries :
             \A j \in DOMAIN entries : entries[k].insertAt =< entries[j].insertAt}

\* The entries putWithTTL may have to give up: none for a key that is cached
\* or while there is room, otherwise one of the oldest.
Evicted(k) ==
    IF k \in DOMAIN entries \/ Cardinality(DOMAIN entries) < MaxSize
    THEN {{}}
    ELSE {{v} : v \in Oldest}

Put(p) ==
    LET k == calls[p].key
        entry == [ver |-> calls[p].ver, insertAt |-> clock, putAt |-> clock,
                  usedAt |-> clock, expiresAt |-> clock + TTL(calls[p].src)]
    IN
    /\ calls[p].pc = "put"
    /\ \E gone \in Evicted(k) :
         entries' = [j \in (DOMAIN entries \ gone) \cup {k} |->
                        IF j = k THEN entry ELSE entries[j]]
    /\ calls' = [calls EXCEPT ![p] = Reply(p, "parsed", calls[p].ver, 0, 0)]
    /\ UNCHANGED <<clock, worldVars, sweeperVars>>

-----------------------------------------------------------------------------
\* startSweeper and the goroutine it spawns.

\* Run starts a sweeper only for a cache that is enabled.
StartSweeper ==
    /\ CacheEnabled
    /\ \E c \in Ctx, g \in Gor :
        /\ ~started
        /\ gor[g].pc = "none"
        /\ gor' = [gor EXCEPT ![g] = [pc |-> "select", ctx |-> c]]
    /\ started' = TRUE
    /\ UNCHANGED <<clock, worldVars, cacheVars, ctx>>

Cancel ==
    /\ \E c \in Ctx :
        /\ ctx[c] = "live"
        /\ ctx' = [ctx EXCEPT ![c] = "cancelled"]
    /\ UNCHANGED <<clock, worldVars, cacheVars, started, gor>>

\* case <-ticker.C.  The sweeping flag is local to the goroutine, so its
\* CompareAndSwap always succeeds.
TickerFires(g) ==
    /\ gor[g].pc = "select"
    /\ gor' = [gor EXCEPT ![g].pc = "sweep"]
    /\ UNCHANGED <<clock, worldVars, cacheVars, started, ctx>>

Sweep(g) ==
    /\ gor[g].pc = "sweep"
    /\ entries' = Without({k \in DOMAIN entries : Expired(k)})
    /\ gor' = [gor EXCEPT ![g].pc = "select"]
    /\ UNCHANGED <<clock, worldVars, calls, started, ctx>>

\* Mutant: a break leaves the select and not the loop.
ReturnBreaks(g) ==
    /\ gor[g].pc = "select"
    /\ ctx[gor[g].ctx] = "cancelled"
    /\ UNCHANGED vars

\* case <-ctx.Done(): return, and the deferred calls are still to run.
Return(g) ==
    /\ gor[g].pc = "select"
    /\ ctx[gor[g].ctx] = "cancelled"
    /\ gor' = [gor EXCEPT ![g].pc = "deferred"]
    /\ UNCHANGED <<clock, worldVars, cacheVars, started, ctx>>

\* ticker.Stop, then sweeperStarted.Store(false).
Exit(g) ==
    /\ gor[g].pc = "deferred"
    /\ gor' = [gor EXCEPT ![g].pc = "none"]
    /\ started' = FALSE
    /\ UNCHANGED <<clock, worldVars, cacheVars, ctx>>

-----------------------------------------------------------------------------

Init ==
    /\ clock = 0
    /\ version = [s \in Source |-> 0]
    /\ there \in {t \in [Source -> BOOLEAN] : \A c \in Content : t[c]}
    /\ entries = [k \in {} |-> {}]
    /\ calls = [p \in Proc |->
         [pc |-> "idle", src |-> CHOOSE s \in Source : TRUE, key |-> NoKey, since |-> 0,
          ver |-> 0, outcome |-> "none", at |-> 0, putAt |-> 0]]
    /\ started = FALSE
    /\ gor = [g \in Gor |-> [pc |-> "none", ctx |-> CHOOSE c \in Ctx : TRUE]]
    /\ ctx = [c \in Ctx |-> "live"]

World   == \E s \in Source : Change(s) \/ Vanish(s)
Serve(p) == GetHit(p) \/ GetMiss(p) \/ Read(p) \/ ReadFails(p) \/ Put(p)
Resolve(p) == Reject(p) \/ Begin(p) \/ Serve(p)
Sweeper(g) == TickerFires(g) \/ Sweep(g) \/ Return(g) \/ Exit(g)

Next ==
    \/ Tick
    \/ World
    \/ \E p \in Proc : Resolve(p)
    \/ StartSweeper \/ Cancel
    \/ \E g \in Gor : Sweeper(g)

Spec == Init /\ [][Next]_vars

\* Go's select chooses among ready cases uniformly, so a cancelled sweeper
\* returns although its ticker keeps firing: Return is strongly fair.
Fairness == \A g \in Gor :
    WF_vars(TickerFires(g)) /\ WF_vars(Sweep(g)) /\ SF_vars(Return(g)) /\ WF_vars(Exit(g))

FairSpec == Spec /\ Fairness

-----------------------------------------------------------------------------
\* Properties.

TypeOK ==
    /\ clock \in Nat
    /\ version \in [Source -> Nat]
    /\ there \in [Source -> BOOLEAN]
    /\ DOMAIN entries \subseteq Key
    /\ \A k \in DOMAIN entries : entries[k] \in Entry
    /\ calls \in [Proc -> Call]
    /\ \A p \in Proc : calls[p].pc \in {"get", "put"} => calls[p].key \in Key
    /\ started \in BOOLEAN
    /\ gor \in [Gor -> [pc : {"none", "select", "sweep", "deferred"}, ctx : Ctx]]
    /\ ctx \in [Ctx -> {"live", "cancelled"}]

\* However many calls store results at once, the cache never holds more than
\* CacheMaxSize entries (putWithTTL evicts before it inserts).
WithinCapacity == Cardinality(DOMAIN entries) =< MaxSize

\* What a call returns for a file was the file's content at some moment of
\* that call, although other calls may have filled the entry it hit and the
\* file may have changed between their os.Stat and their parse.
FileResultsCurrent ==
    \A p \in Proc :
        LET c == calls[p] IN
        (c.src \in File /\ c.outcome \in {"hit", "parsed"})
            => c.since =< c.ver /\ c.ver =< version[c.src]

\* No hit is served later than its type's TTL after the result was stored,
\* however often the entry was touched in between.
HitsWithinTTL ==
    \A p \in Proc :
        calls[p].outcome = "hit" => calls[p].at =< calls[p].putAt + TTL(calls[p].src)

Gone == DOMAIN entries \ DOMAIN entries'

EvictionStep ==
    \A k \in Gone : ~Expired(k) =>
        /\ Cardinality(DOMAIN entries) = MaxSize
        /\ Gone = {k}
        /\ \A j \in DOMAIN entries : entries[k].usedAt =< entries[j].usedAt

\* An entry that has not expired leaves the cache only to make room, alone,
\* and only if every other entry has been used at least as recently.
EvictsLeastRecentlyUsed == [][EvictionStep]_vars

\* At most one goroutine sweeps, counting one that is on its way out, and the
\* flag says exactly whether there is one.
OneSweeper ==
    /\ \A g, h \in Gor : gor[g].pc # "none" /\ gor[h].pc # "none" => g = h
    /\ started <=> \E g \in Gor : gor[g].pc # "none"

\* While a sweeper's context is live, an expired entry is removed or replaced
\* even if no call asks for it again.
ExpiredEntriesGo ==
    \A s \in Source : \A n \in 0..MaxVersion :
        LET k == [src |-> s, stamp |-> n]
            stale == k \in DOMAIN entries /\ Expired(k)
        IN
        stale ~> (~stale \/ ~\E g \in Gor : gor[g].pc # "none" /\ ctx[gor[g].ctx] = "live")

\* Cancelling its context stops a sweeper, so the flag is given back and a
\* later startSweeper is not refused for ever.
CancelledSweepersStop ==
    \A g \in Gor : (gor[g].pc # "none" /\ ctx[gor[g].ctx] = "cancelled") ~> gor[g].pc = "none"

\* A sweeper (startSweeper) works until it is told to end, and then ends.
SweepersSweepAndStop == ExpiredEntriesGo /\ CancelledSweepersStop

-----------------------------------------------------------------------------
\* The inductive invariants the theorems rest on.

\* A file's key names the version the call saw first; what the call has read
\* or been given is that version or a later one.
CallInv(c) ==
    /\ c.since =< version[c.src] /\ c.ver =< version[c.src]
    /\ c.key # NoKey =>
          /\ c.key.src = c.src
          /\ c.src \in File => c.key.stamp = c.since
    /\ (c.src \in File /\ (c.pc = "put" \/ c.outcome \in {"hit", "parsed"}))
          => c.since =< c.ver
    /\ c.pc \in {"get", "put", "read"} => c.outcome = "none"
    /\ c.pc = "done" => c.outcome # "none"
    /\ c.pc = "idle" \/ c.outcome = "error" => c.ver = 0

\* The entry of a file's key holds the version the key names or a later one:
\* later, because the parse reads after the os.Stat, and harmlessly so,
\* because only a call that saw the older version asks for that key.
SourceInv ==
    /\ \A d \in Content : version[d] = 0
    /\ \A k \in DOMAIN entries :
          /\ entries[k].ver =< version[k.src]
          /\ k.src \in File => k.stamp =< entries[k].ver
    /\ \A p \in Proc : CallInv(calls[p])

\* A touch moves insertAt but never expiresAt.
ExpiryInv ==
    \A k \in DOMAIN entries :
        LET e == entries[k] IN
        /\ e.putAt =< clock /\ e.expiresAt = e.putAt + TTL(k.src)
        /\ e.usedAt = e.insertAt

-----------------------------------------------------------------------------
\* The cache keeps what resolve promises without it.

Request(c) ==
    [status |-> IF c.pc = "idle" THEN "free"
                ELSE IF c.pc # "done" THEN "waiting"
                ELSE IF c.outcome = "error" THEN "failed" ELSE "answered",
     src |-> c.src, since |-> c.since,
     ver |-> IF c.pc \in {"idle", "done"} THEN c.ver ELSE 0]

Contract == INSTANCE ResolveContract WITH request <- [p \in Proc |-> Request(calls[p])]

\* Every call served through the cache returns what a call that reads the
\* source itself could return (the cache is invisible to tool handlers but
\* for the age of what a URL served).
ImplementsContract == Contract!Spec
=============================================================================
