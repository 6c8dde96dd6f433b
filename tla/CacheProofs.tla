------------------------------ MODULE CacheProofs ------------------------------
(***************************************************************************)
(* Theorems about the two caches of the program: the spec cache of the     *)
(* server (SpecCache), for any sets of calls and sources, any size and any  *)
(* TTLs, and the one that generated clients keep (GeneratedClient), with   *)
(* their refresh of tokens, for any number of threads and any durations.   *)
(***************************************************************************)
EXTENDS SpecCache, GeneratedClient, FiniteSetTheorems, TLAPS

-------------------------------------------------------------------------------
(* The spec cache of the server.                                             *)

\* What the assumptions say of the constants, in the form the proofs use.
LEMMA Constants ==
    /\ MaxSize \in Nat \ {0}
    /\ \A s \in Source : TTL(s) \in Nat
    /\ (CHOOSE s \in Source : TRUE) \in Source
    /\ (CHOOSE c \in Ctx : TRUE) \in Ctx
    /\ \A s \in Source : s \notin Content <=> (s \in File \/ s \in Url)
BY SourcesDisjoint, ConfigAssumption DEF TTL, Source

\* The key of a call is its source's, so every step below can use its type.
LEMMA CacheKeyType ==
    ASSUME NEW s \in Source, NEW extraOpts \in BOOLEAN, version \in [Source -> Nat]
    PROVE  /\ CacheKey(s, extraOpts) \in Key \cup {NoKey}
           /\ CacheKey(s, extraOpts) # NoKey =>
                /\ CacheKey(s, extraOpts).src = s
                /\ s \in File => CacheKey(s, extraOpts).stamp = version[s]
BY NoKeyAssumption DEF CacheKey, Key

\* An answer leaves a call well typed.
LEMMA ReplyType ==
    ASSUME NEW p \in Proc, calls \in [Proc -> Call], NEW o \in {"hit", "parsed", "error"},
           NEW v \in Nat, NEW t \in Nat, NEW u \in Nat
    PROVE  Reply(p, o, v, t, u) \in Call
BY DEF Reply, Call

\* A step that moves one call leaves all calls well typed.
LEMMA MoveType ==
    ASSUME TypeOK, NEW p \in Proc, NEW c \in Call,
           c.pc \in {"get", "put"} => c.key \in Key,
           calls' = [calls EXCEPT ![p] = c]
    PROVE  /\ calls' \in [Proc -> Call]
           /\ \A q \in Proc : calls'[q].pc \in {"get", "put"} => calls'[q].key \in Key
BY DEF TypeOK

\* Every variable keeps its type: the cache's keys belong to known sources
\* and every call is in one of resolve's steps.
THEOREM TypeCorrect == Spec => []TypeOK
<1>1. Init => TypeOK
  <2> SUFFICES ASSUME Init PROVE TypeOK
    OBVIOUS
  <2>1. calls \in [Proc -> Call] /\ \A p \in Proc : calls[p].pc = "idle"
    BY Constants DEF Init, Call
  <2>2. gor \in [Gor -> [pc : {"none", "select", "sweep", "deferred"}, ctx : Ctx]]
    BY Constants DEF Init
  <2>3. DOMAIN entries = {}
    BY DEF Init
  <2>4. QED
    BY <2>1, <2>2, <2>3 DEF Init, TypeOK
<1>2. TypeOK /\ [Next]_vars => TypeOK'
  <2> SUFFICES ASSUME TypeOK, [Next]_vars PROVE TypeOK'
    OBVIOUS
  <2> USE DEF TypeOK
  <2>1. CASE Tick
    BY <2>1 DEF Tick, worldVars, cacheVars, sweeperVars, BoundAssumption
  <2>2. ASSUME NEW s \in Source, Change(s) PROVE TypeOK'
    BY <2>2 DEF Change, cacheVars, sweeperVars
  <2>3. ASSUME NEW s \in Source, Vanish(s) PROVE TypeOK'
    BY <2>3 DEF Vanish, cacheVars, sweeperVars
  <2>4. ASSUME NEW p \in Proc, Reject(p) PROVE TypeOK'
    <3>1. Reply(p, "error", 0, 0, 0) \in Call /\ Reply(p, "error", 0, 0, 0).pc = "done"
      BY ReplyType DEF Reply
    <3>2. QED
      BY <2>4, <3>1, MoveType DEF Reject, worldVars, sweeperVars
  <2>5. ASSUME NEW p \in Proc, Begin(p) PROVE TypeOK'
    <3>1. PICK s \in Source \ Oversized, x \in BOOLEAN :
            calls' = [calls EXCEPT ![p] =
              [pc |-> IF CacheKey(s, x) = NoKey THEN "read" ELSE "get", src |-> s,
               key |-> CacheKey(s, x), since |-> version[s], ver |-> 0,
               outcome |-> "none", at |-> 0, putAt |-> 0]]
      BY <2>5 DEF Begin
    <3> DEFINE c == [pc |-> IF CacheKey(s, x) = NoKey THEN "read" ELSE "get", src |-> s,
               key |-> CacheKey(s, x), since |-> version[s], ver |-> 0,
               outcome |-> "none", at |-> 0, putAt |-> 0]
    <3>2. CacheKey(s, x) \in Key \cup {NoKey}
      BY CacheKeyType
    <3>3. c \in Call /\ (c.pc \in {"get", "put"} => c.key \in Key)
      BY <3>2 DEF Call
    <3>4. QED
      BY <2>5, <3>1, <3>3, MoveType DEF Begin, worldVars, sweeperVars
  <2>6. ASSUME NEW p \in Proc, GetHit(p) PROVE TypeOK'
    <3> DEFINE e == entries[calls[p].key]
               c == Reply(p, "hit", e.ver, clock, e.putAt)
    <3>1. e \in Entry
      BY <2>6 DEF GetHit
    <3>2. c \in Call /\ c.pc = "done"
      BY <3>1, ReplyType DEF Entry, Reply
    <3>3. DOMAIN entries' \subseteq Key /\ \A k \in DOMAIN entries' : entries'[k] \in Entry
      BY <2>6, <3>1 DEF GetHit, Entry
    <3>4. calls' = [calls EXCEPT ![p] = c]
      BY <2>6 DEF GetHit
    <3> HIDE DEF c
    <3>5. QED
      BY <2>6, <3>2, <3>3, <3>4, MoveType DEF GetHit, worldVars, sweeperVars
  <2>7. ASSUME NEW p \in Proc, GetMiss(p) PROVE TypeOK'
    <3>1. calls'[p] \in Call /\ calls'[p].pc = "read"
      BY <2>7 DEF GetMiss, Call
    <3>2. QED
      BY <2>7, <3>1 DEF GetMiss, Without, worldVars, sweeperVars
  <2>8. ASSUME NEW p \in Proc, Read(p) PROVE TypeOK'
    <3> DEFINE v == version[calls[p].src]
               c == IF calls[p].key = NoKey THEN Reply(p, "parsed", v, 0, 0)
                    ELSE [calls[p] EXCEPT !.pc = "put", !.ver = v]
    <3>1. calls[p] \in Call /\ v \in Nat
      BY DEF Call
    <3>2. Reply(p, "parsed", v, 0, 0) \in Call /\ Reply(p, "parsed", v, 0, 0).pc = "done"
      BY <3>1, ReplyType DEF Reply
    <3>3. c \in Call /\ (c.pc \in {"get", "put"} => c.key \in Key)
      BY <3>1, <3>2 DEF Call
    <3>4. calls' = [calls EXCEPT ![p] = c]
      BY <2>8 DEF Read
    <3> HIDE DEF c
    <3>5. QED
      BY <2>8, <3>3, <3>4, MoveType DEF Read, worldVars, sweeperVars
  <2>9. ASSUME NEW p \in Proc, ReadFails(p) PROVE TypeOK'
    <3>1. Reply(p, "error", 0, 0, 0) \in Call /\ Reply(p, "error", 0, 0, 0).pc = "done"
      BY ReplyType DEF Reply
    <3>2. QED
      BY <2>9, <3>1, MoveType DEF ReadFails, worldVars, sweeperVars
  <2>10. ASSUME NEW p \in Proc, Put(p) PROVE TypeOK'
    <3> DEFINE c == Reply(p, "parsed", calls[p].ver, 0, 0)
    <3>1. calls[p] \in Call /\ calls[p].key \in Key
      BY <2>10 DEF Put
    <3>2. c \in Call /\ c.pc = "done"
      BY <3>1, ReplyType DEF Call, Reply
    <3>3. [ver |-> calls[p].ver, insertAt |-> clock, putAt |-> clock, usedAt |-> clock,
           expiresAt |-> clock + TTL(calls[p].src)] \in Entry
      BY <3>1, Constants DEF Call, Entry
    <3>4. DOMAIN entries' \subseteq Key /\ \A k \in DOMAIN entries' : entries'[k] \in Entry
      BY <2>10, <3>1, <3>3 DEF Put
    <3>5. calls' = [calls EXCEPT ![p] = c]
      BY <2>10 DEF Put
    <3> HIDE DEF c
    <3>6. QED
      BY <2>10, <3>2, <3>4, <3>5, MoveType DEF Put, worldVars, sweeperVars
  <2>11. ASSUME StartSweeper PROVE TypeOK'
    <3>1. PICK c \in Ctx, g \in Gor : gor' = [gor EXCEPT ![g] = [pc |-> "select", ctx |-> c]]
      BY <2>11 DEF StartSweeper
    <3>2. gor' \in [Gor -> [pc : {"none", "select", "sweep", "deferred"}, ctx : Ctx]]
      BY <3>1
    <3>3. QED
      BY <2>11, <3>2 DEF StartSweeper, worldVars, cacheVars
  <2>12. CASE Cancel
    BY <2>12 DEF Cancel, worldVars, cacheVars
  <2>13. ASSUME NEW g \in Gor, Sweeper(g) PROVE TypeOK'
    <3>1. /\ gor' \in [Gor -> [pc : {"none", "select", "sweep", "deferred"}, ctx : Ctx]]
          /\ started' \in BOOLEAN
      BY <2>13 DEF Sweeper, TickerFires, Sweep, Return, Exit
    <3>2. DOMAIN entries' \subseteq Key /\ \A k \in DOMAIN entries' : entries'[k] \in Entry
      BY <2>13 DEF Sweeper, TickerFires, Sweep, Return, Exit, Without, cacheVars
    <3>3. QED
      BY <2>13, <3>1, <3>2 DEF Sweeper, TickerFires, Sweep, Return, Exit, Without, worldVars, cacheVars
  <2>14. CASE UNCHANGED vars
    BY <2>14 DEF vars, worldVars, cacheVars, sweeperVars
  <2>15. QED
    BY <2>1, <2>2, <2>3, <2>4, <2>5, <2>6, <2>7, <2>8, <2>9, <2>10, <2>11, <2>12, <2>13, <2>14
       DEF Next, World, Resolve, Serve
<1>3. QED
  BY <1>1, <1>2, PTL DEF Spec

-----------------------------------------------------------------------------
\* Steps on one call: only that call's record has to be looked at again.
LEMMA MoveSource ==
    ASSUME TypeOK, SourceInv, NEW p \in Proc, NEW c \in Call, CallInv(c),
           calls' = [calls EXCEPT ![p] = c], UNCHANGED version
    PROVE  \A q \in Proc : CallInv(calls[q])'
<1> SUFFICES ASSUME NEW q \in Proc PROVE CallInv(calls[q])'
  OBVIOUS
<1>1. calls'[q] = IF q = p THEN c ELSE calls[q]
  BY DEF TypeOK
<1>2. CallInv(calls[q]) /\ CallInv(c)
  BY DEF SourceInv
<1>3. QED
  BY <1>1, <1>2 DEF CallInv

\* Every step keeps what entries and calls know of their sources.
LEMMA SourceInvInductive == TypeOK /\ SourceInv /\ [Next]_vars => SourceInv'
<1> SUFFICES ASSUME TypeOK, SourceInv, [Next]_vars PROVE SourceInv'
  OBVIOUS
<1>1. ASSUME UNCHANGED <<version, calls>>,
             \A k \in DOMAIN entries' : k \in DOMAIN entries /\ entries'[k] = entries[k]
      PROVE  SourceInv'
  BY <1>1 DEF SourceInv, CallInv
<1>2. ASSUME NEW p \in Proc, NEW c \in Call, CallInv(c),
             calls' = [calls EXCEPT ![p] = c], UNCHANGED version,
             \A k \in DOMAIN entries' : k \in DOMAIN entries /\ entries'[k].ver = entries[k].ver
      PROVE  SourceInv'
  <2>1. \A q \in Proc : CallInv(calls[q])'
    BY <1>2, MoveSource
  <2>2. QED
    BY <1>2, <2>1 DEF SourceInv
<1>3. ASSUME NEW p \in Proc
      PROVE  CallInv(calls[p]) /\ calls[p] \in Call /\ version[calls[p].src] \in Nat
             /\ calls[p].src \in Source
  BY DEF SourceInv, TypeOK, Call
<1>4. CASE Tick
  BY <1>1, <1>4 DEF Tick, worldVars, cacheVars
<1>5. ASSUME NEW s \in Source, Change(s) PROVE SourceInv'
  <2>1. s \notin Content /\ version' = [version EXCEPT ![s] = version[s] + 1]
        /\ UNCHANGED <<entries, calls>>
    BY <1>5 DEF Change, cacheVars
  <2>2. \A x \in Source : version[x] \in Nat /\ version'[x] \in Nat /\ version[x] =< version'[x]
    BY <2>1 DEF TypeOK
  <2>3. \A d \in Content : version'[d] = 0
    BY <2>1 DEF SourceInv, TypeOK, Source
  <2>4. ASSUME NEW k \in DOMAIN entries
        PROVE  entries[k].ver =< version'[k.src] /\ (k.src \in File => k.stamp =< entries[k].ver)
    <3>1. k.src \in Source /\ entries[k].ver \in Nat /\ entries[k].ver =< version[k.src]
      BY DEF TypeOK, SourceInv, Key, Entry
    <3>2. QED
      BY <2>2, <3>1 DEF SourceInv
  <2>5. ASSUME NEW p \in Proc PROVE CallInv(calls[p])'
    <3>1. calls[p].since \in Nat /\ calls[p].ver \in Nat
      BY DEF TypeOK, Call
    <3>2. QED
      BY <1>3, <2>1, <2>2, <3>1 DEF CallInv
  <2>6. QED
    BY <2>1, <2>3, <2>4, <2>5 DEF SourceInv
<1>6. ASSUME NEW s \in Source, Vanish(s) PROVE SourceInv'
  BY <1>1, <1>6 DEF Vanish, cacheVars
<1>7. ASSUME NEW p \in Proc, Reject(p) \/ ReadFails(p) PROVE SourceInv'
  <2> DEFINE c == Reply(p, "error", 0, 0, 0)
  <2>1. c \in Call
    BY ReplyType DEF TypeOK
  <2>2. CallInv(c)
    BY <1>3 DEF CallInv, Reply, Call
  <2>3. calls' = [calls EXCEPT ![p] = c] /\ UNCHANGED <<version, entries>>
    BY <1>7 DEF Reject, ReadFails, worldVars
  <2> HIDE DEF c
  <2>4. QED
    BY <1>2, <2>1, <2>2, <2>3
<1>8. ASSUME NEW p \in Proc, Begin(p) PROVE SourceInv'
  <2>1. PICK s \in Source \ Oversized, x \in BOOLEAN :
          calls' = [calls EXCEPT ![p] =
            [pc |-> IF CacheKey(s, x) = NoKey THEN "read" ELSE "get", src |-> s,
             key |-> CacheKey(s, x), since |-> version[s], ver |-> 0,
             outcome |-> "none", at |-> 0, putAt |-> 0]]
    BY <1>8 DEF Begin
  <2> DEFINE c == [pc |-> IF CacheKey(s, x) = NoKey THEN "read" ELSE "get", src |-> s,
             key |-> CacheKey(s, x), since |-> version[s], ver |-> 0,
             outcome |-> "none", at |-> 0, putAt |-> 0]
  <2>2. /\ version[s] \in Nat
        /\ CacheKey(s, x) \in Key \cup {NoKey}
        /\ CacheKey(s, x) # NoKey =>
             CacheKey(s, x).src = s /\ (s \in File => CacheKey(s, x).stamp = version[s])
    BY CacheKeyType DEF TypeOK
  <2>3. c \in Call /\ CallInv(c)
    BY <2>2 DEF Call, CallInv
  <2>4. UNCHANGED <<version, entries>>
    BY <1>8 DEF Begin, worldVars
  <2> HIDE DEF c
  <2>5. QED
    BY <1>2, <2>1, <2>3, <2>4 DEF c
<1>9. ASSUME NEW p \in Proc, GetHit(p) PROVE SourceInv'
  <2> DEFINE k == calls[p].key
             e == entries[k]
             c == Reply(p, "hit", e.ver, clock, e.putAt)
  <2>1. k \in DOMAIN entries /\ k # NoKey /\ e \in Entry
    BY <1>9, NoKeyAssumption DEF GetHit, TypeOK
  <2>2. c \in Call
    BY <2>1, ReplyType DEF TypeOK, Entry
  <2>3. e.ver =< version[k.src] /\ (k.src \in File => k.stamp =< e.ver)
    BY <2>1 DEF SourceInv
  <2>4. CallInv(c)
    BY <1>3, <2>1, <2>3 DEF CallInv, Reply
  <2>5. calls' = [calls EXCEPT ![p] = c] /\ UNCHANGED version
    BY <1>9 DEF GetHit, worldVars
  <2>6. \A j \in DOMAIN entries' : j \in DOMAIN entries /\ entries'[j].ver = entries[j].ver
    BY <1>9, <2>1 DEF GetHit
  <2> HIDE DEF c
  <2>7. QED
    BY <1>2, <2>2, <2>4, <2>5, <2>6
<1>10. ASSUME NEW p \in Proc, GetMiss(p) PROVE SourceInv'
  <2> DEFINE c == [calls[p] EXCEPT !.pc = "read"]
  <2>1. c \in Call
    BY <1>3 DEF Call
  <2>2. CallInv(c)
    BY <1>3, <1>10 DEF CallInv, GetMiss, Call
  <2>3. calls' = [calls EXCEPT ![p] = c] /\ UNCHANGED version
    BY <1>10 DEF GetMiss, worldVars
  <2>4. \A j \in DOMAIN entries' : j \in DOMAIN entries /\ entries'[j].ver = entries[j].ver
    BY <1>10 DEF GetMiss, Without
  <2> HIDE DEF c
  <2>5. QED
    BY <1>2, <2>1, <2>2, <2>3, <2>4
<1>11. ASSUME NEW p \in Proc, Read(p) PROVE SourceInv'
  <2> DEFINE v == version[calls[p].src]
             c == IF calls[p].key = NoKey THEN Reply(p, "parsed", v, 0, 0)
                  ELSE [calls[p] EXCEPT !.pc = "put", !.ver = v]
  <2>1. calls[p] \in Call /\ v \in Nat
    BY <1>3
  <2>2. c \in Call
    BY <2>1, ReplyType DEF TypeOK, Call
  <2>3. CallInv(c)
    BY <1>3, <1>11, <2>1 DEF CallInv, Read, Reply, Call
  <2>4. calls' = [calls EXCEPT ![p] = c] /\ UNCHANGED <<version, entries>>
    BY <1>11 DEF Read, worldVars
  <2> HIDE DEF c
  <2>5. QED
    BY <1>2, <2>2, <2>3, <2>4
<1>12. ASSUME NEW p \in Proc, Put(p) PROVE SourceInv'
  <2> DEFINE k == calls[p].key
             c == Reply(p, "parsed", calls[p].ver, 0, 0)
             e == [ver |-> calls[p].ver, insertAt |-> clock, putAt |-> clock,
                   usedAt |-> clock, expiresAt |-> clock + TTL(calls[p].src)]
  <2>1. calls[p] \in Call /\ k \in Key /\ k # NoKey /\ calls[p].pc = "put"
    BY <1>3, <1>12, NoKeyAssumption DEF Put, TypeOK
  <2>2. c \in Call
    BY <2>1, ReplyType DEF TypeOK, Call
  <2>3. CallInv(c)
    BY <1>3, <2>1 DEF CallInv, Reply, Call
  <2>4. calls' = [calls EXCEPT ![p] = c] /\ UNCHANGED version
    BY <1>12 DEF Put, worldVars
  <2>5. \A q \in Proc : CallInv(calls[q])'
    <3> HIDE DEF c
    <3>1. QED
      BY <2>2, <2>3, <2>4, MoveSource
  <2>6. \A j \in DOMAIN entries' : entries'[j] = e \/ (j \in DOMAIN entries /\ entries'[j] = entries[j])
    BY <1>12 DEF Put
  <2>7. \A j \in DOMAIN entries' : (j = k /\ entries'[j] = e) \/
            (j \in DOMAIN entries /\ entries'[j] = entries[j])
    BY <1>12 DEF Put
  <2>8. e.ver =< version[k.src] /\ (k.src \in File => k.stamp =< e.ver)
    BY <1>3, <2>1 DEF CallInv
  <2> HIDE DEF e
  <2>9. QED
    BY <2>4, <2>5, <2>7, <2>8 DEF SourceInv
<1>13. CASE StartSweeper \/ Cancel
  BY <1>1, <1>13 DEF StartSweeper, Cancel, worldVars, cacheVars
<1>14. ASSUME NEW g \in Gor, Sweeper(g) PROVE SourceInv'
  <2>1. UNCHANGED <<version, calls>>
    BY <1>14 DEF Sweeper, TickerFires, Sweep, Return, Exit, worldVars, cacheVars
  <2>2. \A k \in DOMAIN entries' : k \in DOMAIN entries /\ entries'[k] = entries[k]
    BY <1>14 DEF Sweeper, TickerFires, Sweep, Return, Exit, Without, cacheVars
  <2>3. QED
    BY <1>1, <2>1, <2>2
<1>15. CASE UNCHANGED vars
  BY <1>1, <1>15 DEF vars, worldVars, cacheVars
<1>16. QED
  BY <1>4, <1>5, <1>6, <1>7, <1>8, <1>9, <1>10, <1>11, <1>12, <1>13, <1>14, <1>15
     DEF Next, World, Resolve, Serve

\* No entry is older than its key says, and no call is answered too old.
LEMMA SourceInvariant == Spec => []SourceInv
<1>1. Init => SourceInv
  <2> SUFFICES ASSUME Init PROVE SourceInv
    OBVIOUS
  <2>1. \A p \in Proc : CallInv(calls[p])
    BY Constants, NoKeyAssumption DEF Init, CallInv
  <2>2. QED
    BY <2>1 DEF Init, SourceInv, Source
<1>2. QED
  BY <1>1, SourceInvInductive, TypeCorrect, PTL DEF Spec

\* A file's resolve is linearizable for any number of concurrent calls and
\* any file activity: the version returned was current during the call.
THEOREM FileResultsAreCurrent == Spec => []FileResultsCurrent
<1>1. SourceInv => FileResultsCurrent
  BY DEF SourceInv, CallInv, FileResultsCurrent
<1>2. QED
  BY <1>1, SourceInvariant, PTL

-----------------------------------------------------------------------------
\* Put removes at most one entry and inserts at most one, and does the first
\* whenever the second would exceed MaxSize.
LEMMA PutKeepsCapacity ==
    ASSUME NEW p \in Proc, Put(p), IsFiniteSet(DOMAIN entries), WithinCapacity
    PROVE  IsFiniteSet(DOMAIN entries') /\ WithinCapacity'
<1> DEFINE k == calls[p].key
           D == DOMAIN entries
<1>1. PICK gone \in Evicted(k) : DOMAIN entries' = (D \ gone) \cup {k}
  BY DEF Put
<1>2. Cardinality(D) \in Nat /\ Cardinality(D) =< MaxSize /\ MaxSize \in Nat \ {0}
  BY FS_CardinalityType, Constants DEF WithinCapacity
<1>3. CASE k \in D
  <2>1. DOMAIN entries' = D
    BY <1>1, <1>3 DEF Evicted
  <2>2. QED
    BY <1>2, <2>1 DEF WithinCapacity
<1>4. CASE k \notin D /\ Cardinality(D) < MaxSize
  <2>1. DOMAIN entries' = D \cup {k}
    BY <1>1, <1>4 DEF Evicted
  <2>2. IsFiniteSet(D \cup {k}) /\ Cardinality(D \cup {k}) = Cardinality(D) + 1
    BY <1>4, FS_AddElement
  <2>3. QED
    BY <1>2, <1>4, <2>1, <2>2 DEF WithinCapacity
<1>5. CASE k \notin D /\ ~(Cardinality(D) < MaxSize)
  <2>1. PICK v \in D : gone = {v}
    BY <1>1, <1>5 DEF Evicted, Oldest
  <2>2. IsFiniteSet(D \ {v}) /\ Cardinality(D \ {v}) = Cardinality(D) - 1
    BY <2>1, FS_RemoveElement
  <2>3. k \notin D \ {v} /\ DOMAIN entries' = (D \ {v}) \cup {k}
    BY <1>1, <1>5, <2>1
  <2>4. IsFiniteSet((D \ {v}) \cup {k}) /\ Cardinality((D \ {v}) \cup {k}) = Cardinality(D \ {v}) + 1
    BY <2>2, <2>3, FS_AddElement
  <2>5. QED
    BY <1>2, <2>2, <2>3, <2>4 DEF WithinCapacity
<1>6. QED
  BY <1>3, <1>4, <1>5

\* However many calls race to store, the cache holds at most CacheMaxSize
\* entries, for any configured size.
THEOREM CacheWithinCapacity == Spec => [](IsFiniteSet(DOMAIN entries) /\ WithinCapacity)
<1> DEFINE Inv == IsFiniteSet(DOMAIN entries) /\ WithinCapacity
<1>1. Init => Inv
  BY FS_EmptySet, Constants DEF Init, WithinCapacity
<1>2. TypeOK /\ Inv /\ [Next]_vars => Inv'
  <2> SUFFICES ASSUME TypeOK, Inv, [Next]_vars PROVE Inv'
    OBVIOUS
  <2>1. ASSUME DOMAIN entries' \subseteq DOMAIN entries PROVE Inv'
    <3>1. IsFiniteSet(DOMAIN entries') /\ Cardinality(DOMAIN entries') =< Cardinality(DOMAIN entries)
      BY <2>1, FS_Subset
    <3>2. Cardinality(DOMAIN entries') \in Nat /\ Cardinality(DOMAIN entries) \in Nat
      BY <3>1, FS_CardinalityType
    <3>3. QED
      BY <3>1, <3>2, Constants DEF WithinCapacity
  <2>2. ASSUME UNCHANGED entries PROVE Inv'
    BY <2>1, <2>2
  <2>3. ASSUME NEW p \in Proc, GetHit(p) PROVE Inv'
    <3>1. DOMAIN entries' = DOMAIN entries
      BY <2>3 DEF GetHit
    <3>2. QED
      BY <2>1, <3>1
  <2>4. ASSUME NEW p \in Proc, GetMiss(p) PROVE Inv'
    BY <2>1, <2>4 DEF GetMiss, Without
  <2>5. ASSUME NEW p \in Proc, Put(p) PROVE Inv'
    BY <2>5, PutKeepsCapacity
  <2>6. ASSUME NEW p \in Proc, Reject(p) \/ Begin(p) \/ Read(p) \/ ReadFails(p) PROVE Inv'
    BY <2>2, <2>6 DEF Reject, Begin, Read, ReadFails
  <2>7. ASSUME NEW g \in Gor, Sweeper(g) PROVE Inv'
    <3>1. DOMAIN entries' \subseteq DOMAIN entries
      BY <2>7 DEF Sweeper, TickerFires, Sweep, Return, Exit, Without, cacheVars
    <3>2. QED
      BY <2>1, <3>1
  <2>8. CASE Tick \/ World \/ StartSweeper \/ Cancel \/ UNCHANGED vars
    BY <2>2, <2>8 DEF Tick, World, Change, Vanish, StartSweeper, Cancel, vars, cacheVars
  <2>9. QED
    BY <2>3, <2>4, <2>5, <2>6, <2>7, <2>8 DEF Next, Resolve, Serve
<1>3. QED
  BY <1>1, <1>2, TypeCorrect, PTL DEF Spec

-----------------------------------------------------------------------------
\* Every entry expires its TTL after its store, so no hit is later.
LEMMA ExpiryInvariant == Spec => [](ExpiryInv /\ HitsWithinTTL)
<1> DEFINE Inv == ExpiryInv /\ HitsWithinTTL
<1>1. Init => Inv
  BY DEF Init, ExpiryInv, HitsWithinTTL
<1>2. TypeOK /\ SourceInv /\ Inv /\ [Next]_vars => Inv'
  <2> SUFFICES ASSUME TypeOK, SourceInv, Inv, [Next]_vars PROVE Inv'
    OBVIOUS
  <2> USE DEF ExpiryInv
  <2>1. ASSUME NEW k \in DOMAIN entries
        PROVE  /\ entries[k].putAt \in Nat /\ clock \in Nat /\ entries[k].putAt =< clock
               /\ entries[k].expiresAt = entries[k].putAt + TTL(k.src)
               /\ entries[k].usedAt = entries[k].insertAt
    BY DEF TypeOK, Entry
  \* No entry is added or changed and no call returns a hit.
  <2>2. ASSUME clock' = clock \/ clock' = clock + 1,
               \A k \in DOMAIN entries' : k \in DOMAIN entries /\ entries'[k] = entries[k],
               \A q \in Proc : calls'[q] = calls[q] \/ calls'[q].outcome # "hit"
        PROVE  Inv'
    <3>1. ExpiryInv'
      BY <2>1, <2>2
    <3>2. HitsWithinTTL'
      BY <2>2 DEF HitsWithinTTL
    <3>3. QED
      BY <3>1, <3>2
  <2>3. CASE Tick
    BY <2>2, <2>3 DEF Tick, cacheVars
  <2>4. CASE World \/ StartSweeper \/ Cancel \/ UNCHANGED vars
    BY <2>2, <2>4 DEF World, Change, Vanish, StartSweeper, Cancel, vars, cacheVars
  <2>5. ASSUME NEW g \in Gor, Sweeper(g) PROVE Inv'
    BY <2>2, <2>5 DEF Sweeper, TickerFires, Sweep, Return, Exit, Without, cacheVars
  <2>6. ASSUME NEW p \in Proc, Reject(p) \/ Begin(p) \/ ReadFails(p) \/ Read(p) \/ GetMiss(p)
        PROVE  Inv'
    <3>1. UNCHANGED clock
      BY <2>6 DEF Reject, Begin, ReadFails, Read, GetMiss
    <3>2. \A k \in DOMAIN entries' : k \in DOMAIN entries /\ entries'[k] = entries[k]
      BY <2>6 DEF Reject, Begin, ReadFails, Read, GetMiss, Without
    <3>3. calls'[p].outcome # "hit"
      <4>1. calls[p].pc = "read" \/ calls[p].pc = "get" => calls[p].outcome = "none"
        BY DEF SourceInv, CallInv
      <4>2. CASE Reject(p) \/ ReadFails(p)
        BY <4>2 DEF Reject, ReadFails, Reply, TypeOK
      <4>3. CASE Begin(p)
        BY <4>3 DEF Begin, TypeOK
      <4>4. CASE Read(p)
        <5>1. calls'[p] = IF calls[p].key = NoKey
                THEN Reply(p, "parsed", version[calls[p].src], 0, 0)
                ELSE [calls[p] EXCEPT !.pc = "put", !.ver = version[calls[p].src]]
          BY <4>4 DEF Read, TypeOK
        <5>2. calls[p].outcome = "none" /\ calls[p] \in Call
          BY <4>1, <4>4 DEF Read, TypeOK
        <5>3. QED
          BY <5>1, <5>2 DEF Reply, Call
      <4>5. CASE GetMiss(p)
        <5>1. calls'[p] = [calls[p] EXCEPT !.pc = "read"] /\ calls[p] \in Call
          BY <4>5 DEF GetMiss, TypeOK
        <5>2. QED
          BY <4>1, <4>5, <5>1 DEF GetMiss, Call
      <4>6. QED
        BY <2>6, <4>2, <4>3, <4>4, <4>5
    <3>4. \A q \in Proc : q # p => calls'[q] = calls[q]
      BY <2>6 DEF Reject, Begin, ReadFails, Read, GetMiss, TypeOK
    <3>5. QED
      BY <2>2, <3>1, <3>2, <3>3, <3>4
  <2>7. ASSUME NEW p \in Proc, GetHit(p) PROVE Inv'
    <3> DEFINE k == calls[p].key
               e == entries[k]
    <3>1. k \in DOMAIN entries /\ k # NoKey /\ clock =< e.expiresAt /\ UNCHANGED clock
      BY <2>1, <2>7, NoKeyAssumption DEF GetHit, Expired, TypeOK, Entry
    <3>2. k.src = calls[p].src
      BY <3>1 DEF SourceInv, CallInv
    <3>3. ExpiryInv'
      BY <2>1, <2>7, <3>1 DEF GetHit
    <3>4. calls' = [calls EXCEPT ![p] = Reply(p, "hit", e.ver, clock, e.putAt)]
      BY <2>7 DEF GetHit
    <3>5. clock =< e.putAt + TTL(calls[p].src)
      BY <2>1, <3>1, <3>2
    <3>6. HitsWithinTTL'
      BY <3>4, <3>5 DEF HitsWithinTTL, Reply, TypeOK
    <3>7. QED
      BY <3>3, <3>6
  <2>8. ASSUME NEW p \in Proc, Put(p) PROVE Inv'
    <3> DEFINE k == calls[p].key
               e == [ver |-> calls[p].ver, insertAt |-> clock, putAt |-> clock,
                     usedAt |-> clock, expiresAt |-> clock + TTL(calls[p].src)]
    <3>1. k \in Key /\ k # NoKey /\ k.src = calls[p].src /\ clock \in Nat /\ UNCHANGED clock
      BY <2>8, NoKeyAssumption DEF Put, TypeOK, SourceInv, CallInv
    <3>2. \A j \in DOMAIN entries' : (j = k /\ entries'[j] = e) \/
            (j \in DOMAIN entries /\ entries'[j] = entries[j])
      BY <2>8 DEF Put
    <3>3. e.putAt = clock /\ e.expiresAt = clock + TTL(k.src) /\ e.usedAt = e.insertAt
      BY <3>1
    <3> HIDE DEF e
    <3>4. ExpiryInv'
      BY <2>1, <3>1, <3>2, <3>3
    <3>5. calls' = [calls EXCEPT ![p] = Reply(p, "parsed", calls[p].ver, 0, 0)]
      BY <2>8 DEF Put
    <3>6. HitsWithinTTL'
      BY <3>5 DEF HitsWithinTTL, Reply, TypeOK
    <3>7. QED
      BY <3>4, <3>6
  <2>9. QED
    BY <2>3, <2>4, <2>5, <2>6, <2>7, <2>8 DEF Next, Resolve, Serve
<1>3. QED
  BY <1>1, <1>2, SourceInvariant, TypeCorrect, PTL DEF Spec

\* A hit is never served later than the TTL of its kind after it was stored:
\* the get that touches an entry leaves its expiry alone.
THEOREM HitsAreWithinTTL == Spec => []HitsWithinTTL
BY ExpiryInvariant, PTL

-----------------------------------------------------------------------------
\* A live entry is only ever displaced by a put that finds the cache full, and
\* then it is a least recently used one.
THEOREM LiveEntriesLeaveInLRUOrder == Spec => EvictsLeastRecentlyUsed
<1> DEFINE Cap == IsFiniteSet(DOMAIN entries) /\ WithinCapacity
<1>1. TypeOK /\ Cap /\ ExpiryInv /\ [Next]_vars => [EvictionStep]_vars
  <2> SUFFICES ASSUME TypeOK, Cap, ExpiryInv, [Next]_vars, NEW k \in Gone, ~Expired(k)
               PROVE  /\ Cardinality(DOMAIN entries) = MaxSize
                      /\ Gone = {k}
                      /\ \A j \in DOMAIN entries : entries[k].usedAt =< entries[j].usedAt
    BY DEF EvictionStep
  <2> USE DEF Gone
  <2>1. ASSUME NEW p \in Proc, GetMiss(p) PROVE FALSE
    BY <2>1 DEF GetMiss, Without
  <2>2. ASSUME NEW p \in Proc, GetHit(p) PROVE FALSE
    BY <2>2 DEF GetHit
  <2>3. ASSUME NEW g \in Gor, Sweeper(g) PROVE FALSE
    BY <2>3 DEF Sweeper, TickerFires, Sweep, Return, Exit, Without, cacheVars
  <2>4. ASSUME NEW p \in Proc, Reject(p) \/ Begin(p) \/ Read(p) \/ ReadFails(p) PROVE FALSE
    BY <2>4 DEF Reject, Begin, Read, ReadFails
  <2>5. ASSUME Tick \/ World \/ StartSweeper \/ Cancel \/ UNCHANGED vars PROVE FALSE
    BY <2>5 DEF Tick, World, Change, Vanish, StartSweeper, Cancel, vars, cacheVars
  <2>6. PICK p \in Proc : Put(p)
    BY <2>1, <2>2, <2>3, <2>4, <2>5 DEF Next, Resolve, Serve
  <2>7. PICK gone \in Evicted(calls[p].key) :
          DOMAIN entries' = (DOMAIN entries \ gone) \cup {calls[p].key}
    BY <2>6 DEF Put
  <2>8. k \in gone
    BY <2>7
  <2>9. gone = {k} /\ k \in Oldest /\ calls[p].key \notin DOMAIN entries
        /\ ~(Cardinality(DOMAIN entries) < MaxSize)
    BY <2>7, <2>8 DEF Evicted
  <2>10. Cardinality(DOMAIN entries) = MaxSize
    BY <2>9, FS_CardinalityType, Constants DEF WithinCapacity
  <2>11. \A j \in DOMAIN entries : entries[k].usedAt =< entries[j].usedAt
    BY <2>9 DEF Oldest, ExpiryInv
  <2>12. QED
    BY <2>7, <2>9, <2>10, <2>11
<1>2. QED
  BY <1>1, TypeCorrect, CacheWithinCapacity, ExpiryInvariant, PTL
     DEF Spec, EvictsLeastRecentlyUsed

-----------------------------------------------------------------------------
\* The compare-and-swap in startSweeper admits one goroutine until the last
\* deferred call of the previous one has run, whatever contexts are cancelled.
THEOREM AtMostOneSweeper == Spec => []OneSweeper
<1>1. Init => OneSweeper
  <2>1. Init => started = FALSE /\ \A g \in Gor : gor[g].pc = "none"
    BY DEF Init
  <2>2. QED
    BY <2>1 DEF OneSweeper
<1>2. TypeOK /\ OneSweeper /\ [Next]_vars => OneSweeper'
  <2> SUFFICES ASSUME TypeOK, OneSweeper, [Next]_vars PROVE OneSweeper'
    OBVIOUS
  <2>1. ASSUME UNCHANGED <<started, gor>> PROVE OneSweeper'
    BY <2>1 DEF OneSweeper
  <2>2. CASE StartSweeper
    <3>1. PICK c \in Ctx, g \in Gor :
            ~started /\ started' = TRUE /\ gor' = [gor EXCEPT ![g] = [pc |-> "select", ctx |-> c]]
      BY <2>2 DEF StartSweeper
    <3>2. \A h \in Gor : gor'[h].pc # "none" <=> h = g
      BY <3>1 DEF OneSweeper, TypeOK
    <3>3. QED
      BY <3>1, <3>2 DEF OneSweeper
  <2>3. ASSUME NEW g \in Gor, TickerFires(g) \/ Sweep(g) \/ Return(g) PROVE OneSweeper'
    <3>1. UNCHANGED started /\ \A h \in Gor : gor'[h].pc # "none" <=> gor[h].pc # "none"
      BY <2>3 DEF TickerFires, Sweep, Return, TypeOK
    <3>2. QED
      BY <3>1 DEF OneSweeper
  <2>4. ASSUME NEW g \in Gor, Exit(g) PROVE OneSweeper'
    <3>1. started' = FALSE /\ \A h \in Gor : gor'[h].pc = "none"
      BY <2>4 DEF Exit, OneSweeper, TypeOK
    <3>2. QED
      BY <3>1 DEF OneSweeper
  <2>5. ASSUME NEW p \in Proc, Resolve(p) PROVE OneSweeper'
    BY <2>1, <2>5 DEF Resolve, Reject, Begin, Serve, GetHit, GetMiss, Read, ReadFails, Put, sweeperVars
  <2>6. CASE Tick \/ World \/ Cancel \/ UNCHANGED vars
    BY <2>1, <2>6 DEF Tick, World, Change, Vanish, Cancel, vars, sweeperVars
  <2>7. QED
    BY <2>2, <2>3, <2>4, <2>5, <2>6 DEF Next, Sweeper
<1>3. QED
  BY <1>1, <1>2, TypeCorrect, PTL DEF Spec

-----------------------------------------------------------------------------
\* Refinement.  A lookup that misses, a parse whose result is still to be
\* stored and everything the sweeper does are invisible steps; a hit, a store
\* and an uncached parse are where the contract's call is answered.

\* Moving one call moves one request of the contract.
LEMMA MoveRequest ==
    ASSUME NEW p \in Proc, NEW c, calls \in [Proc -> Call], calls' = [calls EXCEPT ![p] = c]
    PROVE  [q \in Proc |-> Request(calls[q])]'
             = [[q \in Proc |-> Request(calls[q])] EXCEPT ![p] = Request(c)]
<1>1. \A q \in Proc : calls'[q] = IF q = p THEN c ELSE calls[q]
  OBVIOUS
<1>2. [q \in Proc |-> Request(calls[q])]' = [q \in Proc |-> Request(calls'[q])]
  BY DEF Request
<1>3. \A q \in Proc : Request(calls'[q]) = IF q = p THEN Request(c) ELSE Request(calls[q])
  BY <1>1
<1>4. QED
  BY <1>2, <1>3

\* A move that the caller does not see leaves the contract as it is.
LEMMA InvisibleMove ==
    ASSUME NEW p \in Proc, NEW c, calls \in [Proc -> Call], calls' = [calls EXCEPT ![p] = c],
           Request(c) = Request(calls[p]), UNCHANGED <<version, there>>
    PROVE  UNCHANGED Contract!vars
<1>1. [q \in Proc |-> Request(calls[q])]' = [q \in Proc |-> Request(calls[q])]
  BY MoveRequest
<1>2. QED
  BY <1>1 DEF Contract!vars

\* What an answered call has read is one of the contract's answers.
LEMMA AnswerAllowed ==
    ASSUME NEW p \in Proc, NEW c \in Call, calls \in [Proc -> Call],
           calls' = [calls EXCEPT ![p] = c], UNCHANGED <<version, there>>,
           version \in [Source -> Nat], \A d \in Content : version[d] = 0, CallInv(c),
           calls[p].pc \in {"get", "read", "put"}, c.pc = "done", c.outcome \in {"hit", "parsed"},
           c.src = calls[p].src, c.since = calls[p].since
    PROVE  Contract!Answer(p)
<1> DEFINE r == [q \in Proc |-> Request(calls[q])]
<1>1. r[p] = [status |-> "waiting", src |-> c.src, since |-> c.since, ver |-> 0]
  BY DEF Request
<1>2. Request(c) = [status |-> "answered", src |-> c.src, since |-> c.since, ver |-> c.ver]
  BY DEF Request
<1>3. Request(c) = [status |-> "answered", src |-> r[p].src, since |-> r[p].since, ver |-> c.ver]
  BY <1>1, <1>2
<1>4. r' = [r EXCEPT ![p] = Request(c)]
  BY MoveRequest
<1>5. c.ver \in Nat /\ c.since \in Nat /\ c.src \in Source /\ version[c.src] \in Nat
  BY DEF Call
<1>6. c.ver \in Contract!Answers(p)
  <2>1. c.ver =< version[c.src] /\ (c.src \in File => c.since =< c.ver)
    BY DEF CallInv
  <2>2. c.src \notin File /\ c.src \notin Url => c.ver = 0
    BY <1>5, <2>1 DEF Source
  <2>3. QED
    BY <1>1, <1>5, <2>1, <2>2 DEF Contract!Answers
<1>7. Contract!Waiting(p)
  BY <1>1 DEF Contract!Waiting
<1>8. r' = [r EXCEPT ![p] = Contract!Outcome(p, "answered", c.ver)]
  BY <1>3, <1>4 DEF Contract!Outcome
<1>9. QED
  BY <1>6, <1>7, <1>8 DEF Contract!Answer

\* The cache starts as the contract does.
LEMMA InitRefines == Init => Contract!Init
<1> SUFFICES ASSUME Init PROVE Contract!Init
  OBVIOUS
<1>1. \A p \in Proc : [q \in Proc |-> Request(calls[q])][p].status = "free"
  BY DEF Init, Request
<1>2. version = [s \in Source |-> 0] /\ there \in [Source -> BOOLEAN]
  BY DEF Init
<1>3. QED
  BY <1>1, <1>2 DEF Contract!Init, Contract!Source, Source

\* Every step of the cache is one of the contract or invisible to it.
LEMMA StepRefines ==
    TypeOK /\ SourceInv /\ SourceInv' /\ TypeOK' /\ [Next]_vars => [Contract!Next]_(Contract!vars)
<1> SUFFICES ASSUME TypeOK, SourceInv, TypeOK', SourceInv', [Next]_vars
             PROVE  Contract!Next \/ UNCHANGED Contract!vars
  OBVIOUS
<1> DEFINE r == [q \in Proc |-> Request(calls[q])]
<1>1. ASSUME UNCHANGED <<version, there, calls>> PROVE UNCHANGED Contract!vars
  BY <1>1 DEF Contract!vars, Request
<1>2. ASSUME NEW s \in Source, Change(s) PROVE Contract!Change(s)
  BY <1>2 DEF Change, cacheVars, Contract!Change, Request
<1>3. ASSUME NEW s \in Source, Vanish(s) PROVE Contract!Vanish(s)
  BY <1>3 DEF Vanish, cacheVars, Contract!Vanish, Request
<1>4. ASSUME NEW p \in Proc, Reject(p) \/ ReadFails(p) PROVE Contract!Fail(p)
  <2> DEFINE c == Reply(p, "error", 0, 0, 0)
  <2>1. calls' = [calls EXCEPT ![p] = c] /\ UNCHANGED <<version, there>>
    BY <1>4 DEF Reject, ReadFails, worldVars
  <2>2. r' = [r EXCEPT ![p] = Request(c)]
    BY <2>1, MoveRequest DEF TypeOK
  <2>3. Request(c) = [status |-> "failed", src |-> r[p].src, since |-> r[p].since, ver |-> 0]
    BY DEF Request, Reply
  <2>4. QED
    BY <2>1, <2>2, <2>3 DEF Contract!Fail, Contract!Outcome
<1>5. ASSUME NEW p \in Proc, Begin(p) PROVE \E s \in Source : Contract!Ask(p, s)
  <2>1. PICK s \in Source \ Oversized, x \in BOOLEAN :
          calls' = [calls EXCEPT ![p] =
            [pc |-> IF CacheKey(s, x) = NoKey THEN "read" ELSE "get", src |-> s,
             key |-> CacheKey(s, x), since |-> version[s], ver |-> 0,
             outcome |-> "none", at |-> 0, putAt |-> 0]]
    BY <1>5 DEF Begin
  <2> DEFINE c == [pc |-> IF CacheKey(s, x) = NoKey THEN "read" ELSE "get", src |-> s,
             key |-> CacheKey(s, x), since |-> version[s], ver |-> 0,
             outcome |-> "none", at |-> 0, putAt |-> 0]
  <2>2. r' = [r EXCEPT ![p] = Request(c)]
    BY <2>1, MoveRequest DEF TypeOK
  <2>3. Request(c) = [status |-> "waiting", src |-> s, since |-> version[s], ver |-> 0]
    BY DEF Request
  <2>4. r[p].status # "waiting"
    BY <1>5 DEF Begin, Free, Request
  <2>5. UNCHANGED <<version, there>>
    BY <1>5 DEF Begin, worldVars
  <2>6. QED
    BY <2>2, <2>3, <2>4, <2>5 DEF Contract!Ask, Contract!Waiting
<1>6. ASSUME NEW p \in Proc, GetHit(p) PROVE Contract!Answer(p)
  <2> DEFINE e == entries[calls[p].key]
             c == Reply(p, "hit", e.ver, clock, e.putAt)
  <2>1. calls' = [calls EXCEPT ![p] = c] /\ UNCHANGED <<version, there>> /\ calls[p].pc = "get"
    BY <1>6 DEF GetHit, worldVars
  <2>2. c = calls'[p] /\ c \in Call /\ CallInv(calls[p])'
    BY <2>1 DEF TypeOK, SourceInv
  <2>3. CallInv(c)
    BY <2>1, <2>2 DEF CallInv
  <2>4. c.pc = "done" /\ c.outcome = "hit" /\ c.src = calls[p].src /\ c.since = calls[p].since
    BY DEF Reply
  <2> HIDE DEF c
  <2>5. QED
    BY <2>1, <2>2, <2>3, <2>4, AnswerAllowed DEF TypeOK, SourceInv
<1>7. ASSUME NEW p \in Proc, GetMiss(p) PROVE UNCHANGED Contract!vars
  <2> DEFINE c == [calls[p] EXCEPT !.pc = "read"]
  <2>1. calls' = [calls EXCEPT ![p] = c] /\ UNCHANGED <<version, there>> /\ calls[p].pc = "get"
    BY <1>7 DEF GetMiss, worldVars
  <2>2. Request(c) = Request(calls[p])
    BY <2>1 DEF Request, TypeOK, Call
  <2> HIDE DEF c
  <2>3. QED
    BY <2>1, <2>2, InvisibleMove DEF TypeOK
<1>8. ASSUME NEW p \in Proc, Read(p) PROVE Contract!Answer(p) \/ UNCHANGED Contract!vars
  <2>1. UNCHANGED <<version, there>> /\ calls[p].pc = "read"
    BY <1>8 DEF Read, worldVars
  <2>2. CASE calls[p].key = NoKey
    <3> DEFINE c == Reply(p, "parsed", version[calls[p].src], 0, 0)
    <3>1. calls' = [calls EXCEPT ![p] = c]
      BY <1>8, <2>2 DEF Read
    <3>2. c = calls'[p] /\ c \in Call /\ CallInv(calls[p])'
      BY <3>1 DEF TypeOK, SourceInv
    <3>3. CallInv(c)
      BY <2>1, <3>2 DEF CallInv
    <3>4. c.pc = "done" /\ c.outcome = "parsed" /\ c.src = calls[p].src /\ c.since = calls[p].since
      BY DEF Reply
    <3> HIDE DEF c
    <3>5. QED
      BY <2>1, <3>1, <3>2, <3>3, <3>4, AnswerAllowed DEF TypeOK, SourceInv
  <2>3. CASE calls[p].key # NoKey
    <3> DEFINE c == [calls[p] EXCEPT !.pc = "put", !.ver = version[calls[p].src]]
    <3>1. calls' = [calls EXCEPT ![p] = c]
      BY <1>8, <2>3 DEF Read
    <3>2. Request(c) = Request(calls[p])
      BY <2>1 DEF Request, TypeOK, Call
    <3> HIDE DEF c
    <3>3. QED
      BY <2>1, <3>1, <3>2, InvisibleMove DEF TypeOK
  <2>4. QED
    BY <2>2, <2>3
<1>9. ASSUME NEW p \in Proc, Put(p) PROVE Contract!Answer(p)
  <2> DEFINE c == Reply(p, "parsed", calls[p].ver, 0, 0)
  <2>1. calls' = [calls EXCEPT ![p] = c] /\ UNCHANGED <<version, there>> /\ calls[p].pc = "put"
    BY <1>9 DEF Put, worldVars
  <2>2. c = calls'[p] /\ c \in Call /\ CallInv(calls[p])'
    BY <2>1 DEF TypeOK, SourceInv
  <2>3. CallInv(c)
    BY <2>1, <2>2 DEF CallInv
  <2>4. c.pc = "done" /\ c.outcome = "parsed" /\ c.src = calls[p].src /\ c.since = calls[p].since
    BY DEF Reply
  <2> HIDE DEF c
  <2>5. QED
    BY <2>1, <2>2, <2>3, <2>4, AnswerAllowed DEF TypeOK, SourceInv
<1>10. CASE Tick \/ StartSweeper \/ Cancel \/ (\E g \in Gor : Sweeper(g)) \/ UNCHANGED vars
  BY <1>1, <1>10 DEF Tick, StartSweeper, Cancel, Sweeper, TickerFires, Sweep, Return, Exit,
                     vars, worldVars, cacheVars
<1>11. QED
  BY <1>2, <1>3, <1>4, <1>5, <1>6, <1>7, <1>8, <1>9, <1>10
     DEF Next, World, Resolve, Serve, Contract!Next, Contract!Source, Source

\* Handlers cannot tell the cache from a resolve that reads its source, for any
\* number of calls: every behaviour of the cache is one of the contract.
THEOREM CacheRefinesContract == Spec => ImplementsContract
<1>1. Spec => [](TypeOK /\ SourceInv)
  BY TypeCorrect, SourceInvariant, PTL
<1>2. QED
  BY <1>1, InitRefines, StepRefines, PTL DEF Spec, ImplementsContract, Contract!Spec

-------------------------------------------------------------------------------
(* The generated client: the types of its variables.                         *)

\* Every action moves a thread.
USE DEF Goto

\* Every step keeps the types.
LEMMA ClientTypes == ClientTypeOK /\ [ClientNext]_clientVars => ClientTypeOK'
<1> SUFFICES ASSUME ClientTypeOK, [ClientNext]_clientVars PROVE ClientTypeOK'
    OBVIOUS
<1> USE DurationAssumption DEF ClientTypeOK
<1>1. CASE UNCHANGED clientVars
    BY <1>1 DEF clientVars, discovery, refresh
<1>2. CASE TimePasses
    BY <1>2 DEF TimePasses, discovery, refresh
<1>3. ASSUME NEW t \in Threads, BeginCall(t) PROVE ClientTypeOK'
    <2>1. CASE BeginGet(t)     BY <2>1 DEF BeginGet, refresh
    <2>2. CASE BeginClear(t)   BY <2>2 DEF BeginClear, discovery, refresh
    <2>3. CASE BeginRequest(t) BY <2>3 DEF BeginRequest, discovery, refresh
    <2> QED BY <1>3, <2>1, <2>2, <2>3 DEF BeginCall
<1>4. ASSUME NEW t \in Threads, Acquire(t) PROVE ClientTypeOK'
    <2>1. CASE Check(t)      BY <2>1 DEF Check, Answer, Fresh, refresh
    <2>2. CASE Lock(t)       BY <2>2 DEF Lock, Answer, Fresh, refresh
    <2>3. CASE ClearCache(t) BY <2>3 DEF ClearCache, refresh
    <2>4. CASE Edit(t)       BY <2>4 DEF Edit, discovery
    <2> QED BY <1>4, <2>1, <2>2, <2>3, <2>4 DEF Acquire
<1>5. ASSUME NEW t \in Threads, Proceed(t) PROVE ClientTypeOK'
    <2>1. CASE ProviderServes(t)      BY <2>1 DEF ProviderServes, refresh
    <2>2. CASE Receive(t)    BY <2>2 DEF Receive, Answer, refresh
    <2>3. CASE FetchFails(t) BY <2>3 DEF FetchFails, Leave, refresh
    <2>4. CASE ReturnConfiguration(t)     BY <2>4 DEF ReturnConfiguration, Leave, refresh
    <2>5. CASE Redeem(t)
        <3>1. PICK lifetime \in Lifetimes :
                \/ /\ issued' = issued + 1
                   /\ valid' = (valid \ {sent[t]}) \cup {issued'}
                   /\ reply' = [reply EXCEPT ![t] = [refresh |-> issued', lifetime |-> lifetime]]
                \/ /\ reply' = [reply EXCEPT ![t] = [refresh |-> 0, lifetime |-> lifetime]]
                   /\ UNCHANGED <<issued, valid>>
            BY <2>5 DEF Redeem
        <3>2. issued' \in Nat /\ valid' \subseteq Nat
            <4>1. CASE UNCHANGED <<issued, valid>>
                BY <4>1
            <4>2. CASE issued' = issued + 1 /\ valid' = (valid \ {sent[t]}) \cup {issued'}
                <5>1. issued' \in Nat
                    BY <4>2
                <5> QED BY <4>2, <5>1
            <4> QED BY <3>1, <4>1, <4>2
        <3>3. reply' \in [Threads -> [refresh : Nat, lifetime : Nat]]
            BY <3>1
        <3> QED BY <2>5, <3>2, <3>3 DEF Redeem, discovery
    <2>6. CASE Refreshed(t)
        <3>1. token' \in [refresh : Nat, expiresAt : Nat]
            BY <2>6 DEF Refreshed, ExpiresAt
        <3>2. superseded' \subseteq Nat
            BY <2>6 DEF Refreshed
        <3> QED BY <2>6, <3>1, <3>2 DEF Refreshed, LeaveEditor, NoReply, discovery
    <2>7. CASE RefreshFails(t)
        BY <2>7 DEF RefreshFails, LeaveEditor, NoReply, discovery
    <2> QED BY <1>5, <2>1, <2>2, <2>3, <2>4, <2>5, <2>6, <2>7 DEF Proceed
<1> QED BY <1>1, <1>2, <1>3, <1>4, <1>5 DEF ClientNext

\* The types hold at the start.
LEMMA ClientInitTypes == ClientInit => ClientTypeOK
BY DurationAssumption DEF ClientInit, ClientTypeOK, NoReply

\* The variables of the cache, the editor, the provider and every thread have
\* the types the generated code gives them.
THEOREM ClientTypeCorrect == ClientSpec => []ClientTypeOK
BY ClientInitTypes, ClientTypes, PTL DEF ClientSpec

-------------------------------------------------------------------------------
(* The cached configuration.                                                 *)

\* A fetch happens under the write lock and only of a stale configuration, and
\* what is cached or on its way was served since the last ClearCache.
CacheInv ==
    /\ \A t \in Threads :
          /\ pc[t] \in {"fetch", "receive"} => configLock = t
          /\ pc[t] = "fetch" => ~Fresh
          /\ pc[t] = "receive" => got[t] = clears
          /\ pc[t] = "returned" => got[t] >= since[t]
          /\ since[t] <= clears
    /\ config # NoConfig => config.served = clears

\* The invariant of the cache holds at the start.
LEMMA CacheInit == ClientInit => CacheInv
BY DEF ClientInit, CacheInv

\* Every step keeps the invariant of the cache.
LEMMA CacheStep == ClientTypeOK /\ CacheInv /\ [ClientNext]_clientVars => CacheInv'
<1> SUFFICES ASSUME ClientTypeOK, CacheInv, [ClientNext]_clientVars PROVE CacheInv'
    OBVIOUS
<1> USE NobodyAssumption, DurationAssumption DEF ClientTypeOK, CacheInv
<1>1. CASE UNCHANGED clientVars
    BY <1>1 DEF clientVars, discovery, Fresh
<1>2. CASE TimePasses
    <2>1. Fresh' => Fresh
        BY <1>2 DEF TimePasses, discovery, Fresh
    <2> QED BY <1>2, <2>1 DEF TimePasses, discovery
<1>3. ASSUME NEW t \in Threads, BeginCall(t) PROVE CacheInv'
    BY <1>3 DEF BeginCall, BeginGet, BeginClear, BeginRequest, discovery, Fresh
<1>4. ASSUME NEW t \in Threads, Acquire(t) PROVE CacheInv'
    <2>1. CASE Check(t)      BY <2>1 DEF Check, Answer, Fresh
    <2>2. CASE Lock(t)       BY <2>2 DEF Lock, Answer, Fresh
    <2>3. CASE ClearCache(t) BY <2>3 DEF ClearCache, Fresh
    <2>4. CASE Edit(t)       BY <2>4 DEF Edit, discovery, Fresh
    <2> QED BY <1>4, <2>1, <2>2, <2>3, <2>4 DEF Acquire
<1>5. ASSUME NEW t \in Threads, Proceed(t) PROVE CacheInv'
    <2>1. CASE ProviderServes(t)      BY <2>1 DEF ProviderServes, Fresh
    <2>2. CASE Receive(t)    BY <2>2 DEF Receive, Answer, Fresh
    <2>3. CASE FetchFails(t) BY <2>3 DEF FetchFails, Leave, Fresh
    <2>4. CASE ReturnConfiguration(t)     BY <2>4 DEF ReturnConfiguration, Leave, Fresh
    <2>5. CASE Redeem(t)     BY <2>5 DEF Redeem, discovery, Fresh
    <2>6. CASE Refreshed(t)  BY <2>6 DEF Refreshed, LeaveEditor, discovery, Fresh
    <2>7. CASE RefreshFails(t)
        BY <2>7 DEF RefreshFails, LeaveEditor, discovery, Fresh
    <2> QED BY <1>5, <2>1, <2>2, <2>3, <2>4, <2>5, <2>6, <2>7 DEF Proceed
<1> QED BY <1>1, <1>2, <1>3, <1>4, <1>5 DEF ClientNext

\* Whichever fetch was under way while the cache was cleared, a call that begins
\* after ClearCache returned gets no configuration served before it.
THEOREM ClearedIsGone == ClientSpec => []ClearForgets
<1>1. CacheInv => ClearForgets
    BY DEF CacheInv, ClearForgets
<1> QED BY <1>1, CacheInit, CacheStep, ClientTypeCorrect, PTL DEF ClientSpec

\* The provider is asked only while no caller has brought a fresh configuration.
THEOREM OnlyStaleIsFetched == ClientSpec => FetchOnlyStale
<1>1. CacheInv /\ [ClientNext]_clientVars
        => [\A t \in Threads : pc[t] = "fetch" /\ pc'[t] = "receive" => ~Fresh]_clientVars
    BY DEF CacheInv
<1> QED BY <1>1, CacheInit, CacheStep, ClientTypeCorrect, PTL DEF ClientSpec, FetchOnlyStale

-------------------------------------------------------------------------------
(* The refresh tokens.                                                       *)

\* A refresh happens under the mutex, with the refresh token the client still
\* holds, which none of its answers has replaced; the provider numbers its
\* tokens, so the next is another one.
RefreshInv ==
    /\ superseded \subseteq 1..issued
    /\ token.refresh <= issued
    /\ token.refresh \notin superseded
    /\ \A t \in Threads :
          /\ pc[t] \in {"redeem", "redeemed"} =>
                tokenLock = t /\ sent[t] = token.refresh /\ sent[t] # 0
          /\ pc[t] = "redeemed" =>
                reply[t].refresh <= issued /\ reply[t].refresh \notin superseded \cup {sent[t]}

\* The invariant of the refresh tokens holds at the start.
LEMMA RefreshInit == ClientInit => RefreshInv
BY DEF ClientInit, RefreshInv

\* Every step keeps the invariant of the refresh tokens.
LEMMA RefreshStep == ClientTypeOK /\ RefreshInv /\ [ClientNext]_clientVars => RefreshInv'
<1> SUFFICES ASSUME ClientTypeOK, RefreshInv, [ClientNext]_clientVars PROVE RefreshInv'
    OBVIOUS
<1> USE NobodyAssumption, DurationAssumption DEF ClientTypeOK, RefreshInv
<1>1. CASE UNCHANGED clientVars
    BY <1>1 DEF clientVars, refresh
<1>2. CASE TimePasses
    BY <1>2 DEF TimePasses, refresh
<1>3. ASSUME NEW t \in Threads, BeginCall(t) PROVE RefreshInv'
    BY <1>3 DEF BeginCall, BeginGet, BeginClear, BeginRequest, refresh
<1>4. ASSUME NEW t \in Threads, Acquire(t) PROVE RefreshInv'
    <2>1. CASE Check(t)      BY <2>1 DEF Check, Answer, refresh
    <2>2. CASE Lock(t)       BY <2>2 DEF Lock, Answer, refresh
    <2>3. CASE ClearCache(t) BY <2>3 DEF ClearCache, refresh
    <2>4. CASE Edit(t)       BY <2>4 DEF Edit
    <2> QED BY <1>4, <2>1, <2>2, <2>3, <2>4 DEF Acquire
<1>5. ASSUME NEW t \in Threads, Proceed(t) PROVE RefreshInv'
    <2>1. CASE ProviderServes(t)      BY <2>1 DEF ProviderServes, refresh
    <2>2. CASE Receive(t)    BY <2>2 DEF Receive, Answer, refresh
    <2>3. CASE FetchFails(t) BY <2>3 DEF FetchFails, Leave, refresh
    <2>4. CASE ReturnConfiguration(t)     BY <2>4 DEF ReturnConfiguration, Leave, refresh
    <2>5. CASE Redeem(t)     BY <2>5 DEF Redeem
    <2>6. CASE Refreshed(t)
        <3>1. superseded' \subseteq 1..issued /\ issued' = issued
            <4>1. sent[t] \in Nat /\ sent[t] # 0 /\ sent[t] <= issued
                BY <2>6 DEF Refreshed
            <4>2. sent[t] \in 1..issued
                BY <4>1
            <4>3. superseded' \subseteq superseded \cup {sent[t]} /\ issued' = issued
                BY <2>6 DEF Refreshed, LeaveEditor
            <4> QED BY <4>2, <4>3
        <3>2. token'.refresh <= issued /\ token'.refresh \notin superseded'
            BY <2>6 DEF Refreshed
        <3>3. \A u \in Threads : pc'[u] \notin {"redeem", "redeemed"}
            <4>1. pc' = [pc EXCEPT ![t] = "idle"] /\ tokenLock = t
                BY <2>6 DEF Refreshed, LeaveEditor
            <4> QED BY <4>1
        <3> QED BY <3>1, <3>2, <3>3
    <2>7. CASE RefreshFails(t)
        BY <2>7 DEF RefreshFails, LeaveEditor
    <2> QED BY <1>5, <2>1, <2>2, <2>3, <2>4, <2>5, <2>6, <2>7 DEF Proceed
<1> QED BY <1>1, <1>2, <1>3, <1>4, <1>5 DEF ClientNext

\* A refresh token that the client holds a replacement for is never sent again,
\* whatever requests run together and whichever refreshes fail.
THEOREM RefreshTokensUsedOnce == ClientSpec => []RedeemedOnce
<1>1. RefreshInv => RedeemedOnce
    BY DEF RefreshInv, RedeemedOnce
<1> QED BY <1>1, RefreshInit, RefreshStep, ClientTypeCorrect, PTL DEF ClientSpec

\* The generated client uses nothing it has given up: no configuration from before
\* a ClearCache (oidc_discovery) and no refresh token that was replaced (oauth2).
THEOREM SpentIsNeverUsed == ClientSpec => []NothingSpentIsUsed
<1>1. ClearForgets /\ RedeemedOnce => NothingSpentIsUsed
    BY DEF NothingSpentIsUsed
<1> QED BY <1>1, ClearedIsGone, RefreshTokensUsedOnce, PTL

===============================================================================
