-------------------------- MODULE ResolveContract --------------------------
(***************************************************************************)
(* What specInput.resolve promises a tool handler, with no cache in sight: *)
(* a call that succeeds for a file returns the file as it was at some      *)
(* moment of the call; for a URL it returns something the URL has served,  *)
(* never the content of another source; inline content is returned as      *)
(* given; and a call that does not name one acceptable input fails.        *)
(***************************************************************************)
EXTENDS Naturals

CONSTANTS Proc, File, Url, Content, MaxVersion

Source == File \cup Url \cup Content

VARIABLES
    version,    \* version[s]: what source s holds now
    there,      \* there[s]: whether it can be read
    request     \* request[p]: the call of p and its outcome

vars == <<version, there, request>>

Waiting(p) == request[p].status = "waiting"

Init ==
    /\ version = [s \in Source |-> 0]
    /\ there \in [Source -> BOOLEAN]
    /\ \A p \in Proc : request[p].status = "free"
    /\ DOMAIN request = Proc

Change(s) ==
    /\ s \notin Content
    /\ version' = [version EXCEPT ![s] = @ + 1]
    /\ there' = [there EXCEPT ![s] = TRUE]
    /\ UNCHANGED request

Vanish(s) ==
    /\ s \notin Content
    /\ there' = [there EXCEPT ![s] = FALSE]
    /\ UNCHANGED <<version, request>>

Ask(p, s) ==
    /\ ~Waiting(p)
    /\ request' = [request EXCEPT ![p] =
         [status |-> "waiting", src |-> s, since |-> version[s], ver |-> 0]]
    /\ UNCHANGED <<version, there>>

Outcome(p, status, v) ==
    [status |-> status, src |-> request[p].src, since |-> request[p].since, ver |-> v]

\* The versions a call may be answered with.
Answers(p) ==
    LET s == request[p].src IN
    IF s \in File THEN request[p].since..version[s]
    ELSE IF s \in Url THEN 0..version[s]
    ELSE {0}

Answer(p) ==
    /\ Waiting(p)
    /\ \E v \in Answers(p) :
         request' = [request EXCEPT ![p] = Outcome(p, "answered", v)]
    /\ UNCHANGED <<version, there>>

Fail(p) ==
    /\ request' = [request EXCEPT ![p] = Outcome(p, "failed", 0)]
    /\ UNCHANGED <<version, there>>

Next ==
    \/ \E s \in Source : Change(s) \/ Vanish(s)
    \/ \E p \in Proc : Answer(p) \/ Fail(p) \/ \E s \in Source : Ask(p, s)

Spec == Init /\ [][Next]_vars
=============================================================================
