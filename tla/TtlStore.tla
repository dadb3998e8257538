------------------------------ MODULE TtlStore ------------------------------
(***************************************************************************)
(* What the response cache promises its callers, with no LRU list, no lock *)
(* and no sweeper: a store that may forget anything at any time, but that  *)
(* answers a call only with the response stored last for the call's key,   *)
(* only if that response was within its lifetime when the call began, and  *)
(* that says "unknown" only when it holds nothing fresh for the key.       *)
(***************************************************************************)
EXTENDS Naturals

CONSTANTS Keys, Callers, Messages, None,
          Lifetime(_)      \* ticks a response may be used once received

VARIABLES clock,
          store,           \* key -> [response, expires_at], a partial function
          call,            \* call[c]: the call c is in, [key, now, response]
          answer           \* answer[c]: the response c's last lookup got

vars == <<clock, store, call, answer>>

Init ==
    /\ clock = 0
    /\ store = <<>>
    /\ call = [c \in Callers |-> None]
    /\ answer = [c \in Callers |-> None]

\* A lookup (m = None) or an insert of m begins; it happens at this moment.
Begin(c, k, m) ==
    /\ call[c] = None
    /\ call' = [call EXCEPT ![c] = [key |-> k, now |-> clock, response |-> m]]
    /\ UNCHANGED <<clock, store, answer>>

Put(c) ==
    LET k == call[c].key
        m == call[c].response
    IN  /\ call[c] # None /\ m # None
        /\ store' = [j \in DOMAIN store \cup {k} |->
                        IF j = k THEN [response |-> m, expires_at |-> call[c].now + Lifetime(m)]
                                 ELSE store[j]]
        /\ call' = [call EXCEPT ![c] = None]
        /\ UNCHANGED <<clock, answer>>

Hit(c) ==
    /\ call[c] # None /\ call[c].response = None
    /\ call[c].key \in DOMAIN store /\ call[c].now < store[call[c].key].expires_at
    /\ answer' = [answer EXCEPT ![c] = store[call[c].key].response]
    /\ call' = [call EXCEPT ![c] = None]
    /\ UNCHANGED <<clock, store>>

Miss(c) ==
    LET k == call[c].key
    IN  /\ call[c] # None /\ call[c].response = None
        /\ k \in DOMAIN store => store[k].expires_at <= call[c].now
        /\ store' = [j \in DOMAIN store \ {k} |-> store[j]]
        /\ answer' = [answer EXCEPT ![c] = None]
        /\ call' = [call EXCEPT ![c] = None]
        /\ UNCHANGED clock

Forget ==
    /\ \E S \in SUBSET DOMAIN store : store' = [j \in S |-> store[j]]
    /\ UNCHANGED <<clock, call, answer>>

Tick == clock' = clock + 1 /\ UNCHANGED <<store, call, answer>>

Next ==
    \/ \E c \in Callers, k \in Keys, m \in Messages \cup {None} : Begin(c, k, m)
    \/ \E c \in Callers : Put(c) \/ Hit(c) \/ Miss(c)
    \/ Forget \/ Tick

Spec == Init /\ [][Next]_vars
=============================================================================
