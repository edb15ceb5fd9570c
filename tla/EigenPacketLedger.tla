-------------------------- MODULE EigenPacketLedger --------------------------
(***************************************************************************)
(* What the packet tracker promises the service: a packet that is sent, or *)
(* announced by a response, waits until it is decided, and is decided      *)
(* once; a response is credited to one packet that waits, or counted as    *)
(* one nobody asked for; a packet is repeated, and given up, only as a     *)
(* retry setting allows.  Nothing is said of the order of the packets, of  *)
(* time, or of what responses look like.                                   *)
(***************************************************************************)
EXTENDS Naturals

CONSTANTS
  Modules,        \* the modules that respond
  RetrySettings,  \* how often a packet may be repeated
  MaxSent         \* bound: packets tracked

VARIABLES
  waiting,        \* the packets that are not decided
  sent, success, dropped, forgotten, retried,
  unmatched       \* responses that were credited to no packet

verdicts == <<success, dropped, forgotten>>
vars == <<waiting, sent, verdicts, retried, unmatched>>

\* A packet nobody has answered.
New(n, repeatable, expects) ==
  [id |-> n, repeatable |-> repeatable, expects |-> expects, retries |-> 0, from |-> {}]

Init ==
  /\ waiting = {} /\ sent = 0
  /\ success = 0 /\ dropped = 0 /\ forgotten = 0
  /\ retried = 0 /\ unmatched = 0

Send ==
  /\ sent < MaxSent
  /\ \E expects \in BOOLEAN : waiting' = waiting \cup {New(sent + 1, TRUE, expects)}
  /\ sent' = sent + 1
  /\ UNCHANGED <<verdicts, retried, unmatched>>

Announced(n) == {New(i, FALSE, TRUE) : i \in sent + 1 .. sent + n}

\* A response announces n others.
Credit(m) ==
  \E n \in 0 .. MaxSent - sent : \E w \in waiting :
    /\ m \notin w.from
    /\ waiting' = ((waiting \ {w}) \cup {[w EXCEPT !.from = @ \cup {m}]}) \cup Announced(n)
    /\ sent' = sent + n
    /\ UNCHANGED <<verdicts, retried, unmatched>>

Reject ==
  \E n \in 0 .. MaxSent - sent :
    /\ waiting' = waiting \cup Announced(n)
    /\ sent' = sent + n
    /\ unmatched' = unmatched + 1
    /\ UNCHANGED <<verdicts, retried>>

\* No response came to a packet that waits for one.
Missing(w) == w.expects /\ w.from = {}

Repeat(w) ==
  /\ Missing(w) /\ w.repeatable
  /\ \E r \in RetrySettings : w.retries < r
  /\ waiting' = (waiting \ {w}) \cup {[w EXCEPT !.retries = @ + 1]}
  /\ retried' = retried + 1
  /\ UNCHANGED <<sent, verdicts, unmatched>>

Decide(w) ==
  /\ waiting' = waiting \ {w}
  /\ UNCHANGED <<sent, retried, unmatched>>

Succeed(w) ==
  /\ ~ Missing(w)
  /\ Decide(w)
  /\ success' = success + 1
  /\ UNCHANGED <<dropped, forgotten>>

Drop(w) ==
  /\ Missing(w)
  /\ \E r \in RetrySettings : w.retries >= r
  /\ Decide(w)
  /\ dropped' = dropped + 1
  /\ UNCHANGED <<success, forgotten>>

\* It cannot be repeated.
Forget(w) ==
  /\ Missing(w) /\ ~ w.repeatable
  /\ Decide(w)
  /\ forgotten' = forgotten + 1
  /\ UNCHANGED <<success, dropped>>

Next ==
  \/ Send \/ Reject
  \/ \E m \in Modules : Credit(m)
  \/ \E w \in waiting : Repeat(w) \/ Succeed(w) \/ Drop(w) \/ Forget(w)

Spec == Init /\ [][Next]_vars
=============================================================================
