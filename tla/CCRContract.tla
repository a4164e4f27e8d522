---------------------------- MODULE CCRContract -----------------------------
(***************************************************************************)
(* What the CCR store promises its callers, without files, temporary names  *)
(* or program counters: a set of retrievable originals that grows by        *)
(* successful stores and shrinks by explicit retention only.                *)
(***************************************************************************)
CONSTANT Content

VARIABLES
    held,       \* originals with an object in the store
    acked,      \* originals whose caller was told they are stored
    bad         \* originals whose object Get reports as corrupt

TypeOK == held \subseteq Content /\ acked \subseteq held /\ bad \subseteq held

Init == held = {} /\ acked = {} /\ bad = {}

\* The original appears whole, and replaces a damaged copy.
Store(c) ==
    /\ held' = held \cup {c}
    /\ acked' = acked \cup {c}
    /\ bad' = bad \ {c}

\* Storing what is already there acknowledges it, damaged or not.
Acknowledge(c) ==
    /\ c \in held
    /\ acked' = acked \cup {c}
    /\ UNCHANGED <<held, bad>>

Evict(c) ==
    /\ held' = held \ {c}
    /\ acked' = acked \ {c}
    /\ bad' = bad \ {c}

Damage(c) ==
    /\ c \in held
    /\ bad' = bad \cup {c}
    /\ UNCHANGED <<held, acked>>

Next == \E c \in Content : Store(c) \/ Acknowledge(c) \/ Evict(c) \/ Damage(c)

Spec == Init /\ [][Next]_<<held, acked, bad>>
=============================================================================
