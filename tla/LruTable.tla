---- MODULE LruTable ----
(***************************************************************************)
(* What README.md promises of a cache table: least-recently-used           *)
(* retention.  The table is the keys it holds and which of two was used    *)
(* more recently.  A client announces what it is about to do, and either   *)
(* does it to the table at once or fails and leaves the table alone.       *)
(***************************************************************************)
EXTENDS Naturals, FiniteSets

CONSTANTS
    Keys,      \* the keys, as numbers in the order of their text
    Clients,   \* those who use the table
    Limit      \* [Clients -> Nat]: how many keys each of them keeps

VARIABLES
    held,      \* the keys held
    newer,     \* the pairs of them of which the first was used more recently
    pending,   \* what each client is doing: [op, keys]
    reply      \* what each client was told last

table == <<held, newer>>
vars == <<table, pending, reply>>

Idle == [op |-> "none", keys |-> {}]

\* A strict total order.
Orders(order, all) ==
    /\ order \subseteq all \X all
    /\ \A j, k \in all : <<j, k>> \in order => <<k, j>> \notin order
    /\ \A j, k \in all : j = k \/ <<j, k>> \in order \/ <<k, j>> \in order
    /\ \A i, j, k \in all : <<i, j>> \in order /\ <<j, k>> \in order => <<i, k>> \in order

\* The order of a table of the keys `all` once the keys `used` are used at one
\* instant: they come before the others, and among each other the last one by
\* its text comes first.
Foremost(used, all) ==
    {p \in all \X all :
        IF p[1] \in used THEN p[2] \in used => p[1] > p[2] ELSE p[2] \notin used /\ p \in newer}

\* The first n keys of an order are kept.
Trim(all, order, n) ==
    /\ held' \subseteq all
    /\ Cardinality(held') = IF Cardinality(all) <= n THEN Cardinality(all) ELSE n
    /\ \A k \in held', l \in all \ held' : <<k, l>> \in order
    /\ newer' = order \cap (held' \X held')

Init ==
    /\ held \subseteq Keys /\ Orders(newer, held)
    /\ pending = [c \in Clients |-> Idle]
    /\ reply = [c \in Clients |-> "none"]

Announce(c) ==
    /\ pending[c] = Idle
    /\ pending'[c].keys \subseteq Keys
    /\ UNCHANGED table

Fail(c) ==
    /\ pending[c].op # "none"
    /\ pending'[c] = Idle /\ reply'[c] = "error"
    /\ UNCHANGED table

Put(c) ==
    /\ pending[c].op = "store"
    /\ LET all == held \cup pending[c].keys IN Trim(all, Foremost(pending[c].keys, all), Limit[c])
    /\ pending'[c] = Idle /\ reply'[c] = "ok"

\* Keys may be used one after the other, those that are held; the client is
\* told when all are.  A use that has ended leaves no keys.
Use(c) ==
    /\ pending[c].op = "use"
    /\ \E used \in SUBSET pending[c].keys :
          /\ held' = held /\ newer' = Foremost(used \cap held, held)
          /\ pending'[c].keys = pending[c].keys \ used
    /\ pending'[c].op = "use" \/ (pending'[c] = Idle /\ reply'[c] \in {"hit", "ok"})

Evict(c) == Trim(held, newer, Limit[c]) /\ UNCHANGED <<pending, reply>>

Next ==
    \E c \in Clients :
        /\ Announce(c) \/ Fail(c) \/ Put(c) \/ Use(c) \/ Evict(c)
        /\ \A d \in Clients \ {c} : pending'[d] = pending[d] /\ reply'[d] = reply[d]

Spec == Init /\ [][Next]_vars
====
