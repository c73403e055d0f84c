---- MODULE ArtifactRegister ----
(***************************************************************************)
(* What WriteFile promises: "atomically writes relative under root.        *)
(* Existing identical content is reused; differing content requires        *)
(* Force", and a call that fails changes nothing.                          *)
(***************************************************************************)
CONSTANTS
    Callers,    \* the calls
    Requests,   \* the requests a call may make: [data, force]
    Contents,   \* the contents
    Vacant      \* the register holds nothing

VARIABLES
    request,    \* the arguments of each call
    reply,      \* what each call returned, "none" before
    value       \* the content held

vars == <<request, reply, value>>

Init ==
    /\ request \in [Callers -> Requests]
    /\ reply = [c \in Callers |-> "none"]
    /\ value \in Contents \cup {Vacant}

Answer(c, r) == reply[c] = "none" /\ reply' = [reply EXCEPT ![c] = r]

Store(c) ==
    /\ request[c].force \/ value = Vacant
    /\ value' = request[c].data
    /\ Answer(c, "ok")

Reuse(c) == value = request[c].data /\ Answer(c, "reused") /\ UNCHANGED value

Collide(c) ==
    /\ ~request[c].force
    /\ value \notin {Vacant, request[c].data}
    /\ Answer(c, "collision")
    /\ UNCHANGED value

Refuse(c) == Answer(c, "error") /\ UNCHANGED value

Next ==
    /\ UNCHANGED request
    /\ \E c \in Callers : Store(c) \/ Reuse(c) \/ Collide(c) \/ Refuse(c)

Spec == Init /\ [][Next]_vars
====
