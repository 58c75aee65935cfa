--------------------------- MODULE BackendContract ---------------------------
(***************************************************************************)
(* What a backend promises for one spawn (the Backend interface and the    *)
(* reading Execute makes of it): whether anything of the spawn that the    *)
(* backend can name may still exist follows from its answers.  A failed    *)
(* Spawn with an empty handle has rolled all of that back; one with a      *)
(* handle may have left something; a Teardown without an error has removed *)
(* the rest.                                                               *)
(***************************************************************************)
VARIABLES
    call,   \* the call under way: "none", "spawn" or "teardown"
    left,   \* something of the spawn that the backend can name exists
    said    \* the last answer

vars == <<call, left, said>>

CallSpawn ==
    /\ call = "none" /\ said = "nothing" /\ call' = "spawn"
    /\ UNCHANGED <<left, said>>

CallTeardown ==
    /\ call = "none" /\ said \in {"started", "partial", "failed"} /\ call' = "teardown"
    /\ UNCHANGED <<left, said>>

\* Only a Spawn adds to what exists; what is being deleted may go at any time.
Work ==
    /\ \/ call = "spawn" /\ left' \in BOOLEAN
       \/ left' = FALSE
    /\ UNCHANGED <<call, said>>

AnswerSpawn ==
    /\ call = "spawn" /\ call' = "none"
    /\ said' \in {"started", "partial", "rolledBack"}
    /\ said' = "rolledBack" => ~left'
    /\ left' \in BOOLEAN

AnswerTeardown ==
    /\ call = "teardown" /\ call' = "none"
    /\ said' \in {"removed", "failed"}
    /\ said' = "removed" => ~left'
    /\ left' => left
    /\ left' \in BOOLEAN

Init == call = "none" /\ left = FALSE /\ said = "nothing"

Next == CallSpawn \/ CallTeardown \/ Work \/ AnswerSpawn \/ AnswerTeardown

Spec == Init /\ [][Next]_vars

=============================================================================
