----------------------------- MODULE AckRegister -----------------------------
(***************************************************************************)
(* What the server that acknowledges an agent relies on: a register for    *)
(* the id it sent.  A request replaces the stored id at one moment, before *)
(* it is answered; a kill of the process loses the request and leaves the  *)
(* register as it is, either before or after that moment; and an agent     *)
(* that is up and not handling a request works with the stored id.         *)
(*                                                                         *)
(* GwSettings implements it for a process that is started once and whose   *)
(* database works, with an id copied half by half, a cache, a table and    *)
(* the statements between them.                                            *)
(***************************************************************************)
CONSTANTS Ids, NoId

VARIABLES
    stored,  \* the id that survives the process
    asked,   \* the id of the request being handled, if there is one
    up,      \* the agent has started
    works    \* the id the agent works with; none while a request is handled

register == <<stored, asked, up, works>>

Init == stored = NoId /\ asked = {} /\ up = FALSE /\ works = {}

\* The start of the agent, and its end at any moment.
Start ==
    /\ ~up /\ up' = TRUE
    /\ works' = {stored}
    /\ UNCHANGED <<stored, asked>>

Kill ==
    /\ up' = FALSE /\ asked' = {} /\ works' = {}
    /\ UNCHANGED stored

\* A request comes, is stored, and is answered.
Ask ==
    /\ up /\ asked = {}
    /\ \E id \in Ids : asked' = {id}
    /\ works' = {}
    /\ UNCHANGED <<stored, up>>

Keep ==
    /\ stored' \in asked
    /\ UNCHANGED <<asked, up, works>>

Answer ==
    /\ stored \in asked /\ asked' = {}
    /\ works' = {stored}
    /\ UNCHANGED <<stored, up>>

Next == Start \/ Kill \/ Ask \/ Keep \/ Answer

Spec == Init /\ [][Next]_register
=============================================================================
