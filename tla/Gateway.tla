------------------------------ MODULE Gateway ------------------------------
(***************************************************************************)
(* The calls a gateway makes to the rotator's webhook for one secret, up   *)
(* to what a target does in them.  Modules that model targets extend this  *)
(* one and say what happens between Start and Deliver.                     *)
(*                                                                         *)
(* The rotator keeps nothing between calls.  All it knows about the secret *)
(* is the payload the gateway sends, and all it leaves behind is the       *)
(* payload it returns.  The gateway gives up on a slow call, drops the     *)
(* connection, and may call again while the first call still runs.         *)
(***************************************************************************)

CONSTANTS
    Calls,      \* the webhook calls of a behaviour, each made once, but for
                \* revocations of leases
    Serial      \* TRUE: the gateway waits for one call at a time

ASSUME GatewayAssumption == Serial \in BOOLEAN

VARIABLES
    store,      \* the payload in the gateway's store
    pc,         \* where each call is
    old,        \* the payload each call was sent
    new,        \* the payload each call is going to return
    awaited,    \* whether the gateway still waits for each call
    cancelled   \* whether the context of each call is cancelled

gatewayVars == <<store, pc, old, new, awaited, cancelled>>

-----------------------------------------------------------------------------

Ended == {"stored", "acknowledged", "lost", "failed", "dead"}

Running(c) == pc[c] \notin {"idle"} \union Ended

GatewayInit(blank) ==
    /\ pc = [c \in Calls |-> "idle"]
    /\ old = [c \in Calls |-> blank]
    /\ new = [c \in Calls |-> blank]
    /\ awaited = [c \in Calls |-> FALSE]
    /\ cancelled = [c \in Calls |-> FALSE]

End(c, outcome) ==
    /\ pc' = [pc EXCEPT ![c] = outcome]
    /\ awaited' = [awaited EXCEPT ![c] = FALSE]

-----------------------------------------------------------------------------
\* The gateway calls, and the handler dispatches.

\* The gateway posts the stored payload to /sync/rotate or /sync/revoke; the
\* handler lets it in, finds the target and starts its method at the given stage.
Start(c, stage) ==
    /\ pc[c] = "idle"
    /\ Serial => \A d \in Calls : ~awaited[d]
    /\ old' = [old EXCEPT ![c] = store]
    /\ awaited' = [awaited EXCEPT ![c] = TRUE]
    /\ pc' = [pc EXCEPT ![c] = stage]
    /\ UNCHANGED <<store, new, cancelled>>

\* The caller is not let in, or the payload is not usable: an error, at once.
Refuse(c) ==
    /\ pc[c] = "idle"
    /\ End(c, "failed")
    /\ UNCHANGED <<store, old, new, cancelled>>

\* The gateway's timeout, or a broken connection.
GiveUp(c) ==
    /\ awaited[c]
    /\ awaited' = [awaited EXCEPT ![c] = FALSE]
    /\ UNCHANGED <<store, pc, old, new, cancelled>>

\* net/http cancels the request's context some time after the gateway left.
NoticeLeft(c) ==
    /\ Running(c)
    /\ ~awaited[c]
    /\ ~cancelled[c]
    /\ cancelled' = [cancelled EXCEPT ![c] = TRUE]
    /\ UNCHANGED <<store, pc, old, new, awaited>>

-----------------------------------------------------------------------------
\* Inside a target's Rotate or Revoke.

\* On to another stage, with the payload to return.
GoOn(c, stage, payload) ==
    /\ pc' = [pc EXCEPT ![c] = stage]
    /\ new' = [new EXCEPT ![c] = payload]
    /\ UNCHANGED <<store, old, awaited, cancelled>>

\* The method returns an error.
Fail(c) ==
    /\ End(c, "failed")
    /\ UNCHANGED <<store, old, new, cancelled>>

\* The rotator's process ends with the call in it.
Die(c) ==
    /\ Running(c)
    /\ End(c, "dead")
    /\ UNCHANGED <<store, old, new, cancelled>>

-----------------------------------------------------------------------------
\* The method has returned.

\* Mutant: the answer to a call the gateway has given up on is stored as well.
DeliverLate(c) ==
    /\ pc[c] = "reply"
    /\ store' = new[c]
    /\ End(c, "stored")
    /\ UNCHANGED <<old, new, cancelled>>

\* The new payload reaches the gateway, which stores it.
Deliver(c) ==
    /\ pc[c] = "reply"
    /\ awaited[c]
    /\ store' = new[c]
    /\ End(c, "stored")
    /\ UNCHANGED <<old, new, cancelled>>

\* The answer to a revocation reaches the gateway; it holds no payload.
Acknowledge(c) ==
    /\ pc[c] = "reply"
    /\ awaited[c]
    /\ End(c, "acknowledged")
    /\ UNCHANGED <<store, old, new, cancelled>>

\* Nobody is there to take the answer: the new payload is gone.
Drop(c) ==
    /\ pc[c] = "reply"
    /\ ~awaited[c]
    /\ End(c, "lost")
    /\ UNCHANGED <<store, old, new, cancelled>>

=============================================================================
