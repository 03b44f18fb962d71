-------------------------- MODULE CodegenHandshake --------------------------
(***************************************************************************)
(* _run_codegen_handshake, called by several tasks of one event loop: to   *)
(* learn the server's name each replaces ClientSession.initialize, for the *)
(* whole process, by a function that calls the one it replaced and keeps   *)
(* the result, enters a client, and puts back what it replaced.            *)
(*                                                                         *)
(* One action stands for the code between two awaits.  External: the       *)
(* client, as in McpTestClient: any await may raise or be cancelled, the   *)
(* spawn is not bounded in time and the rest is.                           *)
(***************************************************************************)
CONSTANT Callers          \* tasks, each with a server of its own

VARIABLES
  lock,       \* who holds _codegen_handshake_lock
  method,     \* ClientSession.initialize: the SDK's, or a caller's function
  original,   \* per caller: the method it replaced
  fills,      \* per caller: whose holder a call of its function fills
  calling,    \* per caller: whose holder the initialize it awaits will fill
  holder,     \* per caller: the server whose answer it kept
  info,       \* per caller: the server it returns
  pc

vars == <<lock, method, original, fills, calling, holder, info, pc>>

CONSTANTS Nobody, Sdk     \* no caller: a free lock, an empty holder; the SDK's method

ASSUME HandshakeAssumption == Nobody \notin Callers /\ Sdk \notin Callers

Window == {"spawning", "initializing", "listing", "unwinding"}
Ended == {"returned", "raised"}

TypeOK ==
  /\ lock \in Callers \union {Nobody} /\ method \in Callers \union {Sdk}
  /\ original \in [Callers -> Callers \union {Sdk}]
  /\ fills \in [Callers -> SUBSET Callers] /\ calling \in [Callers -> SUBSET Callers]
  /\ holder \in [Callers -> Callers \union {Nobody}]
  /\ info \in [Callers -> Callers \union {Nobody}]
  /\ pc \in [Callers -> {"waiting"} \union Window \union Ended]

Init ==
  /\ lock = Nobody /\ method = Sdk
  /\ original = [c \in Callers |-> Sdk]
  /\ fills = [c \in Callers |-> {}] /\ calling = [c \in Callers |-> {}]
  /\ holder = [c \in Callers |-> Nobody] /\ info = [c \in Callers |-> Nobody]
  /\ pc = [c \in Callers |-> "waiting"]

Goto(c, place) == pc' = [pc EXCEPT ![c] = place]

(* Whose holders a call of a method fills: the SDK's keeps nothing. *)
FilledBy(m) == IF m = Sdk THEN {} ELSE fills[m]

(* As if there were no lock. *)
AlwaysFree == TRUE

LockFree == lock = Nobody

(* The lock is taken, the method replaced and the client begun without an  *)
(* await in between.                                                       *)
Patch(c) ==
  /\ pc[c] = "waiting" /\ LockFree
  /\ lock' = c
  /\ original' = [original EXCEPT ![c] = method]
  /\ fills' = [fills EXCEPT ![c] = {c} \union FilledBy(method)]
  /\ method' = c
  /\ holder' = [holder EXCEPT ![c] = Nobody]
  /\ Goto(c, "spawning")
  /\ UNCHANGED <<calling, info>>

(* __aenter__ calls the method that is installed at that time. *)
CallInitialize(c) ==
  /\ pc[c] = "spawning"
  /\ calling' = [calling EXCEPT ![c] = FilledBy(method)]
  /\ Goto(c, "initializing")
  /\ UNCHANGED <<lock, method, original, fills, holder, info>>

(* The answer is kept, __aenter__ returns and the holder is read; an empty *)
(* one is a RuntimeError inside the client's scope.                        *)
Initialized(c) ==
  /\ pc[c] = "initializing"
  /\ holder' = [d \in Callers |-> IF d \in calling[c] THEN c ELSE holder[d]]
  /\ info' = [info EXCEPT ![c] = holder'[c]]
  /\ Goto(c, IF holder'[c] = Nobody THEN "unwinding" ELSE "listing")
  /\ UNCHANGED <<lock, method, original, fills, calling>>

Listed(c) ==
  /\ pc[c] = "listing"
  /\ Goto(c, "unwinding")
  /\ UNCHANGED <<lock, method, original, fills, calling, holder, info>>

(* An error, a timeout or a cancellation inside the window; what is        *)
(* returned is then nothing.                                               *)
Fails(c) ==
  /\ pc[c] \in {"spawning", "initializing", "listing"}
  /\ info' = [info EXCEPT ![c] = Nobody]
  /\ Goto(c, "unwinding")
  /\ UNCHANGED <<lock, method, original, fills, calling, holder>>

CancelWaiting(c) ==
  /\ pc[c] = "waiting"
  /\ Goto(c, "raised")
  /\ UNCHANGED <<lock, method, original, fills, calling, holder, info>>

(* As if the method were put back only after a success. *)
RestoreIfReturned(c) == method' = IF info[c] = Nobody THEN method ELSE original[c]

Restore(c) == method' = original[c]

(* As if the lock were released only after a success. *)
UnlockIfReturned(c) == lock' = IF info[c] = Nobody THEN lock ELSE Nobody

Unlock(c) == lock' = Nobody

(* The client is closed, which may raise or be cancelled whatever it held; *)
(* finally and the lock's exit then run without an await.                  *)
Leave(c) ==
  /\ pc[c] = "unwinding"
  /\ Restore(c) /\ Unlock(c)
  /\ Goto(c, "raised") \/ (info[c] # Nobody /\ Goto(c, "returned"))
  /\ UNCHANGED <<original, fills, calling, holder, info>>

-----------------------------------------------------------------------------
Next == \E c \in Callers :
          \/ Patch(c) \/ CallInitialize(c) \/ Initialized(c) \/ Listed(c)
          \/ Fails(c) \/ CancelWaiting(c) \/ Leave(c)

(* The lock is passed on, a handshake and a listing end by their timeout,  *)
(* a client that is left is closed; nothing bounds the spawn.              *)
Bounded(c) ==
  \/ Patch(c) \/ Leave(c)
  \/ pc[c] \in {"initializing", "listing"} /\ (Initialized(c) \/ Listed(c) \/ Fails(c))

Spec == Init /\ [][Next]_vars /\ \A c \in Callers : WF_vars(Bounded(c))

-----------------------------------------------------------------------------
(* A handshake that returns has the answer of its own server, and one      *)
(* whose server answered never misses the answer: "at most one handshake   *)
(* holds the patch at a time".                                             *)
CapturesOwn ==
  \A c \in Callers : /\ pc[c] = "initializing" => c \in calling[c]
                     /\ pc[c] \in {"listing", "returned"} => info[c] = c
                     /\ info[c] \in {c, Nobody}

(* The patch "does not leak across calls": with no handshake under way the *)
(* SDK's own method is in place, whatever failed or was cancelled.         *)
PatchUndone == (\A c \in Callers : pc[c] \notin Window) => method = Sdk

(* Handshakes queue and all come to an end, unless a spawn hangs: a        *)
(* cancelled or failed one passes the lock on.                             *)
AllEnd ==
  (\A c \in Callers : []<>(pc[c] # "spawning"))
    => \A c \in Callers : <>(pc[c] \in Ended)
=============================================================================
