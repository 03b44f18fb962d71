---------------------------- MODULE ServerLease ----------------------------
(***************************************************************************)
(* What every way of opening an MCP server in this code promises: one      *)
(* server process is started for one lease, it runs only while the         *)
(* lease is open and (strict isolation) its redirected HOME exists, and    *)
(* nothing of it is left when the lease ends, however it ends.             *)
(* McpClientFixture and McpTestClient implement this module.               *)
(***************************************************************************)

VARIABLES isolation,        \* "strict" or "passthrough", never written
          lease,            \* "idle", "pending", "held", "ending" or "ended"
          server,           \* "none", "running" or "gone"
          home              \* the isolation tempdir exists

vars == <<isolation, lease, server, home>>

Init ==
  /\ isolation \in {"strict", "passthrough"}
  /\ lease = "idle" /\ server = "none" /\ home = FALSE

(* Only strict isolation allocates a directory, before the lease is asked  *)
(* for or together with it.                                                *)
MakeHome ==
  /\ lease = "idle" /\ isolation = "strict"
  /\ home' = TRUE
  /\ UNCHANGED <<isolation, lease, server>>

Acquire ==
  /\ lease = "idle"
  /\ lease' = "pending"
  /\ home' \in {home, isolation = "strict"}
  /\ UNCHANGED <<isolation, server>>

Spawn ==
  /\ lease = "pending" /\ server = "none"
  /\ isolation = "strict" => home
  /\ server' = "running"
  /\ UNCHANGED <<isolation, lease, home>>

ServerExits ==
  /\ server = "running"
  /\ server' = "gone"
  /\ UNCHANGED <<isolation, lease, home>>

Grant ==
  /\ lease = "pending" /\ server # "none"
  /\ lease' = "held"
  /\ UNCHANGED <<isolation, server, home>>

(* The attempt failed, or the holder is done. *)
Release ==
  /\ lease \in {"pending", "held"}
  /\ lease' = "ending"
  /\ UNCHANGED <<isolation, server, home>>

(* A lease has ended only once no process runs. *)
End ==
  /\ lease = "ending" /\ server # "running"
  /\ lease' = "ended"
  /\ UNCHANGED <<isolation, server, home>>

DropHome ==
  /\ server # "running" /\ home
  /\ home' = FALSE
  /\ UNCHANGED <<isolation, lease, server>>

Next == MakeHome \/ Acquire \/ Spawn \/ ServerExits \/ Grant
        \/ Release \/ End \/ DropHome

Spec == Init /\ [][Next]_vars
=============================================================================
