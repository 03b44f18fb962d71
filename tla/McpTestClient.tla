--------------------------- MODULE McpTestClient ---------------------------
(***************************************************************************)
(* `async with McpTestClient(...) as client', the short-lived client of    *)
(* the plugin's discovery, the preflight check and the CLI commands.       *)
(*                                                                         *)
(* __aenter__ pushes what it opens on an AsyncExitStack, innermost last,   *)
(* and unwinds it on any BaseException; __aexit__ unwinds it otherwise.    *)
(* One task runs all of it, but every await can end in an error, a timeout *)
(* or an interrupt (SIGINT cancels the task), also while unwinding.        *)
(***************************************************************************)
EXTENDS Sequences, SequencesExt

VARIABLES
  isolation, \* the host_isolation argument, never written
  pc,       \* where the caller's task stands
  stack,    \* the AsyncExitStack of the attempt or of the open client
  call,     \* the method awaited while calling
  bound,    \* self._stack and self._session are set
  exc,      \* the exception on its way to the caller
  server,   \* the MCP server process
  home      \* the tempdir of this client exists

vars == <<isolation, pc, stack, call, bound, exc, server, home>>

None == "none"
Resources == {"home", "stdio", "session"}
Calls == {"list_tools", "get_tool", "call_tool"}
Over == {"refused", "raised", "left"}

(* The order __aenter__ opens its resources in. *)
Opening == IF isolation = "strict" THEN <<"home", "stdio", "session">>
                                       ELSE <<"stdio", "session">>

TypeOK ==
  /\ isolation \in {"strict", "passthrough"}
  /\ pc \in {"new", "spawning", "entering", "initializing", "open", "calling",
             "unwinding"} \union Over
  /\ IsPrefix(stack, Opening)
  /\ call \in Calls \union {None} /\ (pc = "calling") = (call # None)
  /\ bound \in BOOLEAN
  /\ exc \in {None, "notOnPath", "spawn", "protocol", "timeout", "notFound",
              "interrupt"}
  /\ server \in {"none", "running", "gone"}
  /\ home \in BOOLEAN

Init ==
  /\ isolation \in {"strict", "passthrough"}
  /\ pc = "new" /\ stack = <<>> /\ call = None /\ bound = FALSE /\ exc = None
  /\ server = "none" /\ home = FALSE

-----------------------------------------------------------------------------
(* __aenter__                                                              *)

CommandMissing ==         \* shutil.which(command) is None
  /\ pc = "new"
  /\ pc' = "refused" /\ exc' = "notOnPath"
  /\ UNCHANGED <<isolation, call, stack, bound, server, home>>

(* As if the tempdir were pushed on the stack and never created. *)
BeginWithoutHome ==
  /\ pc = "new"
  /\ pc' = "spawning"
  /\ stack' = IF isolation = "strict" THEN <<"home">> ELSE <<>>
  /\ UNCHANGED <<isolation, call, bound, exc, server, home>>

(* The tempdir (strict only) goes on the stack before the spawn starts. *)
Begin ==
  /\ pc = "new"
  /\ pc' = "spawning"
  /\ home' = (isolation = "strict")
  /\ stack' = IF isolation = "strict" THEN <<"home">> ELSE <<>>
  /\ UNCHANGED <<isolation, call, bound, exc, server>>

SpawnOk ==
  /\ pc = "spawning"
  /\ pc' = "entering" /\ server' = "running"
  /\ stack' = Append(stack, "stdio")
  /\ UNCHANGED <<isolation, call, bound, exc, home>>

SessionEntered ==
  /\ pc = "entering"
  /\ pc' = "initializing"
  /\ stack' = Append(stack, "session")
  /\ UNCHANGED <<isolation, call, bound, exc, server, home>>

InitializeOk ==
  /\ pc = "initializing"
  /\ pc' = "open" /\ bound' = TRUE
  /\ UNCHANGED <<isolation, call, stack, exc, server, home>>

(* As if `except Exception' let an interrupt through. *)
CatchException(e) ==
  /\ pc' = IF e = "interrupt" THEN "raised" ELSE "unwinding"
  /\ exc' = e
  /\ UNCHANGED <<isolation, call, stack, bound, server, home>>

(* `except BaseException: await stack.aclose(); raise' *)
CatchBaseException(e) ==
  /\ pc' = "unwinding"
  /\ exc' = e
  /\ UNCHANGED <<isolation, call, stack, bound, server, home>>

(* Only initialize() is under asyncio.timeout; opening the scopes is not. *)
EnterFails ==
  \/ pc = "spawning" /\ \E e \in {"spawn", "interrupt"} : CatchBaseException(e)
  \/ pc = "entering" /\ CatchBaseException("interrupt")
  \/ pc = "initializing" /\ \E e \in {"protocol", "interrupt"} :
                               CatchBaseException(e)

(* As if initialize() were awaited without a bound. *)
NoInitializeTimeout == FALSE

InitializeTimeout == pc = "initializing" /\ CatchBaseException("timeout")

-----------------------------------------------------------------------------
(* The body of the async with: list_tools and call_tool, each under        *)
(* asyncio.timeout; an exception leaves the block through __aexit__.       *)

StartCall ==
  /\ pc = "open" /\ bound
  /\ pc' = "calling" /\ call' \in Calls
  /\ UNCHANGED <<isolation, stack, bound, exc, server, home>>

CallReturns ==
  /\ pc = "calling"
  /\ pc' = "open" /\ call' = None
  /\ UNCHANGED <<isolation, stack, bound, exc, server, home>>

(* __aexit__ forgets stack and session before it unwinds the stack. *)
Leave(e) ==
  /\ pc' = "unwinding" /\ exc' = e /\ bound' = FALSE /\ call' = None
  /\ UNCHANGED <<isolation, stack, server, home>>

LeaveBlock == pc = "open" /\ \E e \in {None, "interrupt"} : Leave(e)

(* An error answer, a connection closed by the server, an interrupt, or    *)
(* get_tool not finding the name in a list it fetches anew every time.     *)
CallFails ==
  /\ pc = "calling"
  /\ \E e \in {"protocol", "interrupt", "notFound"} :
       /\ e = "notFound" => call = "get_tool"
       /\ Leave(e)

CallTimeout == pc = "calling" /\ Leave("timeout")

-----------------------------------------------------------------------------
(* AsyncExitStack.aclose(): one exit callback after the other, last in     *)
(* first out; an exception in one replaces `exc' and the rest still run.   *)

CloseResource(r) ==
  /\ server' = IF r = "stdio" THEN "gone" ELSE server
  /\ home' = IF r = "home" THEN FALSE ELSE home

(* As if the stack were closed in the order it was filled. *)
UnwindFirst ==
  /\ stack # <<>>
  /\ CloseResource(Head(stack))
  /\ stack' = Tail(stack)

UnwindLast ==
  /\ stack # <<>>
  /\ CloseResource(Last(stack))
  /\ stack' = Front(stack)

Unwind ==
  /\ pc = "unwinding"
  /\ UnwindLast
  /\ exc' \in {exc, "interrupt"}
  /\ UNCHANGED <<isolation, call, pc, bound>>

Unwound ==
  /\ pc = "unwinding" /\ stack = <<>>
  /\ pc' = IF exc = None THEN "left" ELSE "raised"
  /\ UNCHANGED <<isolation, call, stack, bound, exc, server, home>>

ServerExits ==
  /\ server = "running"
  /\ server' = "gone"
  /\ UNCHANGED <<isolation, call, pc, stack, bound, exc, home>>

Finished == pc \in Over /\ UNCHANGED vars

Next ==
  \/ CommandMissing \/ Begin \/ SpawnOk \/ SessionEntered \/ InitializeOk
  \/ EnterFails \/ InitializeTimeout
  \/ StartCall \/ CallReturns \/ LeaveBlock \/ CallFails \/ CallTimeout
  \/ Unwind \/ Unwound \/ ServerExits \/ Finished

(* Timers fire and scopes are left in bounded time; the server need never  *)
(* answer, a spawn need never return and the caller decides when to leave. *)
Fairness ==
  /\ WF_vars(SessionEntered) /\ WF_vars(InitializeTimeout)
  /\ WF_vars(CallTimeout) /\ WF_vars(Unwind) /\ WF_vars(Unwound)

Spec == Init /\ [][Next]_vars /\ Fairness

-----------------------------------------------------------------------------
(* Properties.                                                             *)

(* Whatever raised, neither a server nor a tempdir of the client is left.  *)
NothingLeft == pc \in Over => server # "running" /\ ~home

(* "reverse-order unwind tears down the subprocess first, then deletes the *)
(* tempdir": under strict isolation no server runs without its HOME.       *)
HomeOutlivesServer ==
  isolation = "strict" /\ server = "running" => home

(* A handshake or a call always ends, in an answer or in an exception that *)
(* closes the client, although the server may never answer.                *)
CallsBounded ==
  /\ pc = "initializing" ~> pc \in {"open"} \union Over
  /\ pc = "calling" ~> pc # "calling"

(* The client is the other implementation of the lease on a server. *)
LeaseState ==
  CASE pc \in {"new", "refused"}                      -> "idle"
    [] pc \in {"spawning", "entering", "initializing"} -> "pending"
    [] pc \in {"open", "calling"}                      -> "held"
    [] pc = "unwinding"                                -> "ending"
    [] OTHER                                           -> "ended"

Lease == INSTANCE ServerLease WITH lease <- LeaseState

(* Every step of the client is a step of the lease or leaves it alone. *)
ImplementsLease == Lease!Spec
=============================================================================
