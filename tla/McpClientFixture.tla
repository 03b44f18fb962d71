-------------------------- MODULE McpClientFixture --------------------------
(***************************************************************************)
(* The session-scoped mcp_client fixture of fixtures.py with the           *)
(* _isolated_home fixture it depends on.                                   *)
(*                                                                         *)
(* Two asyncio tasks share one event loop.  The fixture BODY starts an     *)
(* OWNER task, waits for a client on the future `ready', yields it to the  *)
(* tests and, at teardown, sets `shutdown' and waits for the owner.  The   *)
(* OWNER opens stdio_client and ClientSession, initializes the session,    *)
(* resolves `ready' and keeps both scopes open until `shutdown'.  Every    *)
(* await is a point where the other task, a timer or an interrupt runs.    *)
(*                                                                         *)
(* The MCP SDK and asyncio are outside the repository: the owner's actions *)
(* take from them what fixtures.py relies on (leaving stdio_client ends    *)
(* the server; a requested cancellation is raised at the next await; task  *)
(* groups may wrap the exception that passes through them).                *)
(***************************************************************************)

VARIABLES
  isolation,  \* mcp_config.host_isolation, never written
  body,       \* where the fixture generator stands
  owner,      \* where the owner task stands
  ready,      \* the future: "pending", "result", "exception" or "cancelled"
  readyExc,   \* the exception `ready' holds
  shutdown,   \* the event is set
  cancelling, \* owner.cancel() was called and not yet raised in the owner
  wake,       \* what cancels the body's wait_for: "none", "timeout", "interrupt"
  raised,     \* the exception the fixture raises to pytest
  ownerExc,   \* the exception travelling through the owner's scopes
  firstExc,   \* history: the first exception raised in the owner
  server,     \* the MCP server process
  home        \* the _isolated_home directory exists

bodyVars   == <<body, wake, raised>>
ownerVars  == <<owner, ownerExc, firstExc>>
readyVars  == <<ready, readyExc>>
vars == <<isolation, bodyVars, ownerVars, readyVars, shutdown, cancelling,
          server, home>>

None == "none"

OwnerErrors == {"spawn", "initialize", "initTimeout", "cancelled", "sdkTask",
                "invalidState"}
Exceptions == {None, "wrapped"} \union OwnerErrors
Ended == {"failed", "closed", "closeError"}

TypeOK ==
  /\ isolation \in {"strict", "passthrough"}
  /\ body \in {"idle", "homed", "awaitReady", "reaping", "yielded",
               "awaitOwner"} \union Ended
  /\ owner \in {"absent", "created", "spawning", "initializing", "serving",
                "exitSession", "exitStdio", "ended"}
  /\ ready \in {"pending", "result", "exception", "cancelled"}
  /\ readyExc \in Exceptions
  /\ shutdown \in BOOLEAN
  /\ cancelling \in BOOLEAN
  /\ wake \in {None, "timeout", "interrupt"}
  /\ raised \in Exceptions \union {"setupTimeout", "interrupt"}
  /\ ownerExc \in Exceptions
  /\ firstExc \in Exceptions
  /\ server \in {"none", "running", "gone"}
  /\ home \in BOOLEAN
  /\ (ready = "exception") = (readyExc # None)

Init ==
  /\ isolation \in {"strict", "passthrough"}
  /\ body = "idle" /\ wake = None /\ raised = None
  /\ owner = "absent" /\ ownerExc = None /\ firstExc = None
  /\ ready = "pending" /\ readyExc = None
  /\ shutdown = FALSE /\ cancelling = FALSE
  /\ server = "none" /\ home = FALSE

-----------------------------------------------------------------------------
(* The future handed from owner to body.                                   *)

(* As if the future were settled without its exception. *)
SettleBlank(e) ==
  IF ready = "pending" THEN ready' = "exception" /\ UNCHANGED readyExc
                       ELSE UNCHANGED readyVars

(* `if not ready.done(): ready.set_exception(exc)' *)
SettleExc(e) ==
  IF ready = "pending" THEN ready' = "exception" /\ readyExc' = e
                       ELSE UNCHANGED readyVars

(* As if wait_for held `ready' itself and its expiry cancelled it. *)
Unshielded ==
  IF ready = "pending" THEN ready' = "cancelled" /\ UNCHANGED readyExc
                       ELSE UNCHANGED readyVars

(* What the timer or an interrupt does to `ready': nothing, the shield's   *)
(* outer future takes the cancellation.                                    *)
CancelWaiter == UNCHANGED readyVars

CancelOwner == cancelling' = (owner # "ended")

-----------------------------------------------------------------------------
(* Owner task.                                                             *)

(* A requested cancellation is raised before anything else the owner does. *)
OwnerRuns == ~cancelling

OwnerStart ==
  /\ owner = "created" /\ OwnerRuns
  /\ owner' = "spawning"
  /\ UNCHANGED <<isolation, bodyVars, readyVars, ownerExc, firstExc, shutdown, cancelling,
                 server, home>>

(* stdio_client and ClientSession are entered; the server runs. *)
SpawnOk ==
  /\ owner = "spawning" /\ OwnerRuns
  /\ owner' = "initializing" /\ server' = "running"
  /\ UNCHANGED <<isolation, bodyVars, readyVars, ownerExc, firstExc, shutdown, cancelling,
                 home>>

(* stdio_client raises before any scope is open: the outer except settles  *)
(* the future and the task ends.                                           *)
SpawnFails ==
  /\ owner = "spawning" /\ OwnerRuns
  /\ owner' = "ended" /\ ownerExc' = "spawn" /\ firstExc' = "spawn"
  /\ SettleExc("spawn")
  /\ UNCHANGED <<isolation, bodyVars, shutdown, cancelling, server, home>>

(* initialize() answered and the client is wrapped: ready.set_result, which *)
(* raises InvalidStateError on a future already settled.                   *)
InitializeOk ==
  /\ owner = "initializing" /\ OwnerRuns
  /\ IF ready = "pending"
     THEN /\ owner' = "serving" /\ ready' = "result"
          /\ UNCHANGED <<ownerExc, firstExc, readyExc>>
     ELSE /\ owner' = "exitSession"
          /\ ownerExc' = "invalidState" /\ firstExc' = "invalidState"
          /\ UNCHANGED readyVars
  /\ UNCHANGED <<isolation, bodyVars, shutdown, cancelling, server, home>>

(* As if only the outer except settled `ready'. *)
InitRaisesLate(e) ==
  /\ owner' = "exitSession" /\ ownerExc' = e
  /\ firstExc' = e
  /\ UNCHANGED <<isolation, bodyVars, readyVars, shutdown, server, home>>

(* Inside initialize(): the inner except settles `ready' BEFORE the scopes *)
(* unwind, so the body wakes while the owner is still in them.             *)
InitRaises(e) ==
  /\ owner' = "exitSession" /\ ownerExc' = e
  /\ firstExc' = e
  /\ SettleExc(e)
  /\ UNCHANGED <<isolation, bodyVars, shutdown, server, home>>

InitializeFails ==        \* an error answer, or a connection closed by the server
  /\ owner = "initializing" /\ OwnerRuns
  /\ \E e \in {"initialize", "sdkTask"} : InitRaises(e)
  /\ UNCHANGED cancelling

InitializeTimesOut ==     \* anyio.fail_after
  /\ owner = "initializing" /\ OwnerRuns
  /\ InitRaises("initTimeout")
  /\ UNCHANGED cancelling

(* `await shutdown.wait()' returns. *)
ServingEnds ==
  /\ owner = "serving" /\ OwnerRuns /\ shutdown
  /\ owner' = "exitSession"
  /\ UNCHANGED <<isolation, bodyVars, readyVars, ownerExc, firstExc, shutdown, cancelling,
                 server, home>>

(* A background task of the SDK fails while the tests use the client: its  *)
(* task group cancels the host task at `await shutdown.wait()'.            *)
ServingBreaks ==
  /\ owner = "serving" /\ OwnerRuns
  /\ owner' = "exitSession" /\ ownerExc' = "sdkTask" /\ firstExc' = "sdkTask"
  /\ UNCHANGED <<isolation, bodyVars, readyVars, shutdown, cancelling, server, home>>

(* CancelledError raised at the owner's await.  Before the first step the  *)
(* coroutine never enters its try, so `ready' stays unsettled; while a     *)
(* scope is being left, the task group absorbs it and raises it at its end.*)
RaiseCancelled ==
  /\ cancelling
  /\ cancelling' = FALSE
  /\ \/ /\ owner = "created"
        /\ owner' = "ended" /\ ownerExc' = "cancelled" /\ firstExc' = "cancelled"
        /\ UNCHANGED <<isolation, bodyVars, readyVars, shutdown, server, home>>
     \/ /\ owner = "spawning"
        /\ owner' = "ended" /\ ownerExc' = "cancelled" /\ firstExc' = "cancelled"
        /\ SettleExc("cancelled")
        /\ UNCHANGED <<isolation, bodyVars, shutdown, server, home>>
     \/ /\ owner = "initializing"
        /\ InitRaises("cancelled")
     \/ /\ owner = "serving"
        /\ owner' = "exitSession" /\ ownerExc' = "cancelled"
        /\ firstExc' = "cancelled"
        /\ UNCHANGED <<isolation, bodyVars, readyVars, shutdown, server, home>>
     \/ /\ owner \in {"exitSession", "exitStdio"}
        /\ ownerExc' = IF ownerExc = None THEN "cancelled" ELSE ownerExc
        /\ firstExc' = IF firstExc = None THEN "cancelled" ELSE firstExc
        /\ UNCHANGED <<isolation, bodyVars, readyVars, owner, shutdown, server, home>>

(* What an exception becomes on its way out of an SDK scope; leaving one   *)
(* may also raise where nothing had been raised.                           *)
Unwind ==
  /\ ownerExc' \in {ownerExc, "wrapped"}
  /\ firstExc' = IF firstExc = None THEN ownerExc' ELSE firstExc

LeaveSession ==
  /\ owner = "exitSession" /\ OwnerRuns
  /\ owner' = "exitStdio"
  /\ Unwind
  /\ UNCHANGED <<isolation, bodyVars, readyVars, shutdown, cancelling, server, home>>

(* Leaving stdio_client ends the server; the outer except settles `ready'  *)
(* with what is left of the exception when nothing has settled it.         *)
LeaveStdio ==
  /\ owner = "exitStdio" /\ OwnerRuns
  /\ owner' = "ended" /\ server' = "gone"
  /\ Unwind
  /\ IF ownerExc' = None THEN UNCHANGED readyVars ELSE SettleExc(ownerExc')
  /\ UNCHANGED <<isolation, bodyVars, shutdown, cancelling, home>>

OwnerStep ==
  \/ OwnerStart \/ SpawnOk \/ SpawnFails
  \/ InitializeOk \/ InitializeFails \/ InitializeTimesOut
  \/ ServingEnds \/ ServingBreaks \/ RaiseCancelled
  \/ LeaveSession \/ LeaveStdio

-----------------------------------------------------------------------------
(* Fixture body, and the pytest runner that drives it.                     *)

(* _isolated_home: a TemporaryDirectory under strict isolation, else None. *)
SetupHome ==
  /\ body = "idle"
  /\ body' = "homed" /\ home' = (isolation = "strict")
  /\ UNCHANGED <<isolation, wake, raised, ownerVars, readyVars, shutdown, cancelling,
                 server>>

StartOwner ==
  /\ body = "homed"
  /\ body' = "awaitReady" /\ owner' = "created"
  /\ UNCHANGED <<isolation, wake, raised, ownerExc, firstExc, readyVars, shutdown,
                 cancelling, server, home>>

(* The timer of wait_for(shield(ready), timeout + 5), or the KeyboardInterrupt *)
(* that cancels the fixture's task, reaches the body even if `ready' is    *)
(* settled by the time the body runs again.                                *)
AbortWait(why) ==
  /\ body = "awaitReady" /\ wake = None
  /\ wake' = why
  /\ CancelWaiter
  /\ UNCHANGED <<isolation, body, raised, ownerVars, shutdown, cancelling, server, home>>

(* As if the future were awaited without a bound. *)
NoReadyTimeout == FALSE

ReadyTimeout == AbortWait("timeout")

(* As if the cancelled owner were not awaited. *)
GiveUpAtOnce(e) ==
  /\ body' = "failed" /\ raised' = e
  /\ CancelOwner

(* `except BaseException: owner.cancel()', then the owner is awaited. *)
GiveUp(e) ==
  /\ body' = "reaping" /\ raised' = e
  /\ CancelOwner

BodyAborts ==
  /\ body = "awaitReady" /\ wake # None
  /\ GiveUp(IF wake = "timeout" THEN "setupTimeout" ELSE "interrupt")
  /\ UNCHANGED <<isolation, wake, ownerVars, readyVars, shutdown, server, home>>

BodyGetsClient ==
  /\ body = "awaitReady" /\ wake = None /\ ready = "result"
  /\ body' = "yielded"
  /\ UNCHANGED <<isolation, wake, raised, ownerVars, readyVars, shutdown, cancelling,
                 server, home>>

BodyGetsError ==
  /\ body = "awaitReady" /\ wake = None /\ ready = "exception"
  /\ GiveUp(readyExc)
  /\ UNCHANGED <<isolation, wake, ownerVars, readyVars, shutdown, server, home>>

Reaped ==
  /\ body = "reaping" /\ owner = "ended"
  /\ body' = "failed"
  /\ UNCHANGED <<isolation, wake, raised, ownerVars, readyVars, shutdown, cancelling,
                 server, home>>

(* pytest finalizes the fixture, after the tests that use it. *)
BeginTeardown ==
  /\ body = "yielded"
  /\ body' = "awaitOwner" /\ shutdown' = TRUE
  /\ UNCHANGED <<isolation, wake, raised, ownerVars, readyVars, cancelling, server, home>>

(* wait_for(owner, 10) expires, or an interrupt cancels the body: either   *)
(* way asyncio passes the cancellation on to the awaited owner and resumes *)
(* the body when the owner has ended.                                      *)
StopOwnerWait(why) ==
  /\ body = "awaitOwner" /\ wake = None
  /\ wake' = why
  /\ CancelOwner
  /\ UNCHANGED <<isolation, body, raised, ownerVars, readyVars, shutdown, server, home>>

ShutdownTimeout == StopOwnerWait("timeout")

Interrupt == AbortWait("interrupt") \/ StopOwnerWait("interrupt")

(* As if every exception of the awaited owner were suppressed. *)
QuietTeardown == {"closed"}

(* What the finally block does once the owner has ended.  A TimeoutError   *)
(* is swallowed; it is raised when the expired wait finds the owner        *)
(* cancelled or, the owner having ended before the timer, finds anything.  *)
TeardownResult ==
  CASE wake = None /\ ownerExc = None           -> {"closed"}
    [] wake = None /\ ownerExc # None           -> {"closeError"}
    [] wake = "interrupt"                       -> {"closeError"}
    [] wake = "timeout" /\ ownerExc \in {None, "cancelled"} -> {"closed"}
    [] OTHER                                    -> {"closed", "closeError"}

(* As if a timed-out owner were cancelled and left to itself. *)
FinishWithoutReaping ==
  /\ body = "awaitOwner" /\ (owner = "ended" \/ wake = "timeout")
  /\ body' \in TeardownResult
  /\ UNCHANGED <<isolation, wake, raised, ownerVars, readyVars, shutdown, cancelling,
                 server, home>>

FinishTeardown ==
  /\ body = "awaitOwner" /\ owner = "ended"
  /\ body' \in TeardownResult
  /\ UNCHANGED <<isolation, wake, raised, ownerVars, readyVars, shutdown, cancelling,
                 server, home>>

(* As if the directory were finalized first. *)
RemoveHomeEarly ==
  /\ body \in Ended \union {"awaitOwner"} /\ home
  /\ home' = FALSE
  /\ UNCHANGED <<isolation, bodyVars, ownerVars, readyVars, shutdown, cancelling, server>>

(* The finalizer of _isolated_home runs after the one of mcp_client. *)
RemoveHome ==
  /\ body \in Ended /\ home
  /\ home' = FALSE
  /\ UNCHANGED <<isolation, bodyVars, ownerVars, readyVars, shutdown, cancelling, server>>

BodyStep ==
  \/ SetupHome \/ StartOwner
  \/ ReadyTimeout \/ BodyAborts \/ BodyGetsClient \/ BodyGetsError \/ Reaped
  \/ BeginTeardown \/ ShutdownTimeout \/ FinishTeardown \/ RemoveHome

-----------------------------------------------------------------------------
(* The server process may end by itself at any time. *)
ServerExits ==
  /\ server = "running"
  /\ server' = "gone"
  /\ UNCHANGED <<isolation, bodyVars, ownerVars, readyVars, shutdown, cancelling, home>>

Finished == body \in Ended /\ ~home /\ UNCHANGED vars

Next == OwnerStep \/ BodyStep \/ Interrupt \/ ServerExits \/ Finished

(* The event loop runs every task that can run and every armed timer; the  *)
(* SDK leaves its scopes in bounded time.  Nothing makes the server answer,*)
(* a spawn return, the tests end or the user interrupt.                    *)
Fairness ==
  /\ WF_vars(OwnerStart) /\ WF_vars(RaiseCancelled)
  /\ WF_vars(InitializeTimesOut) /\ WF_vars(ServingEnds)
  /\ WF_vars(LeaveSession) /\ WF_vars(LeaveStdio)
  /\ WF_vars(SetupHome) /\ WF_vars(StartOwner)
  /\ WF_vars(ReadyTimeout) /\ WF_vars(BodyAborts)
  /\ WF_vars(BodyGetsClient) /\ WF_vars(BodyGetsError) /\ WF_vars(Reaped)
  /\ WF_vars(ShutdownTimeout) /\ WF_vars(FinishTeardown) /\ WF_vars(RemoveHome)

Spec == Init /\ [][Next]_vars /\ Fairness

-----------------------------------------------------------------------------
(* Properties.                                                             *)

(* However the fixture ends (setup error, timeout, interrupt, teardown),   *)
(* its owner task has finished and no MCP server is left running.          *)
NoLeakedServer == body \in Ended => owner = "ended" /\ server # "running"

(* Strict isolation: the server's redirected HOME exists as long as the    *)
(* server does, also while a failed or cancelled owner is unwinding.       *)
HomeOutlivesServer ==
  isolation = "strict" /\ server = "running" => home

(* "the owner sets the future's exception, preserving the original error": *)
(* a setup that neither timed out nor was interrupted raises the exception *)
(* the owner met first, never what the SDK's scopes made of it.            *)
OriginalErrorRaised ==
  body = "failed" /\ raised \notin {"setupTimeout", "interrupt"}
    => raised = firstExc

(* The unguarded ready.set_result never meets a settled future, although a *)
(* timer can give the fixture up in the instant the server answers.        *)
HandoffAlwaysValid == firstExc # "invalidState"

(* A session that broke while the tests used it does not end in a clean    *)
(* teardown, unless the wait for the owner expired meanwhile.              *)
BrokenSessionReported ==
  body = "closed" /\ wake = None => firstExc = None

(* "bounds the ready-await ... to avoid hangs", "the owner is awaited with *)
(* a timeout": setup and teardown end whatever the server does or omits.   *)
FixtureTerminates ==
  /\ body = "awaitReady" ~> body \in {"yielded", "failed"}
  /\ body = "awaitOwner" ~> body \in {"closed", "closeError"}

(* The fixture is one implementation of the lease on a server process.     *)
LeaseState ==
  CASE body \in {"idle", "homed"}         -> "idle"
    [] body = "awaitReady"                -> "pending"
    [] body = "yielded"                   -> "held"
    [] body \in {"reaping", "awaitOwner"} -> "ending"
    [] OTHER                              -> "ended"

Lease == INSTANCE ServerLease WITH lease <- LeaseState

(* Every step of the two tasks is a step of the lease or leaves it alone.  *)
ImplementsLease == Lease!Spec
=============================================================================
