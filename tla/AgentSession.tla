---------------------------- MODULE AgentSession ----------------------------
(***************************************************************************)
(* The Agent's PTY session: the registry of internal/server/server.go      *)
(* (Server.session, getOrCreateSession, clearSession, Close), the session  *)
(* itself (ptySession) and its lifecycle (session_lifecycle.go).           *)
(*                                                                         *)
(* The processes are goroutines: one handler per WebSocket connection      *)
(* (handleWebSocket), and for each session the PTY reader (streamOutput),  *)
(* the process waiter (waitForExit), the AfterFunc callbacks of its two    *)
(* timers and whoever runs terminateWithReason.  A critical section of     *)
(* ptySession.mu is one step.  outputMu is a variable, because it is held  *)
(* across socket writes, and so is Server.mu, because getOrCreateSession   *)
(* holds it while it waits for a superseded session to end.                *)
(*                                                                         *)
(* A definition named ..._Slip is the one after it with a mistake the code *)
(* could contain; it is not part of the specification.                     *)
(***************************************************************************)
EXTENDS Naturals

CONSTANTS
  Conn,             \* connection handlers; one serves many connections in turn
  Session,          \* sessions the Agent may launch
  None,             \* nil
  IdleEnabled,      \* Config.IdleTimeout > 0
  ReconnectWindow,  \* Config.ReconnectTimeout > 0
  MaxGeneration     \* largest session generation (^uint64(0) in the code)

ASSUME NoneAssumption == None \notin Conn /\ None \notin Session
ASSUME ConnAssumption == Conn \cap {"output", "idle", "exit"} = {}
ASSUME ConfigAssumption == IdleEnabled \in BOOLEAN /\ ReconnectWindow \in BOOLEAN
ASSUME GenerationAssumption == MaxGeneration \in Nat

VARIABLES
  registered,         \* Server.session
  generation,         \* Server.nextSessionGeneration
  serverMu,           \* handler that holds Server.mu across a blocking call
  closePc,            \* Server.Close: "open", "terminating", "waiting", "closed"
  closing,            \* the session Server.Close terminates
  hpc,                \* handleWebSocket: where each handler is
  hsess,              \* the session the handler works on
  launched,           \* the session the handler has launched, not yet registered
  life,               \* sessionLifecycle.state
  client,             \* ptySession.client
  gen,                \* ptySession.generation
  outputMu,           \* holder of outputMu across a write: a handler, "output", "idle", "exit"
  detachTimer,        \* the reconnect timer is running
  expiry,             \* a reconnect expiry has fired and not yet run
  idleTimer,          \* the idle timer is running
  idleExpiry,         \* fired idle callbacks, by the step of expireIdle they are at
  termPc,             \* terminateWithReason after beginEnding: "none", "cancel", "wait"
  process,            \* the child process: "running", "killed", "exited"
  exitPc,             \* waitForExit: "wait", "notify", "cleanup", "onDone", "end"
  releases,           \* how often the PTY and process tree were closed
  attachmentsClosed,  \* ptySession.attachmentsClosed
  manager,            \* ptySession.attachmentManager: "none", "open", "closed", "stuck"
  staging             \* the session's staging directory: "none", "present", "cleaned"

serverVars == <<registered, generation, serverMu>>
closeVars == <<closePc, closing>>
handlerVars == <<hpc, hsess, launched>>
timerVars == <<detachTimer, expiry, idleTimer, idleExpiry>>
processVars == <<process, exitPc, releases>>
attachmentVars == <<attachmentsClosed, manager, staging>>
vars == <<serverVars, closeVars, handlerVars, life, client, gen, outputMu,
          timerVars, termPc, processVars, attachmentVars>>

\* lifecycle.done(), and the states beginEnding() and acceptsOutput() accept.
\* newPTYSession leaves "starting" before any other goroutine sees the session.
Done_Slip(s) == life[s] \in {"ending", "ended", "failed"}
Done(s) == life[s] \in {"ended", "failed"}
Live(s) == life[s] \in {"detached", "connected"}

\* s.session != nil && !s.session.isEnded()
HasCurrent_Slip == registered # None /\ ~Done(registered) /\ client[registered] # None
HasCurrent == registered # None /\ ~Done(registered)

Init ==
  /\ registered = None /\ generation = 0 /\ serverMu = None
  /\ closePc = "open" /\ closing = None
  /\ hpc = [c \in Conn |-> "idle"]
  /\ hsess = [c \in Conn |-> None]
  /\ launched = [c \in Conn |-> None]
  /\ life = [s \in Session |-> "unborn"]
  /\ client = [s \in Session |-> None]
  /\ gen = [s \in Session |-> 0]
  /\ outputMu = [s \in Session |-> None]
  /\ detachTimer = [s \in Session |-> FALSE]
  /\ expiry = [s \in Session |-> FALSE]
  /\ idleTimer = [s \in Session |-> FALSE]
  /\ idleExpiry = [s \in Session |-> {}]
  /\ termPc = [s \in Session |-> "none"]
  /\ process = [s \in Session |-> "unborn"]
  /\ exitPc = [s \in Session |-> "wait"]
  /\ releases = [s \in Session |-> 0]
  /\ attachmentsClosed = [s \in Session |-> FALSE]
  /\ manager = [s \in Session |-> "none"]
  /\ staging = [s \in Session |-> "none"]

-----------------------------------------------------------------------------
(* Shared pieces of the handlers.                                          *)

\* terminateWithReason under ptySession.mu: only the first caller gets past
\* beginEnding; it stops both timers and closes attachment creation.  A timer
\* callback that has already fired is not recalled.
Terminate(s) ==
  IF Live(s)
  THEN /\ life' = [life EXCEPT ![s] = "ending"]
       /\ detachTimer' = [detachTimer EXCEPT ![s] = FALSE]
       /\ idleTimer' = [idleTimer EXCEPT ![s] = FALSE]
       /\ termPc' = [termPc EXCEPT ![s] = "cancel"]
       /\ attachmentsClosed' = [attachmentsClosed EXCEPT ![s] = TRUE]
  ELSE UNCHANGED <<life, detachTimer, idleTimer, termPc, attachmentsClosed>>

ResetIdleTimer_Slip(s) == idleTimer' = [idleTimer EXCEPT ![s] = IdleEnabled]

\* resetIdleTimerLocked: nothing once the session is ending or done.
ResetIdleTimer(s) ==
  idleTimer' = [idleTimer EXCEPT ![s] = @ \/ (IdleEnabled /\ Live(s))]

CloseResources_Slip(s) == releases' = [releases EXCEPT ![s] = @ + 1]

\* closeResources: resourcesCloseOnce runs its body for the first caller only.
CloseResources(s) ==
  releases' = [releases EXCEPT ![s] = IF @ = 0 THEN 1 ELSE @]

StartReconnectWindow_Slip(s) == UNCHANGED <<detachTimer, expiry>>

\* The end of detach: the reconnect timer starts, or, without a reconnect window,
\* a goroutine that terminates the session.
StartReconnectWindow(s) ==
  /\ detachTimer' = [detachTimer EXCEPT ![s] = ReconnectWindow]
  /\ expiry' = [expiry EXCEPT ![s] = @ \/ ~ReconnectWindow]

AcceptsAttachments_Slip(s) == life[s] # "ending"

\* transferManager's checks: not ending, not done, not closed for attachments.
AcceptsAttachments(s) == Live(s) /\ ~attachmentsClosed[s]

Goto(c, where) == hpc' = [hpc EXCEPT ![c] = where]

\* The handler returns and forgets its session.
Return(c) == Goto(c, "idle") /\ hsess' = [hsess EXCEPT ![c] = None]

-----------------------------------------------------------------------------
(* handleWebSocket and getOrCreateSession.                                 *)

\* A negotiated connection enters getOrCreateSession and reads Server.session.
Connect(c) ==
  /\ hpc[c] = "idle"
  /\ serverMu = None
  /\ hsess' = [hsess EXCEPT ![c] = registered]
  /\ Goto(c, "check")
  /\ UNCHANGED <<serverVars, closeVars, launched, life, client, gen, outputMu,
                 timerVars, termPc, processVars, attachmentVars>>

\* isEnded on the session that was read: reuse it, or launch a new one.
CheckCurrent(c) ==
  /\ hpc[c] = "check"
  /\ Goto(c, IF hsess[c] # None /\ ~Done(hsess[c]) THEN "attach" ELSE "launch")
  /\ UNCHANGED <<serverVars, closeVars, hsess, launched, life, client, gen, outputMu,
                 timerVars, termPc, processVars, attachmentVars>>

\* Launch without Server.mu: staging directory, process, idle timer, and the
\* two goroutines of the session.
Launch(c) ==
  /\ hpc[c] = "launch"
  /\ \E s \in Session :
       /\ life[s] = "unborn"
       /\ life' = [life EXCEPT ![s] = "detached"]
       /\ process' = [process EXCEPT ![s] = "running"]
       /\ idleTimer' = [idleTimer EXCEPT ![s] = IdleEnabled]
       /\ staging' = [staging EXCEPT ![s] = "present"]
       /\ launched' = [launched EXCEPT ![c] = s]
  /\ Goto(c, "register")
  /\ UNCHANGED <<serverVars, closeVars, hsess, client, gen, outputMu, detachTimer, expiry,
                 idleExpiry, termPc, exitPc, releases, attachmentsClosed, manager>>

\* Workspace, staging or process start fails: SESSION_START_FAILED.
LaunchFails(c) ==
  /\ hpc[c] = "launch"
  /\ Return(c)
  /\ UNCHANGED <<serverVars, closeVars, launched, life, client, gen, outputMu,
                 timerVars, termPc, processVars, attachmentVars>>

\* Second look at Server.session under Server.mu: somebody registered a live
\* session meanwhile, so this one is terminated as superseded.  Server.mu stays
\* held until terminateWithReason returns; a session that has already ended by
\* itself is not waited for.
Supersede(c) ==
  /\ hpc[c] = "register"
  /\ serverMu = None
  /\ HasCurrent
  /\ Terminate(launched[c])
  /\ hsess' = [hsess EXCEPT ![c] = registered]
  /\ IF Live(launched[c])
     THEN /\ serverMu' = c
          /\ Goto(c, "superseding")
          /\ UNCHANGED launched
     ELSE /\ Goto(c, "attach")
          /\ launched' = [launched EXCEPT ![c] = None]
          /\ UNCHANGED serverMu
  /\ UNCHANGED <<registered, generation, closeVars, client, gen, outputMu, expiry,
                 idleExpiry, processVars, manager, staging>>

\* Generation exhausted: the new session is terminated, the start fails.
GenerationExhausted(c) ==
  /\ hpc[c] = "register"
  /\ serverMu = None
  /\ ~HasCurrent
  /\ generation = MaxGeneration
  /\ Terminate(launched[c])
  /\ hsess' = [hsess EXCEPT ![c] = None]
  /\ IF Live(launched[c])
     THEN /\ serverMu' = c
          /\ Goto(c, "superseding")
          /\ UNCHANGED launched
     ELSE /\ Goto(c, "idle")
          /\ launched' = [launched EXCEPT ![c] = None]
          /\ UNCHANGED serverMu
  /\ UNCHANGED <<registered, generation, closeVars, client, gen, outputMu, expiry,
                 idleExpiry, processVars, manager, staging>>

\* terminateWithReason returns (done is closed, or two seconds have passed)
\* and getOrCreateSession releases Server.mu.
Superseded(c) ==
  /\ hpc[c] = "superseding"
  /\ termPc[launched[c]] = "wait"
  /\ serverMu' = None
  /\ launched' = [launched EXCEPT ![c] = None]
  /\ Goto(c, IF hsess[c] = None THEN "idle" ELSE "attach")
  /\ UNCHANGED <<registered, generation, closeVars, hsess, life, client, gen, outputMu,
                 timerVars, termPc, processVars, attachmentVars>>

Register_Slip(c) ==
  /\ hpc[c] = "register"
  /\ serverMu = None
  /\ ~HasCurrent
  /\ generation' = generation + 1
  /\ gen' = [gen EXCEPT ![launched[c]] = generation + 1]
  /\ registered' = launched[c]
  /\ hsess' = [hsess EXCEPT ![c] = launched[c]]
  /\ launched' = [launched EXCEPT ![c] = None]
  /\ Goto(c, "attach")
  /\ UNCHANGED <<serverMu, closeVars, life, client, outputMu, timerVars, termPc,
                 processVars, attachmentVars>>

\* No live session is registered: this one is, with the next generation.
Register(c) ==
  /\ hpc[c] = "register"
  /\ serverMu = None
  /\ ~HasCurrent
  /\ generation < MaxGeneration
  /\ generation' = generation + 1
  /\ gen' = [gen EXCEPT ![launched[c]] = generation + 1]
  /\ registered' = launched[c]
  /\ hsess' = [hsess EXCEPT ![c] = launched[c]]
  /\ launched' = [launched EXCEPT ![c] = None]
  /\ Goto(c, "attach")
  /\ UNCHANGED <<serverMu, closeVars, life, client, outputMu, timerVars, termPc,
                 processVars, attachmentVars>>

RefuseAttach_Slip(c) ==
  /\ hpc[c] = "attach"
  /\ outputMu[hsess[c]] = None
  /\ client[hsess[c]] # None \/ life[hsess[c]] # "detached"
  /\ Goto(c, "check")
  /\ UNCHANGED <<serverVars, closeVars, hsess, launched, life, client, gen, outputMu,
                 timerVars, termPc, processVars, attachmentVars>>

\* attachProtocolV1, beginAttachLocked: refused with SESSION_ALREADY_ACTIVE when
\* a client is attached or the session is not detached.
RefuseAttach(c) ==
  /\ hpc[c] = "attach"
  /\ outputMu[hsess[c]] = None
  /\ client[hsess[c]] # None \/ life[hsess[c]] # "detached"
  /\ Return(c)
  /\ UNCHANGED <<serverVars, closeVars, launched, life, client, gen, outputMu,
                 timerVars, termPc, processVars, attachmentVars>>

\* Otherwise the writer becomes the client; outputMu stays held while
\* SessionStatus and the replay are written.
BeginAttach(c) ==
  LET s == hsess[c] IN
  /\ hpc[c] = "attach"
  /\ outputMu[s] = None
  /\ client[s] = None /\ life[s] = "detached"
  /\ life' = [life EXCEPT ![s] = "connected"]
  /\ client' = [client EXCEPT ![s] = c]
  /\ detachTimer' = [detachTimer EXCEPT ![s] = FALSE]
  /\ ResetIdleTimer(s)
  /\ outputMu' = [outputMu EXCEPT ![s] = c]
  /\ Goto(c, "attaching")
  /\ UNCHANGED <<serverVars, closeVars, hsess, launched, gen, expiry, idleExpiry,
                 termPc, processVars, attachmentVars>>

\* The writes are over: the read loop starts, or a failed write ends the handler.
EndAttach(c) ==
  /\ hpc[c] = "attaching"
  /\ outputMu' = [outputMu EXCEPT ![hsess[c]] = None]
  /\ \E where \in {"serving", "leaving"} : Goto(c, where)
  /\ UNCHANGED <<serverVars, closeVars, hsess, launched, life, client, gen,
                 timerVars, termPc, processVars, attachmentVars>>

\* TerminalInput or TerminalResize: the terminal accepts it and the idle timer
\* restarts.  (A failed write is a ConnectionEnds step.)
Input(c) ==
  /\ hpc[c] = "serving"
  /\ releases[hsess[c]] = 0
  /\ ResetIdleTimer(hsess[c])
  /\ UNCHANGED <<serverVars, closeVars, handlerVars, life, client, gen, outputMu,
                 detachTimer, expiry, idleExpiry, termPc, processVars, attachmentVars>>

\* An attachment message: transferManager creates the manager on first use,
\* and refuses once the session is ending, done or closed for attachments.
Attachment(c) ==
  LET s == hsess[c] IN
  /\ hpc[c] = "serving"
  /\ IF AcceptsAttachments(s)
     THEN /\ manager' = [manager EXCEPT ![s] = IF @ = "none" THEN "open" ELSE @]
          /\ UNCHANGED hpc
     ELSE /\ Goto(c, "leaving")
          /\ UNCHANGED manager
  /\ UNCHANGED <<serverVars, closeVars, hsess, launched, life, client, gen, outputMu,
                 timerVars, termPc, processVars, attachmentsClosed, staging>>

\* EndSession: terminateWithReason(explicit end), then the read loop returns.
EndSession(c) ==
  /\ hpc[c] = "serving"
  /\ Terminate(hsess[c])
  /\ Goto(c, IF Live(hsess[c]) THEN "ending" ELSE "leaving")
  /\ UNCHANGED <<serverVars, closeVars, hsess, launched, client, gen, outputMu, expiry,
                 idleExpiry, processVars, manager, staging>>

EndSessionReturns(c) ==
  /\ hpc[c] = "ending"
  /\ termPc[hsess[c]] = "wait"
  /\ Goto(c, "leaving")
  /\ UNCHANGED <<serverVars, closeVars, hsess, launched, life, client, gen, outputMu,
                 timerVars, termPc, processVars, attachmentVars>>

\* The read loop returns: the peer closed, the read deadline passed, a message
\* was invalid, or a reply could not be written.
ConnectionEnds(c) ==
  /\ hpc[c] = "serving"
  /\ Goto(c, "leaving")
  /\ UNCHANGED <<serverVars, closeVars, hsess, launched, life, client, gen, outputMu,
                 timerVars, termPc, processVars, attachmentVars>>

\* detach: nothing if this writer is no longer the client.  A session that is
\* still connected becomes detached and its reconnect window starts.
Detach(c) ==
  LET s == hsess[c] IN
  /\ hpc[c] = "leaving"
  /\ outputMu[s] = None
  /\ client' = [client EXCEPT ![s] = IF @ = c THEN None ELSE @]
  /\ IF client[s] = c /\ life[s] = "connected"
     THEN /\ life' = [life EXCEPT ![s] = "detached"]
          /\ StartReconnectWindow(s)
     ELSE UNCHANGED <<life, detachTimer, expiry>>
  /\ Return(c)
  /\ UNCHANGED <<serverVars, closeVars, launched, gen, outputMu, idleTimer,
                 idleExpiry, termPc, processVars, attachmentVars>>

-----------------------------------------------------------------------------
(* Timers.                                                                 *)

ReconnectTimerFires(s) ==
  /\ detachTimer[s]
  /\ detachTimer' = [detachTimer EXCEPT ![s] = FALSE]
  /\ expiry' = [expiry EXCEPT ![s] = TRUE]
  /\ UNCHANGED <<serverVars, closeVars, handlerVars, life, client, gen, outputMu,
                 idleTimer, idleExpiry, termPc, processVars, attachmentVars>>

ReconnectExpires(s) ==
  /\ expiry[s]
  /\ expiry' = [expiry EXCEPT ![s] = FALSE]
  /\ Terminate(s)
  /\ UNCHANGED <<serverVars, closeVars, handlerVars, client, gen, outputMu,
                 idleExpiry, processVars, manager, staging>>

IdleTimerFires(s) ==
  /\ idleTimer[s]
  /\ idleTimer' = [idleTimer EXCEPT ![s] = FALSE]
  /\ idleExpiry' = [idleExpiry EXCEPT ![s] = @ \cup {"deliver"}]
  /\ UNCHANGED <<serverVars, closeVars, handlerVars, life, client, gen, outputMu,
                 detachTimer, expiry, termPc, processVars, attachmentVars>>

\* expireIdle first delivers a notice like PTY output, waiting for outputMu ...
IdleNotice(s) ==
  /\ "deliver" \in idleExpiry[s]
  /\ outputMu[s] = None
  /\ LET writes == Live(s) /\ client[s] # None IN
     /\ outputMu' = [outputMu EXCEPT ![s] = IF writes THEN "idle" ELSE None]
     /\ idleExpiry' = [idleExpiry EXCEPT ![s] =
                         (@ \ {"deliver"}) \cup {IF writes THEN "write" ELSE "terminate"}]
  /\ UNCHANGED <<serverVars, closeVars, handlerVars, life, client, gen, detachTimer,
                 expiry, idleTimer, termPc, processVars, attachmentVars>>

IdleNoticeWritten(s) ==
  /\ outputMu[s] = "idle"
  /\ outputMu' = [outputMu EXCEPT ![s] = None]
  /\ idleExpiry' = [idleExpiry EXCEPT ![s] = (@ \ {"write"}) \cup {"terminate"}]
  /\ UNCHANGED <<serverVars, closeVars, handlerVars, life, client, gen, detachTimer,
                 expiry, idleTimer, termPc, processVars, attachmentVars>>

\* ... and then terminates the session.
IdleExpires(s) ==
  /\ "terminate" \in idleExpiry[s]
  /\ idleExpiry' = [idleExpiry EXCEPT ![s] = @ \ {"terminate"}]
  /\ Terminate(s)
  /\ UNCHANGED <<serverVars, closeVars, handlerVars, client, gen, outputMu, expiry,
                 processVars, manager, staging>>

-----------------------------------------------------------------------------
(* The PTY, its reader and its waiter.                                     *)

\* deliverOutput with a client: the write happens under outputMu.  (Output
\* without a client goes to the replay buffer, see SessionResume.)
Output(s) ==
  /\ outputMu[s] = None
  /\ Live(s) /\ client[s] # None
  /\ outputMu' = [outputMu EXCEPT ![s] = "output"]
  /\ UNCHANGED <<serverVars, closeVars, handlerVars, life, client, gen, timerVars,
                 termPc, processVars, attachmentVars>>

\* The write returns; its error is ignored.
OutputWritten(s) ==
  /\ outputMu[s] = "output"
  /\ outputMu' = [outputMu EXCEPT ![s] = None]
  /\ UNCHANGED <<serverVars, closeVars, handlerVars, life, client, gen, timerVars,
                 termPc, processVars, attachmentVars>>

Cancel_Slip(s) ==
  /\ termPc[s] = "cancel"
  /\ termPc' = [termPc EXCEPT ![s] = "wait"]
  /\ CloseResources(s)
  /\ UNCHANGED <<serverVars, closeVars, handlerVars, life, client, gen, outputMu,
                 timerVars, process, exitPc, attachmentVars>>

\* terminateWithReason without the lock: kill the process, close the PTY, and
\* start to wait for done.
Cancel(s) ==
  /\ termPc[s] = "cancel"
  /\ termPc' = [termPc EXCEPT ![s] = "wait"]
  /\ process' = [process EXCEPT ![s] = IF @ = "running" THEN "killed" ELSE @]
  /\ CloseResources(s)
  /\ UNCHANGED <<serverVars, closeVars, handlerVars, life, client, gen, outputMu,
                 timerVars, exitPc, attachmentVars>>

\* The process exits, by itself or because it was killed.
ProcessExits(s) ==
  /\ process[s] \in {"running", "killed"}
  /\ process' = [process EXCEPT ![s] = "exited"]
  /\ UNCHANGED <<serverVars, closeVars, handlerVars, life, client, gen, outputMu,
                 timerVars, termPc, exitPc, releases, attachmentVars>>

\* waitForExit after cmd.Wait: finish, stop the timers, take the client.
Finish(s) ==
  /\ exitPc[s] = "wait"
  /\ process[s] = "exited"
  /\ outputMu[s] = None
  /\ ~Done(s)
  /\ \E final \in IF life[s] = "ending" THEN {"ended"} ELSE {"ended", "failed"} :
       life' = [life EXCEPT ![s] = final]
  /\ attachmentsClosed' = [attachmentsClosed EXCEPT ![s] = TRUE]
  /\ detachTimer' = [detachTimer EXCEPT ![s] = FALSE]
  /\ idleTimer' = [idleTimer EXCEPT ![s] = FALSE]
  /\ client' = [client EXCEPT ![s] = None]
  /\ outputMu' = [outputMu EXCEPT ![s] = IF client[s] = None THEN None ELSE "exit"]
  /\ exitPc' = [exitPc EXCEPT ![s] = IF client[s] = None THEN "cleanup" ELSE "notify"]
  /\ UNCHANGED <<serverVars, closeVars, handlerVars, gen, expiry, idleExpiry, termPc,
                 process, releases, manager, staging>>

\* ProcessExit and the close frame have been written to the former client.
ExitNotified(s) ==
  /\ exitPc[s] = "notify"
  /\ exitPc' = [exitPc EXCEPT ![s] = "cleanup"]
  /\ outputMu' = [outputMu EXCEPT ![s] = None]
  /\ UNCHANGED <<serverVars, closeVars, handlerVars, life, client, gen, timerVars,
                 termPc, process, releases, attachmentVars>>

\* Release the PTY, close the attachment manager, clean the staging directory up
\* only if that worked, and close done.
Cleanup(s) ==
  /\ exitPc[s] = "cleanup"
  /\ exitPc' = [exitPc EXCEPT ![s] = "onDone"]
  /\ CloseResources(s)
  /\ \/ /\ manager' = [manager EXCEPT ![s] = IF @ = "open" THEN "closed" ELSE @]
        /\ staging' = [staging EXCEPT ![s] = "cleaned"]
     \/ /\ manager[s] = "open"
        /\ manager' = [manager EXCEPT ![s] = "stuck"]
        /\ UNCHANGED staging
  /\ UNCHANGED <<serverVars, closeVars, handlerVars, life, client, gen, outputMu,
                 timerVars, termPc, process, attachmentsClosed>>

\* onDone = clearSession.
ClearSession(s) ==
  /\ exitPc[s] = "onDone"
  /\ serverMu = None
  /\ exitPc' = [exitPc EXCEPT ![s] = "end"]
  /\ registered' = IF registered = s THEN None ELSE registered
  /\ UNCHANGED <<generation, serverMu, closeVars, handlerVars, life, client, gen, outputMu,
                 timerVars, termPc, process, releases, attachmentVars>>

-----------------------------------------------------------------------------
(* Server.Close.                                                           *)

CloseReads ==
  /\ closePc = "open"
  /\ serverMu = None
  /\ closing' = registered
  /\ closePc' = IF registered = None THEN "closed" ELSE "terminating"
  /\ UNCHANGED <<serverVars, handlerVars, life, client, gen, outputMu, timerVars,
                 termPc, processVars, attachmentVars>>

CloseTerminates ==
  /\ closePc = "terminating"
  /\ Terminate(closing)
  /\ closePc' = IF Live(closing) THEN "waiting" ELSE "closed"
  /\ closing' = IF Live(closing) THEN closing ELSE None
  /\ UNCHANGED <<serverVars, handlerVars, client, gen, outputMu, expiry,
                 idleExpiry, processVars, manager, staging>>

CloseReturns ==
  /\ closePc = "waiting"
  /\ termPc[closing] = "wait"
  /\ closePc' = "closed"
  /\ closing' = None
  /\ UNCHANGED <<serverVars, handlerVars, life, client, gen, outputMu, timerVars,
                 termPc, processVars, attachmentVars>>

-----------------------------------------------------------------------------
HandlerStep(c) ==
  \/ CheckCurrent(c) \/ Launch(c) \/ LaunchFails(c) \/ Supersede(c) \/ GenerationExhausted(c)
  \/ Superseded(c) \/ Register(c) \/ RefuseAttach(c) \/ BeginAttach(c) \/ EndAttach(c)
  \/ EndSessionReturns(c) \/ Detach(c)

\* What the browser at the other end decides.
BrowserStep(c) ==
  Connect(c) \/ Input(c) \/ Attachment(c) \/ EndSession(c) \/ ConnectionEnds(c)

TimerStep(s) ==
  \/ ReconnectTimerFires(s) \/ ReconnectExpires(s)
  \/ IdleTimerFires(s) \/ IdleNotice(s) \/ IdleNoticeWritten(s) \/ IdleExpires(s)

WaitForExit(s) ==
  Finish(s) \/ ExitNotified(s) \/ Cleanup(s) \/ ClearSession(s)

SessionStep(s) ==
  Output(s) \/ OutputWritten(s) \/ Cancel(s) \/ ProcessExits(s) \/ WaitForExit(s)

Next ==
  \/ \E c \in Conn : HandlerStep(c) \/ BrowserStep(c)
  \/ \E s \in Session : TimerStep(s) \/ SessionStep(s)
  \/ CloseReads \/ CloseTerminates \/ CloseReturns

Spec == Init /\ [][Next]_vars

\* Goroutines that can run do run, and armed timers fire.  Go's mutexes hand the
\* lock to a waiter after a millisecond, so a step that waits for one is strongly
\* fair.  A killed process exits.  Nothing is assumed of the browser, of what the
\* process prints or of a process nobody killed.  No write to a browser has to
\* return (EndAttach, OutputWritten, IdleNoticeWritten, ExitNotified): the sockets
\* have no write deadline, a peer that answers at the TCP level and never reads
\* blocks one for ever, and keepConnectionAlive closes nothing.
Fairness ==
  /\ \A c \in Conn : SF_vars(hpc[c] # "attaching" /\ HandlerStep(c))
  /\ \A s \in Session :
       /\ SF_vars(exitPc[s] # "notify" /\ WaitForExit(s))
       /\ WF_vars(Cancel(s))
       /\ WF_vars(process[s] = "killed" /\ ProcessExits(s))
       /\ WF_vars(ReconnectTimerFires(s)) /\ WF_vars(ReconnectExpires(s))
       /\ WF_vars(IdleTimerFires(s)) /\ SF_vars(IdleNotice(s)) /\ WF_vars(IdleExpires(s))

FairSpec == Spec /\ Fairness

-----------------------------------------------------------------------------
(* Properties.                                                             *)

\* The variables have their types; generation never passes its limit.
TypeOK ==
  /\ registered \in Session \cup {None}
  /\ generation \in 0..MaxGeneration
  /\ serverMu \in Conn \cup {None}
  /\ closePc \in {"open", "terminating", "waiting", "closed"}
  /\ closing \in Session \cup {None}
  /\ hpc \in [Conn -> {"idle", "check", "launch", "register", "superseding", "attach",
                       "attaching", "serving", "ending", "leaving"}]
  /\ hsess \in [Conn -> Session \cup {None}]
  /\ launched \in [Conn -> Session \cup {None}]
  /\ life \in [Session -> {"unborn", "detached", "connected", "ending", "ended", "failed"}]
  /\ client \in [Session -> Conn \cup {None}]
  /\ gen \in [Session -> 0..MaxGeneration]
  /\ outputMu \in [Session -> Conn \cup {None, "output", "idle", "exit"}]
  /\ detachTimer \in [Session -> BOOLEAN]
  /\ expiry \in [Session -> BOOLEAN]
  /\ idleTimer \in [Session -> BOOLEAN]
  /\ idleExpiry \in [Session -> SUBSET {"deliver", "write", "terminate"}]
  /\ termPc \in [Session -> {"none", "cancel", "wait"}]
  /\ process \in [Session -> {"unborn", "running", "killed", "exited"}]
  /\ exitPc \in [Session -> {"wait", "notify", "cleanup", "onDone", "end"}]
  /\ releases \in [Session -> Nat]
  /\ attachmentsClosed \in [Session -> BOOLEAN]
  /\ manager \in [Session -> {"none", "open", "closed", "stuck"}]
  /\ staging \in [Session -> {"none", "present", "cleaned"}]

\* "One browser controls a PTY at a time": at most one session of the Agent has
\* a client, that client's handler is inside its attach..detach section for
\* this very session, and the session is the registered one of the newest
\* generation, never a predecessor a handler still holds a pointer to.
OneController ==
  /\ \A s, t \in Session : client[s] # None /\ client[t] # None => s = t
  /\ \A s \in Session : client[s] # None =>
       /\ hpc[client[s]] \in {"attaching", "serving", "ending", "leaving"}
       /\ hsess[client[s]] = s
       /\ registered = s
       /\ gen[s] = generation

\* A running session is reachable: it is the registered one, or the handler
\* that launched it is about to register or supersede it.  getOrCreateSession
\* launches outside Server.mu, so two handlers may both have launched one.
NoOrphanSession ==
  \A s \in Session : Live(s) =>
    registered = s \/ \E c \in Conn : hpc[c] = "register" /\ launched[c] = s

\* No timer is left running on a session that is ending or done, and the
\* reconnect timer runs only while the session is detached.  Input, attach and
\* detach of a late handler must not restart one.
TimersQuiet ==
  \A s \in Session :
    /\ detachTimer[s] => life[s] = "detached"
    /\ idleTimer[s] => Live(s)

\* Every way to end (explicit end, idle expiry, reconnect expiry, shutdown,
\* supersession, process exit) releases the PTY once, never while the session
\* still serves, and it is released before done is closed.
ReleasedOnce ==
  \A s \in Session :
    /\ releases[s] <= 1
    /\ releases[s] = 1 => ~Live(s)
    /\ exitPc[s] \in {"onDone", "end"} => releases[s] = 1

\* The staging directory is cleaned up only when no attachment manager can write
\* to it: a manager is never created after cleanup, and a manager whose Close
\* failed keeps the directory.
StagingOutlivesManager ==
  \A s \in Session : staging[s] = "cleaned" => manager[s] \in {"none", "closed"}

-----------------------------------------------------------------------------
(* The inductive invariant behind the safety properties.                   *)

Attached == {"attaching", "serving", "ending", "leaving"}

\* A handler holds a launched session exactly from Launch to Register or the end
\* of Supersede, no two hold the same one, and it has no generation yet.  The
\* session a handler attaches to has one.
HandlerInv ==
  \A c \in Conn :
    /\ hpc[c] \in {"register", "superseding"} <=> launched[c] # None
    /\ hpc[c] = "superseding" => ~Live(launched[c])
    /\ launched[c] # None => gen[launched[c]] = 0 /\ life[launched[c]] # "unborn"
    /\ \A d \in Conn : launched[c] # None /\ launched[c] = launched[d] => c = d
    /\ hpc[c] \in Attached \cup {"attach"} => hsess[c] # None
    /\ hsess[c] # None => gen[hsess[c]] > 0

\* The registered session has the newest generation; every session that ever had
\* a generation and is not done is the registered one; one that never had a
\* generation and is live is in the hands of the handler that launched it.
RegistryInv ==
  /\ registered # None => gen[registered] = generation /\ generation > 0
  /\ \A s \in Session : gen[s] > 0 => life[s] # "unborn" /\ (Done(s) \/ registered = s)
  /\ \A s \in Session : gen[s] = 0 /\ Live(s) =>
       \E c \in Conn : hpc[c] = "register" /\ launched[c] = s

\* Only the handler inside attach..detach of a session is its client.
ClientInv ==
  \A s \in Session : client[s] # None =>
    hpc[client[s]] \in Attached /\ hsess[client[s]] = s /\ ~Done(s)

\* waitForExit and terminateWithReason move past their first step only when the
\* session has left the states in which it serves.
EndingInv ==
  /\ \A s \in Session :
       /\ exitPc[s] = "wait" <=> ~Done(s)
       /\ termPc[s] # "none" => ~Live(s) /\ life[s] # "unborn"
       /\ life[s] = "unborn" => releases[s] = 0
       /\ staging[s] = "cleaned" => Done(s)
       /\ manager[s] = "stuck" => exitPc[s] \in {"onDone", "end"}
  /\ ReleasedOnce /\ StagingOutlivesManager

\* The inductive invariant: the four parts above, types and quiet timers.
IInv ==
  /\ TypeOK /\ HandlerInv /\ RegistryInv /\ ClientInv /\ EndingInv
  /\ TimersQuiet

-----------------------------------------------------------------------------
(* Liveness.                                                               *)

\* From some point on one write to a browser of the session never returns: outputMu
\* is released after every write, so the holder is the same for ever.
WriteHangs(s) == <>[](outputMu[s] # None)

\* A session that has begun to end gets all the way through waitForExit, whatever
\* handlers, timers, terminations and Server.mu are in the way; only a write that
\* never returns can hold it up (terminateWithReason, waitForExit, clearSession).
EndingCompletes ==
  \A s \in Session :
    <>[](life[s] \in {"ending", "ended", "failed"} /\ exitPc[s] # "end") => WriteHangs(s)

\* A session nobody connects to any more is cleaned up: once every connection is
\* over for good, its handler gone or on its way to detach, every session ends,
\* unless a write to a lost browser never returns (detach, expireReconnect).
AbandonedSessionsEnd ==
  <>[](\A c \in Conn : hpc[c] \in {"idle", "leaving"}) =>
     \/ <>[](\A s \in Session : ~Live(s) /\ life[s] # "ending")
     \/ \E s \in Session : WriteHangs(s)

\* A browser that asks for a session is answered, attached or refused, although
\* another handler, an ending session and Server.mu are in the way; only a write
\* to the browser attached before it can leave it waiting (getOrCreateSession,
\* attachProtocolV1).
ConnectAnswered ==
  \A c \in Conn :
    <>[](hpc[c] \in {"check", "launch", "register", "superseding", "attach"}) =>
       \E s \in Session : WriteHangs(s)

\* README: "A short disconnect keeps the session alive for --reconnect-timeout".
\* A session that ends because the reconnect window expired has no client.
ReconnectExpiryOnlyWhenDetached ==
  [][\A s \in Session :
       expiry[s] /\ ~expiry'[s] /\ Live(s) /\ life'[s] = "ending" => client[s] = None]_vars

=============================================================================
