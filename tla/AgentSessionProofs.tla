------------------------- MODULE AgentSessionProofs -------------------------
(***************************************************************************)
(* Proofs that the safety properties of AgentSession hold for any number   *)
(* of connections and sessions, with and without idle expiry and reconnect *)
(* window.  IInv is the inductive invariant; each of its conjuncts has a   *)
(* lemma with one step per action: types and timers first, with what       *)
(* terminateWithReason leaves alone and which handler holds which session, *)
(* then which session is registered, who its client is, and how it ends.   *)
(***************************************************************************)
EXTENDS AgentSession, TLAPS

\* A leaf is tried with Zenon, then with SMT, for at most so many seconds.
USE ZenonT(5), SMTT(20)

-----------------------------------------------------------------------------
(* Types.                                                                  *)

\* A boolean field of one session is set.
LEMMA BooleanExcept ==
  ASSUME NEW S, NEW f \in [S -> BOOLEAN], NEW x, NEW v \in BOOLEAN
  PROVE  [f EXCEPT ![x] = v] \in [S -> BOOLEAN]
OBVIOUS

\* What terminateWithReason assigns keeps its type.
LEMMA TerminateType ==
  ASSUME TypeOK, NEW s, Terminate(s)
  PROVE  /\ life' \in [Session -> {"unborn", "detached", "connected", "ending", "ended", "failed"}]
         /\ detachTimer' \in [Session -> BOOLEAN]
         /\ idleTimer' \in [Session -> BOOLEAN]
         /\ termPc' \in [Session -> {"none", "cancel", "wait"}]
         /\ attachmentsClosed' \in [Session -> BOOLEAN]
<1>1. CASE Live(s)
  <2>1. /\ life' = [life EXCEPT ![s] = "ending"]
        /\ detachTimer' = [detachTimer EXCEPT ![s] = FALSE]
        /\ idleTimer' = [idleTimer EXCEPT ![s] = FALSE]
        /\ termPc' = [termPc EXCEPT ![s] = "cancel"]
        /\ attachmentsClosed' = [attachmentsClosed EXCEPT ![s] = TRUE]
    BY <1>1 DEF Terminate
  <2>2. detachTimer' \in [Session -> BOOLEAN]
    BY <2>1, BooleanExcept DEF TypeOK
  <2>3. idleTimer' \in [Session -> BOOLEAN]
    BY <2>1, BooleanExcept DEF TypeOK
  <2>4. attachmentsClosed' \in [Session -> BOOLEAN]
    BY <2>1, BooleanExcept DEF TypeOK
  <2>. QED
    BY <2>1, <2>2, <2>3, <2>4 DEF TypeOK
<1>2. CASE ~Live(s)
  BY <1>2 DEF TypeOK, Terminate
<1>. QED
  BY <1>1, <1>2

\* What the end of detach assigns keeps its type.
LEMMA ReconnectWindowType ==
  ASSUME TypeOK, NEW s, StartReconnectWindow(s)
  PROVE  detachTimer' \in [Session -> BOOLEAN] /\ expiry' \in [Session -> BOOLEAN]
BY ConfigAssumption DEF TypeOK, StartReconnectWindow

\* Every action keeps every variable in its type.
LEMMA TypeStep == TypeOK /\ [Next]_vars => TypeOK'
<1>. SUFFICES ASSUME TypeOK, [Next]_vars PROVE TypeOK'
  OBVIOUS
<1>. USE DEF serverVars, closeVars, handlerVars, timerVars, processVars, attachmentVars
<1>1. ASSUME NEW c \in Conn, CheckCurrent(c) PROVE TypeOK'
  BY <1>1 DEF CheckCurrent, Goto, TypeOK
<1>2. ASSUME NEW c \in Conn, Launch(c) PROVE TypeOK'
  <2>1. PICK s \in Session : /\ life' = [life EXCEPT ![s] = "detached"]
                            /\ process' = [process EXCEPT ![s] = "running"]
                            /\ idleTimer' = [idleTimer EXCEPT ![s] = IdleEnabled]
                            /\ staging' = [staging EXCEPT ![s] = "present"]
                            /\ launched' = [launched EXCEPT ![c] = s]
    BY <1>2 DEF Launch
  <2>2. idleTimer' \in [Session -> BOOLEAN]
    BY <2>1, BooleanExcept, ConfigAssumption DEF TypeOK
  <2>. QED
    BY <1>2, <2>1, <2>2 DEF Launch, Goto, TypeOK
<1>3. ASSUME NEW c \in Conn, LaunchFails(c) PROVE TypeOK'
  BY <1>3 DEF LaunchFails, Goto, Return, TypeOK
<1>4. ASSUME NEW c \in Conn, Supersede(c) PROVE TypeOK'
  <2>1. /\ life' \in [Session -> {"unborn", "detached", "connected", "ending", "ended", "failed"}]
        /\ detachTimer' \in [Session -> BOOLEAN] /\ idleTimer' \in [Session -> BOOLEAN]
        /\ termPc' \in [Session -> {"none", "cancel", "wait"}] /\ attachmentsClosed' \in [Session -> BOOLEAN]
    BY <1>4, TerminateType DEF Supersede
  <2>2. UNCHANGED <<registered, generation, closePc, closing, client, gen, outputMu, expiry, idleExpiry, process,
                    exitPc, releases, manager, staging>>
    BY <1>4 DEF Supersede
  <2>3. /\ hsess' = [hsess EXCEPT ![c] = registered]
        /\ serverMu' \in {c, serverMu} /\ (Goto(c, "superseding") \/ Goto(c, "attach"))
        /\ launched' = launched \/ launched' = [launched EXCEPT ![c] = None]
    BY <1>4 DEF Supersede
  <2>4. hsess' \in [Conn -> Session \cup {None}] /\ launched' \in [Conn -> Session \cup {None}]
    BY <2>3 DEF TypeOK
  <2>5. serverMu' \in Conn \cup {None}
    BY <2>3 DEF TypeOK
  <2>6. hpc' \in [Conn -> {"idle", "check", "launch", "register", "superseding", "attach",
                           "attaching", "serving", "ending", "leaving"}]
    BY <2>3 DEF Goto, TypeOK
  <2>. QED
    BY <2>1, <2>2, <2>4, <2>5, <2>6 DEF TypeOK
<1>5. ASSUME NEW c \in Conn, GenerationExhausted(c) PROVE TypeOK'
  <2>1. /\ life' \in [Session -> {"unborn", "detached", "connected", "ending", "ended", "failed"}]
        /\ detachTimer' \in [Session -> BOOLEAN] /\ idleTimer' \in [Session -> BOOLEAN]
        /\ termPc' \in [Session -> {"none", "cancel", "wait"}] /\ attachmentsClosed' \in [Session -> BOOLEAN]
    BY <1>5, TerminateType DEF GenerationExhausted
  <2>2. UNCHANGED <<registered, generation, closePc, closing, client, gen, outputMu, expiry, idleExpiry, process,
                    exitPc, releases, manager, staging>>
    BY <1>5 DEF GenerationExhausted
  <2>3. /\ hsess' = [hsess EXCEPT ![c] = None]
        /\ serverMu' \in {c, serverMu} /\ (Goto(c, "superseding") \/ Goto(c, "idle"))
        /\ launched' = launched \/ launched' = [launched EXCEPT ![c] = None]
    BY <1>5 DEF GenerationExhausted
  <2>4. hsess' \in [Conn -> Session \cup {None}] /\ launched' \in [Conn -> Session \cup {None}]
    BY <2>3 DEF TypeOK
  <2>5. serverMu' \in Conn \cup {None}
    BY <2>3 DEF TypeOK
  <2>6. hpc' \in [Conn -> {"idle", "check", "launch", "register", "superseding", "attach",
                           "attaching", "serving", "ending", "leaving"}]
    BY <2>3 DEF Goto, TypeOK
  <2>. QED
    BY <2>1, <2>2, <2>4, <2>5, <2>6 DEF TypeOK
<1>6. ASSUME NEW c \in Conn, Superseded(c) PROVE TypeOK'
  BY <1>6 DEF Superseded, Goto, TypeOK
<1>7. ASSUME NEW c \in Conn, Register(c) PROVE TypeOK'
  <2>1. generation' \in 0..MaxGeneration /\ generation + 1 \in 0..MaxGeneration
    BY <1>7, GenerationAssumption DEF Register, TypeOK
  <2>2. gen' \in [Session -> 0..MaxGeneration]
    BY <1>7, <2>1 DEF Register, TypeOK
  <2>. QED
    BY <1>7, <2>1, <2>2 DEF Register, Goto, TypeOK
<1>8. ASSUME NEW c \in Conn, RefuseAttach(c) PROVE TypeOK'
  BY <1>8 DEF RefuseAttach, Goto, Return, TypeOK
<1>9. ASSUME NEW c \in Conn, BeginAttach(c) PROVE TypeOK'
  BY <1>9 DEF BeginAttach, ResetIdleTimer, Goto, TypeOK
<1>10. ASSUME NEW c \in Conn, EndAttach(c) PROVE TypeOK'
  <2>1. PICK where \in {"serving", "leaving"} : Goto(c, where)
    BY <1>10 DEF EndAttach
  <2>2. hpc' \in [Conn -> {"idle", "check", "launch", "register", "superseding", "attach",
                           "attaching", "serving", "ending", "leaving"}]
    BY <2>1 DEF Goto, TypeOK
  <2>3. outputMu' = [outputMu EXCEPT ![hsess[c]] = None]
    BY <1>10 DEF EndAttach
  <2>4. outputMu' \in [Session -> Conn \cup {None, "output", "idle", "exit"}]
    BY <2>3 DEF TypeOK
  <2>5. UNCHANGED <<registered, generation, serverMu, closePc, closing, hsess, launched, life, client, gen, detachTimer,
                    idleTimer, expiry, idleExpiry, termPc, attachmentsClosed, process, exitPc, releases, manager, staging>>
    BY <1>10 DEF EndAttach
  <2>. QED
    BY <2>2, <2>4, <2>5 DEF TypeOK
<1>11. ASSUME NEW c \in Conn, EndSessionReturns(c) PROVE TypeOK'
  BY <1>11 DEF EndSessionReturns, Goto, TypeOK
<1>12. ASSUME NEW c \in Conn, Detach(c) PROVE TypeOK'
  <2>1. detachTimer' \in [Session -> BOOLEAN] /\ expiry' \in [Session -> BOOLEAN]
    BY <1>12, ReconnectWindowType DEF Detach, TypeOK
  <2>2. life' \in [Session -> {"unborn", "detached", "connected", "ending", "ended",
     "failed"}]
    BY <1>12 DEF Detach, TypeOK
  <2>3. client' \in [Session -> Conn \cup {None}]
    <3>1. client' = [client EXCEPT ![hsess[c]] = IF @ = c THEN None ELSE @]
      BY <1>12 DEF Detach
    <3>2. client \in [Session -> Conn \cup {None}]
      BY DEF TypeOK
    <3>. QED
      BY <3>1, <3>2
  <2>. QED
    BY <1>12, <2>1, <2>2, <2>3 DEF Detach, Goto, Return, TypeOK
<1>13. ASSUME NEW c \in Conn, Connect(c) PROVE TypeOK'
  BY <1>13 DEF Connect, Goto, TypeOK
<1>14. ASSUME NEW c \in Conn, Input(c) PROVE TypeOK'
  BY <1>14 DEF Input, ResetIdleTimer, TypeOK
<1>15. ASSUME NEW c \in Conn, Attachment(c) PROVE TypeOK'
  <2>1. /\ manager' = manager \/ manager' = [manager EXCEPT ![hsess[c]] = IF @ = "none" THEN "open" ELSE @]
        /\ hpc' = hpc \/ Goto(c, "leaving")
    BY <1>15 DEF Attachment
  <2>2. manager' \in [Session -> {"none", "open", "closed", "stuck"}]
    BY <2>1 DEF TypeOK
  <2>3. hpc' \in [Conn -> {"idle", "check", "launch", "register", "superseding", "attach",
                           "attaching", "serving", "ending", "leaving"}]
    BY <2>1 DEF Goto, TypeOK
  <2>. QED
    BY <1>15, <2>2, <2>3 DEF Attachment, TypeOK
<1>16. ASSUME NEW c \in Conn, EndSession(c) PROVE TypeOK'
  BY <1>16, TerminateType DEF EndSession, Goto, TypeOK
<1>17. ASSUME NEW c \in Conn, ConnectionEnds(c) PROVE TypeOK'
  BY <1>17 DEF ConnectionEnds, Goto, TypeOK
<1>18. ASSUME NEW s \in Session, ReconnectTimerFires(s) PROVE TypeOK'
  BY <1>18 DEF ReconnectTimerFires, TypeOK
<1>19. ASSUME NEW s \in Session, ReconnectExpires(s) PROVE TypeOK'
  BY <1>19, TerminateType DEF ReconnectExpires, TypeOK
<1>20. ASSUME NEW s \in Session, IdleTimerFires(s) PROVE TypeOK'
  BY <1>20 DEF IdleTimerFires, TypeOK
<1>21. ASSUME NEW s \in Session, IdleNotice(s) PROVE TypeOK'
  BY <1>21 DEF IdleNotice, TypeOK
<1>22. ASSUME NEW s \in Session, IdleNoticeWritten(s) PROVE TypeOK'
  BY <1>22 DEF IdleNoticeWritten, TypeOK
<1>23. ASSUME NEW s \in Session, IdleExpires(s) PROVE TypeOK'
  BY <1>23, TerminateType DEF IdleExpires, TypeOK
<1>24. ASSUME NEW s \in Session, Output(s) PROVE TypeOK'
  BY <1>24 DEF Output, TypeOK
<1>25. ASSUME NEW s \in Session, OutputWritten(s) PROVE TypeOK'
  BY <1>25 DEF OutputWritten, TypeOK
<1>26. ASSUME NEW s \in Session, Cancel(s) PROVE TypeOK'
  BY <1>26 DEF Cancel, CloseResources, TypeOK
<1>27. ASSUME NEW s \in Session, ProcessExits(s) PROVE TypeOK'
  BY <1>27 DEF ProcessExits, TypeOK
<1>28. ASSUME NEW s \in Session, Finish(s) PROVE TypeOK'
  <2>1. PICK final \in {"ended", "failed"} : life' = [life EXCEPT ![s] = final]
    BY <1>28 DEF Finish
  <2>2. life' \in [Session -> {"unborn", "detached", "connected", "ending", "ended", "failed"}]
    BY <2>1 DEF TypeOK
  <2>3. /\ attachmentsClosed' = [attachmentsClosed EXCEPT ![s] = TRUE]
        /\ detachTimer' = [detachTimer EXCEPT ![s] = FALSE] /\ idleTimer' = [idleTimer EXCEPT ![s] = FALSE]
    BY <1>28 DEF Finish
  <2>4. attachmentsClosed' \in [Session -> BOOLEAN]
    BY <2>3, BooleanExcept DEF TypeOK
  <2>5. detachTimer' \in [Session -> BOOLEAN] /\ idleTimer' \in [Session -> BOOLEAN]
    BY <2>3, BooleanExcept DEF TypeOK
  <2>6. /\ client' = [client EXCEPT ![s] = None]
        /\ outputMu' = [outputMu EXCEPT ![s] = IF client[s] = None THEN None ELSE "exit"]
        /\ exitPc' = [exitPc EXCEPT ![s] = IF client[s] = None THEN "cleanup" ELSE "notify"]
    BY <1>28 DEF Finish
  <2>7. client' \in [Session -> Conn \cup {None}]
    BY <2>6 DEF TypeOK
  <2>8. outputMu' \in [Session -> Conn \cup {None, "output", "idle", "exit"}]
    BY <2>6 DEF TypeOK
  <2>9. exitPc' \in [Session -> {"wait", "notify", "cleanup", "onDone", "end"}]
    BY <2>6 DEF TypeOK
  <2>10. UNCHANGED <<registered, generation, serverMu, closePc, closing, hpc, hsess, launched, gen, expiry, idleExpiry,
                     termPc, process, releases, manager, staging>>
    BY <1>28 DEF Finish
  <2>. QED
    BY <2>2, <2>4, <2>5, <2>7, <2>8, <2>9, <2>10 DEF TypeOK
<1>29. ASSUME NEW s \in Session, ExitNotified(s) PROVE TypeOK'
  BY <1>29 DEF ExitNotified, TypeOK
<1>30. ASSUME NEW s \in Session, Cleanup(s) PROVE TypeOK'
  <2>1. releases' \in [Session -> Nat]
    <3>1. releases' = [releases EXCEPT ![s] = IF @ = 0 THEN 1 ELSE @]
      BY <1>30 DEF Cleanup, CloseResources
    <3>2. releases \in [Session -> Nat]
      BY DEF TypeOK
    <3>. QED
      BY <3>1, <3>2
  <2>2. /\ manager' = [manager EXCEPT ![s] = IF @ = "open" THEN "closed" ELSE @] \/ manager' = [manager EXCEPT ![s] = "stuck"]
        /\ staging' = staging \/ staging' = [staging EXCEPT ![s] = "cleaned"]
        /\ exitPc' = [exitPc EXCEPT ![s] = "onDone"]
    BY <1>30 DEF Cleanup
  <2>3. manager' \in [Session -> {"none", "open", "closed", "stuck"}]
    BY <2>2 DEF TypeOK
  <2>4. staging' \in [Session -> {"none", "present", "cleaned"}]
    BY <2>2 DEF TypeOK
  <2>5. exitPc' \in [Session -> {"wait", "notify", "cleanup", "onDone", "end"}]
    BY <2>2 DEF TypeOK
  <2>. QED
    BY <1>30, <2>1, <2>3, <2>4, <2>5 DEF Cleanup, TypeOK
<1>31. ASSUME NEW s \in Session, ClearSession(s) PROVE TypeOK'
  BY <1>31 DEF ClearSession, TypeOK
<1>32. CASE CloseReads
  BY <1>32 DEF CloseReads, TypeOK
<1>33. CASE CloseTerminates
  BY <1>33, TerminateType DEF CloseTerminates, TypeOK
<1>34. CASE CloseReturns
  BY <1>34 DEF CloseReturns, TypeOK
<1>35. CASE UNCHANGED vars
  BY <1>35 DEF vars, TypeOK
<1>. QED
  BY <1>1, <1>2, <1>3, <1>4, <1>5, <1>6, <1>7, <1>8, <1>9, <1>10, <1>11, <1>12, <1>13,
     <1>14, <1>15, <1>16, <1>17, <1>18, <1>19, <1>20, <1>21, <1>22, <1>23, <1>24, <1>25,
     <1>26, <1>27, <1>28, <1>29, <1>30, <1>31, <1>32, <1>33, <1>34, <1>35 DEF Next,
     HandlerStep, BrowserStep, TimerStep, SessionStep, WaitForExit

-----------------------------------------------------------------------------
(* Timers.                                                                 *)

\* terminateWithReason stops the timers of the session it ends.
LEMMA TerminateTimers ==
  ASSUME TypeOK, TimersQuiet, NEW s, Terminate(s)
  PROVE  TimersQuiet'
<1>1. CASE Live(s)
  BY <1>1 DEF TypeOK, TimersQuiet, Terminate, Live
<1>2. CASE ~Live(s)
  BY <1>2 DEF TypeOK, TimersQuiet, Terminate, Live
<1>. QED
  BY <1>1, <1>2

\* No action leaves a timer running on a session that no longer serves.
LEMMA TimersStep == TypeOK /\ TimersQuiet /\ [Next]_vars => TimersQuiet'
<1>. SUFFICES ASSUME TypeOK, TimersQuiet, [Next]_vars PROVE TimersQuiet'
  OBVIOUS
<1>. USE DEF serverVars, closeVars, handlerVars, timerVars, processVars, attachmentVars
<1>1. ASSUME NEW c \in Conn, CheckCurrent(c) PROVE TimersQuiet'
  BY <1>1 DEF CheckCurrent, Goto, TimersQuiet, TypeOK, Live
<1>2. ASSUME NEW c \in Conn, Launch(c) PROVE TimersQuiet'
  BY <1>2 DEF Launch, Goto, TimersQuiet, TypeOK, Live
<1>3. ASSUME NEW c \in Conn, LaunchFails(c) PROVE TimersQuiet'
  BY <1>3 DEF LaunchFails, Goto, Return, TimersQuiet, TypeOK, Live
<1>4. ASSUME NEW c \in Conn, Supersede(c) PROVE TimersQuiet'
  BY <1>4, TerminateTimers DEF Supersede
<1>5. ASSUME NEW c \in Conn, GenerationExhausted(c) PROVE TimersQuiet'
  BY <1>5, TerminateTimers DEF GenerationExhausted
<1>6. ASSUME NEW c \in Conn, Superseded(c) PROVE TimersQuiet'
  BY <1>6 DEF Superseded, Goto, TimersQuiet, TypeOK, Live
<1>7. ASSUME NEW c \in Conn, Register(c) PROVE TimersQuiet'
  BY <1>7 DEF Register, HasCurrent, Goto, TimersQuiet, TypeOK, Live
<1>8. ASSUME NEW c \in Conn, RefuseAttach(c) PROVE TimersQuiet'
  BY <1>8 DEF RefuseAttach, Goto, Return, TimersQuiet, TypeOK, Live
<1>9. ASSUME NEW c \in Conn, BeginAttach(c) PROVE TimersQuiet'
  BY <1>9 DEF BeginAttach, ResetIdleTimer, Goto, TimersQuiet, TypeOK, Live
<1>10. ASSUME NEW c \in Conn, EndAttach(c) PROVE TimersQuiet'
  BY <1>10 DEF EndAttach, Goto, TimersQuiet, TypeOK, Live
<1>11. ASSUME NEW c \in Conn, EndSessionReturns(c) PROVE TimersQuiet'
  BY <1>11 DEF EndSessionReturns, Goto, TimersQuiet, TypeOK, Live
<1>12. ASSUME NEW c \in Conn, Detach(c) PROVE TimersQuiet'
  BY <1>12 DEF Detach, Goto, Return, StartReconnectWindow, TimersQuiet, TypeOK, Live
<1>13. ASSUME NEW c \in Conn, Connect(c) PROVE TimersQuiet'
  BY <1>13 DEF Connect, Goto, TimersQuiet, TypeOK, Live
<1>14. ASSUME NEW c \in Conn, Input(c) PROVE TimersQuiet'
  BY <1>14 DEF Input, ResetIdleTimer, TimersQuiet, TypeOK, Live
<1>15. ASSUME NEW c \in Conn, Attachment(c) PROVE TimersQuiet'
  BY <1>15 DEF Attachment, AcceptsAttachments, Goto, TimersQuiet, TypeOK, Live
<1>16. ASSUME NEW c \in Conn, EndSession(c) PROVE TimersQuiet'
  BY <1>16, TerminateTimers DEF EndSession
<1>17. ASSUME NEW c \in Conn, ConnectionEnds(c) PROVE TimersQuiet'
  BY <1>17 DEF ConnectionEnds, Goto, TimersQuiet, TypeOK, Live
<1>18. ASSUME NEW s \in Session, ReconnectTimerFires(s) PROVE TimersQuiet'
  BY <1>18 DEF ReconnectTimerFires, TimersQuiet, TypeOK, Live
<1>19. ASSUME NEW s \in Session, ReconnectExpires(s) PROVE TimersQuiet'
  BY <1>19, TerminateTimers DEF ReconnectExpires
<1>20. ASSUME NEW s \in Session, IdleTimerFires(s) PROVE TimersQuiet'
  BY <1>20 DEF IdleTimerFires, TimersQuiet, TypeOK, Live
<1>21. ASSUME NEW s \in Session, IdleNotice(s) PROVE TimersQuiet'
  BY <1>21 DEF IdleNotice, TimersQuiet, TypeOK, Live
<1>22. ASSUME NEW s \in Session, IdleNoticeWritten(s) PROVE TimersQuiet'
  BY <1>22 DEF IdleNoticeWritten, TimersQuiet, TypeOK, Live
<1>23. ASSUME NEW s \in Session, IdleExpires(s) PROVE TimersQuiet'
  BY <1>23, TerminateTimers DEF IdleExpires
<1>24. ASSUME NEW s \in Session, Output(s) PROVE TimersQuiet'
  BY <1>24 DEF Output, TimersQuiet, TypeOK, Live
<1>25. ASSUME NEW s \in Session, OutputWritten(s) PROVE TimersQuiet'
  BY <1>25 DEF OutputWritten, TimersQuiet, TypeOK, Live
<1>26. ASSUME NEW s \in Session, Cancel(s) PROVE TimersQuiet'
  BY <1>26 DEF Cancel, CloseResources, TimersQuiet, TypeOK, Live
<1>27. ASSUME NEW s \in Session, ProcessExits(s) PROVE TimersQuiet'
  BY <1>27 DEF ProcessExits, TimersQuiet, TypeOK, Live
<1>28. ASSUME NEW s \in Session, Finish(s) PROVE TimersQuiet'
  BY <1>28 DEF Finish, TimersQuiet, TypeOK, Live
<1>29. ASSUME NEW s \in Session, ExitNotified(s) PROVE TimersQuiet'
  BY <1>29 DEF ExitNotified, TimersQuiet, TypeOK, Live
<1>30. ASSUME NEW s \in Session, Cleanup(s) PROVE TimersQuiet'
  BY <1>30 DEF Cleanup, CloseResources, TimersQuiet, TypeOK, Live
<1>31. ASSUME NEW s \in Session, ClearSession(s) PROVE TimersQuiet'
  BY <1>31 DEF ClearSession, TimersQuiet, TypeOK, Live
<1>32. CASE CloseReads
  BY <1>32 DEF CloseReads, TimersQuiet, TypeOK, Live
<1>33. CASE CloseTerminates
  BY <1>33, TerminateTimers DEF CloseTerminates
<1>34. CASE CloseReturns
  BY <1>34 DEF CloseReturns, TimersQuiet, TypeOK, Live
<1>35. CASE UNCHANGED vars
  BY <1>35 DEF vars, TimersQuiet, TypeOK, Live
<1>. QED
  BY <1>1, <1>2, <1>3, <1>4, <1>5, <1>6, <1>7, <1>8, <1>9, <1>10, <1>11, <1>12, <1>13,
     <1>14, <1>15, <1>16, <1>17, <1>18, <1>19, <1>20, <1>21, <1>22, <1>23, <1>24, <1>25,
     <1>26, <1>27, <1>28, <1>29, <1>30, <1>31, <1>32, <1>33, <1>34, <1>35 DEF Next,
     HandlerStep, BrowserStep, TimerStep, SessionStep, WaitForExit

-----------------------------------------------------------------------------
(* Lives of sessions.                                                      *)

\* terminateWithReason moves a session that serves to "ending" and changes no
\* other state of any session.
LEMMA TerminateLife ==
  ASSUME TypeOK, NEW s, Terminate(s)
  PROVE  /\ \A t \in Session :
              /\ Live(t)' => Live(t)
              /\ Done(t)' <=> Done(t)
              /\ life'[t] = "unborn" <=> life[t] = "unborn"
              /\ termPc'[t] = termPc[t] \/ (Live(t) /\ ~Live(t)' /\ life'[t] = "ending")
         /\ s \in Session => ~Live(s)'
<1>1. CASE Live(s)
  BY <1>1 DEF TypeOK, Terminate, Live, Done
<1>2. CASE ~Live(s)
  BY <1>2 DEF TypeOK, Terminate, Live, Done
<1>. QED
  BY <1>1, <1>2

\* What the proofs below need of TypeOK: which variables are functions of handlers
\* or of sessions, and the sets that matter.
HandlerPcs == {"idle", "check", "launch", "register", "superseding", "attach", "attaching",
               "serving", "ending", "leaving"}
Lives == {"unborn", "detached", "connected", "ending", "ended", "failed"}
TermPcs == {"none", "cancel", "wait"}
ExitPcs == {"wait", "notify", "cleanup", "onDone", "end"}
Stagings == {"none", "present", "cleaned"}
Shapes ==
  /\ registered \in Session \cup {None} /\ generation \in Nat
  /\ hpc \in [Conn -> HandlerPcs]
  /\ hsess \in [Conn -> Session \cup {None}]
  /\ launched \in [Conn -> Session \cup {None}]
  /\ life \in [Session -> Lives]
  /\ client \in [Session -> Conn \cup {None}]
  /\ gen \in [Session -> Nat]
  /\ termPc \in [Session -> TermPcs]
  /\ exitPc \in [Session -> ExitPcs]
  /\ releases \in [Session -> Nat]
  /\ manager \in [Session -> {"none", "open", "closed", "stuck"}]
  /\ staging \in [Session -> Stagings]

\* TypeOK gives the shapes.
LEMMA ShapesOK == TypeOK => Shapes
<1>. SUFFICES ASSUME TypeOK PROVE Shapes
  OBVIOUS
<1>1. generation \in Nat /\ gen \in [Session -> Nat]
  BY GenerationAssumption DEF TypeOK
<1>. QED
  BY <1>1 DEF TypeOK, Shapes, HandlerPcs, Lives, TermPcs, ExitPcs, Stagings

-----------------------------------------------------------------------------
(* Which handler holds which session.                                      *)

\* HandlerInv survives a step that moves no handler, gives no generation and makes
\* no session live.
LEMMA HandlerFrame ==
  ASSUME Shapes, HandlerInv, UNCHANGED <<hpc, hsess, launched, gen>>,
         \A t \in Session : /\ Live(t)' => Live(t)
                            /\ life'[t] = "unborn" => life[t] = "unborn"
  PROVE  HandlerInv'
BY NoneAssumption DEF Shapes, HandlerInv

\* HandlerInv survives a step of one handler that gives no generation, makes no
\* session live and keeps what HandlerInv says of this handler.
LEMMA HandlerMove ==
  ASSUME Shapes, HandlerInv, NEW c \in Conn, UNCHANGED gen,
         \A t \in Session : /\ Live(t)' => Live(t)
                            /\ life'[t] = "unborn" => life[t] = "unborn",
         \A d \in Conn \ {c} : /\ hpc'[d] = hpc[d] /\ hsess'[d] = hsess[d]
                                /\ launched'[d] = launched[d],
         launched'[c] = launched[c] \/ launched'[c] = None,
         hpc'[c] \in {"register", "superseding"} <=> launched'[c] # None,
         hpc'[c] = "superseding" => ~Live(launched[c])' /\ launched'[c] = launched[c],
         hpc'[c] \in Attached \cup {"attach"} => hsess'[c] # None,
         hsess'[c] # None => gen[hsess'[c]] > 0
  PROVE  HandlerInv'
<1>. SUFFICES ASSUME NEW d \in Conn
              PROVE  /\ hpc'[d] \in {"register", "superseding"} <=> launched'[d] # None
                     /\ hpc'[d] = "superseding" => ~Live(launched[d])'
                     /\ launched'[d] # None => gen'[launched'[d]] = 0 /\ life'[launched'[d]] # "unborn"
                     /\ \A e \in Conn : launched'[d] # None /\ launched'[d] = launched'[e] => d = e
                     /\ hpc'[d] \in Attached \cup {"attach"} => hsess'[d] # None
                     /\ hsess'[d] # None => gen'[hsess'[d]] > 0
  BY DEF HandlerInv, Attached
<1>1. launched[d] \in Session \cup {None}
  BY DEF Shapes
<1>2. launched'[d] # None => gen'[launched'[d]] = 0 /\ life'[launched'[d]] # "unborn"
  BY <1>1 DEF HandlerInv
<1>3. \A e \in Conn : launched'[d] # None /\ launched'[d] = launched'[e] => d = e
  BY DEF HandlerInv
<1>4. CASE d = c
  BY <1>2, <1>3, <1>4
<1>5. CASE d # c
  <2>1. hpc'[d] = "superseding" => ~Live(launched[d])'
    <3>1. hpc'[d] = hpc[d] /\ launched'[d] = launched[d]
      BY <1>5
    <3>2. hpc[d] = "superseding" => launched[d] # None /\ ~Live(launched[d])
      BY DEF HandlerInv
    <3>3. \A t \in Session : t = launched'[d] => (Live(launched[d])' => Live(t))
      BY DEF Live
    <3>. QED
      BY <1>1, <3>1, <3>2, <3>3
  <2>. QED
    BY <1>2, <1>3, <1>5, <2>1 DEF HandlerInv
<1>. QED
  BY <1>4, <1>5

\* Every action keeps the handlers' sessions apart.
LEMMA HandlerStepInv == TypeOK /\ HandlerInv /\ RegistryInv /\ [Next]_vars => HandlerInv'
<1>. SUFFICES ASSUME TypeOK, HandlerInv, RegistryInv, [Next]_vars PROVE HandlerInv'
  OBVIOUS
<1>. Shapes
  BY ShapesOK
<1>. USE DEF serverVars, closeVars, handlerVars, timerVars, processVars, attachmentVars
<1>1. ASSUME NEW c \in Conn, CheckCurrent(c) PROVE HandlerInv'
  BY <1>1 DEF CheckCurrent, Goto, HandlerInv, Attached, RegistryInv, Shapes, Live, Done
<1>2. ASSUME NEW c \in Conn, Launch(c) PROVE HandlerInv'
  <2>1. PICK s \in Session : /\ life[s] = "unborn"
                            /\ life' = [life EXCEPT ![s] = "detached"]
                            /\ launched' = [launched EXCEPT ![c] = s]
    BY <1>2 DEF Launch
  <2>2. /\ gen' = gen /\ hsess' = hsess /\ hpc[c] = "launch"
        /\ hpc' = [hpc EXCEPT ![c] = "register"]
    BY <1>2 DEF Launch, Goto
  <2>3. gen[s] = 0 /\ s # None /\ \A d \in Conn : launched[d] # s
    BY <2>1, NoneAssumption DEF HandlerInv, RegistryInv, Shapes
  <2>. QED
    BY <2>1, <2>2, <2>3 DEF HandlerInv, Attached, Shapes, Live
<1>3. ASSUME NEW c \in Conn, LaunchFails(c) PROVE HandlerInv'
  BY <1>3 DEF LaunchFails, Goto, Return, HandlerInv, Attached, RegistryInv, Shapes, Live,
     Done
<1>4. ASSUME NEW c \in Conn, Supersede(c) PROVE HandlerInv'
  <2>1. \A t \in Session : /\ Live(t)' => Live(t)
                           /\ life'[t] = "unborn" => life[t] = "unborn"
    BY <1>4, TerminateLife DEF Supersede
  <2>2. \A d \in Conn \ {c} : /\ hpc'[d] = hpc[d] /\ hsess'[d] = hsess[d]
                             /\ launched'[d] = launched[d]
    BY <1>4 DEF Supersede, Goto, Shapes
  <2>3. gen' = gen /\ hpc[c] = "register" /\ launched[c] \in Session
    BY <1>4 DEF Supersede, HandlerInv, Shapes
  <2>4. hsess'[c] = registered /\ registered # None /\ gen[registered] > 0
    BY <1>4 DEF Supersede, HasCurrent, RegistryInv, Shapes
  <2>5. CASE Live(launched[c])
    <3>1. hpc'[c] = "superseding" /\ launched' = launched
      BY <1>4, <2>5 DEF Supersede, Goto, Shapes
    <3>2. ~Live(launched[c])'
      <4>1. \A t \in Session : t = launched[c] => ~Live(t)'
        BY <1>4, <2>3, TerminateLife DEF Supersede
      <4>. QED
        BY <2>3, <3>1, <4>1 DEF Live
    <3>. QED
      BY <2>1, <2>2, <2>3, <2>4, <3>1, <3>2, NoneAssumption, HandlerMove DEF Attached
  <2>6. CASE ~Live(launched[c])
    <3>1. launched'[c] = None /\ hpc'[c] = "attach"
      BY <1>4, <2>6 DEF Supersede, Goto, Shapes
    <3>. QED
      BY <2>1, <2>2, <2>3, <2>4, <3>1, HandlerMove DEF Attached
  <2>. QED
    BY <2>5, <2>6
<1>5. ASSUME NEW c \in Conn, GenerationExhausted(c) PROVE HandlerInv'
  <2>1. \A t \in Session : /\ Live(t)' => Live(t)
                           /\ life'[t] = "unborn" => life[t] = "unborn"
    BY <1>5, TerminateLife DEF GenerationExhausted
  <2>2. \A d \in Conn \ {c} : /\ hpc'[d] = hpc[d] /\ hsess'[d] = hsess[d]
                             /\ launched'[d] = launched[d]
    BY <1>5 DEF GenerationExhausted, Goto, Shapes
  <2>3. gen' = gen /\ hpc[c] = "register" /\ launched[c] \in Session
    BY <1>5 DEF GenerationExhausted, HandlerInv, Shapes
  <2>4. hsess'[c] = None
    BY <1>5 DEF GenerationExhausted, Shapes
  <2>5. CASE Live(launched[c])
    <3>1. hpc'[c] = "superseding" /\ launched' = launched
      BY <1>5, <2>5 DEF GenerationExhausted, Goto, Shapes
    <3>2. ~Live(launched[c])'
      <4>1. \A t \in Session : t = launched[c] => ~Live(t)'
        BY <1>5, <2>3, TerminateLife DEF GenerationExhausted
      <4>. QED
        BY <2>3, <3>1, <4>1 DEF Live
    <3>. QED
      BY <2>1, <2>2, <2>3, <2>4, <3>1, <3>2, NoneAssumption, HandlerMove DEF Attached
  <2>6. CASE ~Live(launched[c])
    <3>1. launched'[c] = None /\ hpc'[c] = "idle"
      BY <1>5, <2>6 DEF GenerationExhausted, Goto, Shapes
    <3>. QED
      BY <2>1, <2>2, <2>3, <2>4, <3>1, HandlerMove DEF Attached
  <2>. QED
    BY <2>5, <2>6
<1>6. ASSUME NEW c \in Conn, Superseded(c) PROVE HandlerInv'
  BY <1>6 DEF Superseded, Goto, HandlerInv, Attached, RegistryInv, Shapes, Live, Done
<1>7. ASSUME NEW c \in Conn, Register(c) PROVE HandlerInv'
  BY <1>7 DEF Register, HasCurrent, Goto, HandlerInv, Attached, RegistryInv, Shapes, Live,
     Done
<1>8. ASSUME NEW c \in Conn, RefuseAttach(c) PROVE HandlerInv'
  <2>1. /\ hpc[c] = "attach" /\ hpc'[c] = "idle" /\ hsess'[c] = None
        /\ launched' = launched /\ gen' = gen /\ life' = life
    BY <1>8 DEF RefuseAttach, Return, Goto, Shapes
  <2>2. \A d \in Conn \ {c} : hpc'[d] = hpc[d] /\ hsess'[d] = hsess[d]
    BY <1>8 DEF RefuseAttach, Return, Goto, Shapes
  <2>3. launched[c] = None
    BY <2>1 DEF HandlerInv
  <2>4. \A t \in Session : (Live(t)' => Live(t)) /\ (life'[t] = "unborn" => life[t] = "unborn")
    BY <2>1 DEF Live
  <2>5. "idle" \notin {"register", "superseding"} /\ "idle" \notin Attached \cup {"attach"} /\ "idle" # "superseding"
    BY DEF Attached
  <2>. QED
    BY <2>1, <2>2, <2>3, <2>4, <2>5, HandlerMove
<1>9. ASSUME NEW c \in Conn, BeginAttach(c) PROVE HandlerInv'
  <2>1. hpc[c] = "attach" /\ hpc'[c] = "attaching" /\ \A d \in Conn \ {c} : hpc'[d] = hpc[d]
    BY ZenonT(30), <1>9 DEF BeginAttach, Goto, Shapes
  <2>2. launched[c] = None /\ hsess[c] \in Session /\ gen[hsess[c]] > 0
    BY ZenonT(30), <2>1, NoneAssumption DEF HandlerInv, Shapes
  <2>3. \A t \in Session : /\ Live(t)' => Live(t)
                           /\ life'[t] = "unborn" => life[t] = "unborn"
    BY ZenonT(30), <1>9, <2>2 DEF BeginAttach, Shapes, Live
  <2>4. gen' = gen /\ launched' = launched /\ hsess' = hsess
    BY <1>9 DEF BeginAttach
  <2>. QED
    BY ZenonT(30), <2>1, <2>2, <2>3, <2>4, NoneAssumption, HandlerMove
<1>10. ASSUME NEW c \in Conn, EndAttach(c) PROVE HandlerInv'
  BY <1>10 DEF EndAttach, Goto, HandlerInv, Attached, RegistryInv, Shapes, Live, Done
<1>11. ASSUME NEW c \in Conn, EndSessionReturns(c) PROVE HandlerInv'
  BY <1>11 DEF EndSessionReturns, Goto, HandlerInv, Attached, RegistryInv, Shapes, Live,
     Done
<1>12. ASSUME NEW c \in Conn, Detach(c) PROVE HandlerInv'
  <2>1. \A t \in Session : /\ Live(t)' => Live(t)
                           /\ life'[t] = "unborn" => life[t] = "unborn"
    BY <1>12 DEF Detach, Shapes, Live
  <2>2. \A d \in Conn \ {c} : hpc'[d] = hpc[d] /\ hsess'[d] = hsess[d]
    BY <1>12 DEF Detach, Goto, Return, Shapes
  <2>3. hpc'[c] = "idle" /\ hsess'[c] = None
    BY <1>12 DEF Detach, Goto, Return, Shapes
  <2>4. gen' = gen /\ launched' = launched /\ launched[c] = None
    BY <1>12 DEF Detach, HandlerInv
  <2>. QED
    BY ZenonT(30), <2>1, <2>2, <2>3, <2>4, HandlerMove DEF Attached
<1>13. ASSUME NEW c \in Conn, Connect(c) PROVE HandlerInv'
  BY <1>13 DEF Connect, Goto, HandlerInv, Attached, RegistryInv, Shapes, Live,
     Done
<1>14. ASSUME NEW c \in Conn, Input(c) PROVE HandlerInv'
  BY <1>14, HandlerFrame DEF Input, Live, Done
<1>15. ASSUME NEW c \in Conn, Attachment(c) PROVE HandlerInv'
  BY <1>15 DEF Attachment, AcceptsAttachments, Goto, HandlerInv, Attached, RegistryInv,
     Shapes, Live, Done
<1>16. ASSUME NEW c \in Conn, EndSession(c) PROVE HandlerInv'
  <2>1. \A t \in Session : /\ Live(t)' => Live(t)
                           /\ life'[t] = "unborn" => life[t] = "unborn"
    BY <1>16, TerminateLife DEF EndSession
  <2>2. \A d \in Conn \ {c} : hpc'[d] = hpc[d]
    BY <1>16 DEF EndSession, Goto, Shapes
  <2>3. hpc[c] = "serving" /\ hpc'[c] \in {"ending", "leaving"}
    BY <1>16 DEF EndSession, Goto, Shapes
  <2>4. gen' = gen /\ launched' = launched /\ hsess' = hsess
    BY <1>16 DEF EndSession
  <2>5. launched[c] = None /\ hsess[c] # None /\ gen[hsess[c]] > 0
    BY <2>3 DEF HandlerInv, Attached
  <2>. QED
    BY ZenonT(30), <2>1, <2>2, <2>3, <2>4, <2>5, HandlerMove
<1>17. ASSUME NEW c \in Conn, ConnectionEnds(c) PROVE HandlerInv'
  BY <1>17 DEF ConnectionEnds, Goto, HandlerInv, Attached, RegistryInv, Shapes, Live, Done
<1>18. ASSUME NEW s \in Session, ReconnectTimerFires(s) PROVE HandlerInv'
  BY <1>18, HandlerFrame DEF ReconnectTimerFires, Live, Done
<1>19. ASSUME NEW s \in Session, ReconnectExpires(s) PROVE HandlerInv'
  BY <1>19, TerminateLife, HandlerFrame DEF ReconnectExpires
<1>20. ASSUME NEW s \in Session, IdleTimerFires(s) PROVE HandlerInv'
  BY <1>20, HandlerFrame DEF IdleTimerFires, Live, Done
<1>21. ASSUME NEW s \in Session, IdleNotice(s) PROVE HandlerInv'
  BY <1>21, HandlerFrame DEF IdleNotice, Live, Done
<1>22. ASSUME NEW s \in Session, IdleNoticeWritten(s) PROVE HandlerInv'
  BY <1>22, HandlerFrame DEF IdleNoticeWritten, Live, Done
<1>23. ASSUME NEW s \in Session, IdleExpires(s) PROVE HandlerInv'
  BY <1>23, TerminateLife, HandlerFrame DEF IdleExpires
<1>24. ASSUME NEW s \in Session, Output(s) PROVE HandlerInv'
  BY <1>24, HandlerFrame DEF Output, Live, Done
<1>25. ASSUME NEW s \in Session, OutputWritten(s) PROVE HandlerInv'
  BY <1>25, HandlerFrame DEF OutputWritten, Live, Done
<1>26. ASSUME NEW s \in Session, Cancel(s) PROVE HandlerInv'
  BY <1>26, HandlerFrame DEF Cancel, Live, Done
<1>27. ASSUME NEW s \in Session, ProcessExits(s) PROVE HandlerInv'
  BY <1>27, HandlerFrame DEF ProcessExits, Live, Done
<1>28. ASSUME NEW s \in Session, Finish(s) PROVE HandlerInv'
  BY <1>28, HandlerFrame DEF Finish, Shapes, Live, Done
<1>29. ASSUME NEW s \in Session, ExitNotified(s) PROVE HandlerInv'
  BY <1>29, HandlerFrame DEF ExitNotified, Live, Done
<1>30. ASSUME NEW s \in Session, Cleanup(s) PROVE HandlerInv'
  BY <1>30, HandlerFrame DEF Cleanup, Live, Done
<1>31. ASSUME NEW s \in Session, ClearSession(s) PROVE HandlerInv'
  BY <1>31, HandlerFrame DEF ClearSession, Live, Done
<1>32. CASE CloseReads
  BY <1>32, HandlerFrame DEF CloseReads, Live, Done
<1>33. CASE CloseTerminates
  BY <1>33, TerminateLife, HandlerFrame DEF CloseTerminates
<1>34. CASE CloseReturns
  BY <1>34, HandlerFrame DEF CloseReturns, Live, Done
<1>35. CASE UNCHANGED vars
  BY <1>35, HandlerFrame DEF vars, Live, Done
<1>. QED
  BY <1>1, <1>2, <1>3, <1>4, <1>5, <1>6, <1>7, <1>8, <1>9, <1>10, <1>11, <1>12, <1>13,
     <1>14, <1>15, <1>16, <1>17, <1>18, <1>19, <1>20, <1>21, <1>22, <1>23, <1>24, <1>25,
     <1>26, <1>27, <1>28, <1>29, <1>30, <1>31, <1>32, <1>33, <1>34, <1>35 DEF Next,
     HandlerStep, BrowserStep, TimerStep, SessionStep, WaitForExit


-----------------------------------------------------------------------------
(* Which session is registered and who is its client.                      *)

\* RegistryInv survives a step that registers nothing, makes no session live or
\* undone, and takes no handler away from "register".
LEMMA RegistryFrame ==
  ASSUME RegistryInv, UNCHANGED <<registered, generation, gen, launched>>,
         \A t \in Session : /\ Live(t)' => Live(t)
                            /\ Done(t) => Done(t)'
                            /\ life'[t] = "unborn" => life[t] = "unborn",
         \A c \in Conn : hpc[c] = "register" => hpc'[c] = "register"
  PROVE  RegistryInv'
BY DEF RegistryInv

\* Every action keeps every session that serves registered or in the hands of the
\* handler that launched it.
LEMMA RegistryStep == TypeOK /\ HandlerInv /\ RegistryInv /\ EndingInv /\ [Next]_vars => RegistryInv'
<1>. SUFFICES ASSUME TypeOK, HandlerInv, RegistryInv, EndingInv, [Next]_vars PROVE
   RegistryInv'
  OBVIOUS
<1>. Shapes
  BY ShapesOK
<1>. USE DEF serverVars, closeVars, handlerVars, timerVars, processVars, attachmentVars
<1>1. ASSUME NEW c \in Conn, CheckCurrent(c) PROVE RegistryInv'
  BY <1>1, RegistryFrame DEF CheckCurrent, Goto, Shapes, Live, Done
<1>2. ASSUME NEW c \in Conn, Launch(c) PROVE RegistryInv'
  <2>1. PICK s \in Session : /\ life[s] = "unborn"
                            /\ life' = [life EXCEPT ![s] = "detached"]
                            /\ launched' = [launched EXCEPT ![c] = s]
    BY <1>2 DEF Launch
  <2>2. gen' = gen /\ registered' = registered /\ generation' = generation
    BY <1>2 DEF Launch
  <2>3. hpc' = [hpc EXCEPT ![c] = "register"] /\ hpc[c] = "launch"
    BY <1>2 DEF Launch, Goto
  <2>. QED
    BY <2>1, <2>2, <2>3 DEF RegistryInv, Shapes, Live, Done
<1>3. ASSUME NEW c \in Conn, LaunchFails(c) PROVE RegistryInv'
  BY <1>3, RegistryFrame DEF LaunchFails, Goto, Return, Shapes, Live, Done
<1>4. ASSUME NEW c \in Conn, Supersede(c) PROVE RegistryInv'
  <2>1. \A t \in Session : /\ Live(t)' => Live(t)
                           /\ Done(t)' <=> Done(t)
                           /\ life'[t] = "unborn" <=> life[t] = "unborn"
                           /\ t = launched[c] => ~Live(t)'
    BY <1>4, TerminateLife DEF Supersede
  <2>2. \A d \in Conn \ {c} : hpc'[d] = hpc[d] /\ launched'[d] = launched[d]
    BY <1>4 DEF Supersede, Goto, Shapes
  <2>3. UNCHANGED <<registered, generation, gen>>
    BY <1>4 DEF Supersede
  <2>4. ASSUME NEW t \in Session, gen'[t] = 0, Live(t)'
        PROVE  \E d \in Conn : hpc'[d] = "register" /\ launched'[d] = t
    <3>1. PICK d \in Conn : hpc[d] = "register" /\ launched[d] = t
      BY <2>1, <2>3, <2>4 DEF RegistryInv
    <3>2. d # c
      BY <2>1, <2>4, <3>1
    <3>. QED
      BY <2>2, <3>1, <3>2
  <2>. QED
    BY <2>1, <2>3, <2>4 DEF RegistryInv
<1>5. ASSUME NEW c \in Conn, GenerationExhausted(c) PROVE RegistryInv'
  <2>1. \A t \in Session : /\ Live(t)' => Live(t)
                           /\ Done(t)' <=> Done(t)
                           /\ life'[t] = "unborn" <=> life[t] = "unborn"
                           /\ t = launched[c] => ~Live(t)'
    BY <1>5, TerminateLife DEF GenerationExhausted
  <2>2. \A d \in Conn \ {c} : hpc'[d] = hpc[d] /\ launched'[d] = launched[d]
    BY <1>5 DEF GenerationExhausted, Goto, Shapes
  <2>3. UNCHANGED <<registered, generation, gen>>
    BY <1>5 DEF GenerationExhausted
  <2>4. ASSUME NEW t \in Session, gen'[t] = 0, Live(t)'
        PROVE  \E d \in Conn : hpc'[d] = "register" /\ launched'[d] = t
    <3>1. PICK d \in Conn : hpc[d] = "register" /\ launched[d] = t
      BY <2>1, <2>3, <2>4 DEF RegistryInv
    <3>2. d # c
      BY <2>1, <2>4, <3>1
    <3>. QED
      BY <2>2, <3>1, <3>2
  <2>. QED
    BY <2>1, <2>3, <2>4 DEF RegistryInv
<1>6. ASSUME NEW c \in Conn, Superseded(c) PROVE RegistryInv'
  BY <1>6 DEF Superseded, Goto, HandlerInv, RegistryInv, Shapes, Live, Done
<1>7. ASSUME NEW c \in Conn, Register(c) PROVE RegistryInv'
  <2>. DEFINE s == launched[c]
  <2>1. s \in Session /\ gen[s] = 0 /\ life[s] # "unborn"
    BY <1>7 DEF Register, HandlerInv, Shapes
  <2>2. /\ life' = life /\ generation' = generation + 1 /\ registered' = s
        /\ gen' = [gen EXCEPT ![s] = generation + 1]
        /\ launched' = [launched EXCEPT ![c] = None]
        /\ hpc' = [hpc EXCEPT ![c] = "attach"]
    BY <1>7 DEF Register, Goto
  <2>3. \A t \in Session : gen[t] > 0 => Done(t)
    BY <1>7, NoneAssumption DEF Register, HasCurrent, RegistryInv, Shapes
  <2>4. generation' \in Nat /\ generation' > 0 /\ gen'[s] = generation'
    BY <2>1, <2>2, GenerationAssumption DEF Shapes
  <2>5. \A t \in Session : t # s => gen'[t] = gen[t]
    BY <2>1, <2>2 DEF Shapes
  <2>6. ASSUME NEW t \in Session, gen'[t] = 0, Live(t)'
        PROVE  \E d \in Conn : hpc'[d] = "register" /\ launched'[d] = t
    <3>1. t # s /\ gen[t] = 0 /\ Live(t)
      BY <2>2, <2>4, <2>5, <2>6 DEF Live
    <3>2. PICK d \in Conn : hpc[d] = "register" /\ launched[d] = t
      BY <3>1 DEF RegistryInv
    <3>. QED
      BY <2>2, <3>1, <3>2 DEF Shapes
  <2>. QED
    BY <2>1, <2>2, <2>3, <2>4, <2>5, <2>6 DEF RegistryInv, Done
<1>8. ASSUME NEW c \in Conn, RefuseAttach(c) PROVE RegistryInv'
  BY <1>8, RegistryFrame DEF RefuseAttach, Goto, Return, Shapes, Live, Done
<1>9. ASSUME NEW c \in Conn, BeginAttach(c) PROVE RegistryInv'
  BY <1>9, RegistryFrame DEF BeginAttach, Goto, Shapes, Live, Done
<1>10. ASSUME NEW c \in Conn, EndAttach(c) PROVE RegistryInv'
  BY <1>10, RegistryFrame DEF EndAttach, Goto, Shapes, Live, Done
<1>11. ASSUME NEW c \in Conn, EndSessionReturns(c) PROVE RegistryInv'
  BY <1>11, RegistryFrame DEF EndSessionReturns, Goto, Shapes, Live, Done
<1>12. ASSUME NEW c \in Conn, Detach(c) PROVE RegistryInv'
  BY <1>12, RegistryFrame DEF Detach, Goto, Return, Shapes, Live, Done
<1>13. ASSUME NEW c \in Conn, Connect(c) PROVE RegistryInv'
  BY <1>13, RegistryFrame DEF Connect, Goto, Shapes, Live, Done
<1>14. ASSUME NEW c \in Conn, Input(c) PROVE RegistryInv'
  BY <1>14, RegistryFrame DEF Input, Live, Done
<1>15. ASSUME NEW c \in Conn, Attachment(c) PROVE RegistryInv'
  BY <1>15, RegistryFrame DEF Attachment, Goto, Shapes, Live, Done
<1>16. ASSUME NEW c \in Conn, EndSession(c) PROVE RegistryInv'
  BY <1>16, TerminateLife, RegistryFrame DEF EndSession, Goto, Shapes, Live,
     Done
<1>17. ASSUME NEW c \in Conn, ConnectionEnds(c) PROVE RegistryInv'
  BY <1>17, RegistryFrame DEF ConnectionEnds, Goto, Shapes, Live, Done
<1>18. ASSUME NEW s \in Session, ReconnectTimerFires(s) PROVE RegistryInv'
  BY <1>18, RegistryFrame DEF ReconnectTimerFires, Live, Done
<1>19. ASSUME NEW s \in Session, ReconnectExpires(s) PROVE RegistryInv'
  BY <1>19, TerminateLife, RegistryFrame DEF ReconnectExpires, Live, Done
<1>20. ASSUME NEW s \in Session, IdleTimerFires(s) PROVE RegistryInv'
  BY <1>20, RegistryFrame DEF IdleTimerFires, Live, Done
<1>21. ASSUME NEW s \in Session, IdleNotice(s) PROVE RegistryInv'
  BY <1>21, RegistryFrame DEF IdleNotice, Live, Done
<1>22. ASSUME NEW s \in Session, IdleNoticeWritten(s) PROVE RegistryInv'
  BY <1>22, RegistryFrame DEF IdleNoticeWritten, Live, Done
<1>23. ASSUME NEW s \in Session, IdleExpires(s) PROVE RegistryInv'
  BY <1>23, TerminateLife, RegistryFrame DEF IdleExpires, Live, Done
<1>24. ASSUME NEW s \in Session, Output(s) PROVE RegistryInv'
  BY <1>24, RegistryFrame DEF Output, Live, Done
<1>25. ASSUME NEW s \in Session, OutputWritten(s) PROVE RegistryInv'
  BY <1>25, RegistryFrame DEF OutputWritten, Live, Done
<1>26. ASSUME NEW s \in Session, Cancel(s) PROVE RegistryInv'
  BY <1>26, RegistryFrame DEF Cancel, Live, Done
<1>27. ASSUME NEW s \in Session, ProcessExits(s) PROVE RegistryInv'
  BY <1>27, RegistryFrame DEF ProcessExits, Live, Done
<1>28. ASSUME NEW s \in Session, Finish(s) PROVE RegistryInv'
  <2>1. UNCHANGED <<registered, generation, gen, launched, hpc>>
    BY <1>28 DEF Finish
  <2>2. PICK final \in {"ended", "failed"} : life' = [life EXCEPT ![s] = final]
    BY <1>28 DEF Finish
  <2>3. life'[s] = final /\ \A t \in Session \ {s} : life'[t] = life[t]
    BY <2>2 DEF Shapes
  <2>4. \A t \in Session : /\ Live(t)' => Live(t)
                           /\ Done(t) => Done(t)'
                           /\ life'[t] = "unborn" => life[t] = "unborn"
    BY <2>3 DEF Live, Done
  <2>. QED
    BY <2>1, <2>4, RegistryFrame
<1>29. ASSUME NEW s \in Session, ExitNotified(s) PROVE RegistryInv'
  BY <1>29, RegistryFrame DEF ExitNotified, Live, Done
<1>30. ASSUME NEW s \in Session, Cleanup(s) PROVE RegistryInv'
  BY <1>30, RegistryFrame DEF Cleanup, Live, Done
<1>31. ASSUME NEW s \in Session, ClearSession(s) PROVE RegistryInv'
  BY <1>31 DEF ClearSession, EndingInv, RegistryInv, Shapes, Live, Done
<1>32. CASE CloseReads
  BY <1>32, RegistryFrame DEF CloseReads, Live, Done
<1>33. CASE CloseTerminates
  BY <1>33, TerminateLife, RegistryFrame DEF CloseTerminates, Live, Done
<1>34. CASE CloseReturns
  BY <1>34, RegistryFrame DEF CloseReturns, Live, Done
<1>35. CASE UNCHANGED vars
  BY <1>35, RegistryFrame DEF vars, Live, Done
<1>. QED
  BY <1>1, <1>2, <1>3, <1>4, <1>5, <1>6, <1>7, <1>8, <1>9, <1>10, <1>11, <1>12, <1>13,
     <1>14, <1>15, <1>16, <1>17, <1>18, <1>19, <1>20, <1>21, <1>22, <1>23, <1>24, <1>25,
     <1>26, <1>27, <1>28, <1>29, <1>30, <1>31, <1>32, <1>33, <1>34, <1>35 DEF Next,
     HandlerStep, BrowserStep, TimerStep, SessionStep, WaitForExit

\* ClientInv survives a step that makes no client, ends no session that keeps its
\* client and takes no handler out of its attach..detach section.
LEMMA ClientFrame ==
  ASSUME Shapes, ClientInv,
         \A t \in Session : client'[t] # None => client'[t] = client[t] /\ (Done(t)' => Done(t)),
         \A c \in Conn : hpc[c] \in Attached => hpc'[c] \in Attached /\ hsess'[c] = hsess[c]
  PROVE  ClientInv'
<1>. SUFFICES ASSUME NEW s \in Session, client'[s] # None
              PROVE  hpc'[client'[s]] \in Attached /\ hsess'[client'[s]] = s /\ ~Done(s)'
  BY DEF ClientInv, Attached
<1>1. client'[s] = client[s] /\ client[s] \in Conn
  BY DEF Shapes
<1>. QED
  BY <1>1 DEF ClientInv

\* Only BeginAttach makes a client, and its handler stays until the client is gone.
LEMMA ClientStep == TypeOK /\ HandlerInv /\ ClientInv /\ [Next]_vars => ClientInv'
<1>. SUFFICES ASSUME TypeOK, HandlerInv, ClientInv, [Next]_vars PROVE ClientInv'
  OBVIOUS
<1>. Shapes
  BY ShapesOK
<1>. USE DEF serverVars, closeVars, handlerVars, timerVars, processVars, attachmentVars
<1>1. ASSUME NEW c \in Conn, CheckCurrent(c) PROVE ClientInv'
  BY <1>1, ClientFrame DEF CheckCurrent, Goto, Shapes, Attached, Done
<1>2. ASSUME NEW c \in Conn, Launch(c) PROVE ClientInv'
  BY <1>2, ClientFrame DEF Launch, Goto, Shapes, Attached, Done
<1>3. ASSUME NEW c \in Conn, LaunchFails(c) PROVE ClientInv'
  BY <1>3, ClientFrame DEF LaunchFails, Goto, Return, Shapes, Attached, Done
<1>4. ASSUME NEW c \in Conn, Supersede(c) PROVE ClientInv'
  <2>1. \A t \in Session : Done(t)' => Done(t)
    BY <1>4, TerminateLife DEF Supersede
  <2>2. client' = client /\ hpc[c] \notin Attached
    BY <1>4 DEF Supersede, Attached
  <2>3. \A d \in Conn \ {c} : hpc'[d] = hpc[d] /\ hsess'[d] = hsess[d]
    BY <1>4 DEF Supersede, Goto, Shapes
  <2>. QED
    BY <2>1, <2>2, <2>3, ClientFrame
<1>5. ASSUME NEW c \in Conn, GenerationExhausted(c) PROVE ClientInv'
  <2>1. \A t \in Session : Done(t)' => Done(t)
    BY <1>5, TerminateLife DEF GenerationExhausted
  <2>2. client' = client /\ hpc[c] \notin Attached
    BY <1>5 DEF GenerationExhausted, Attached
  <2>3. \A d \in Conn \ {c} : hpc'[d] = hpc[d] /\ hsess'[d] = hsess[d]
    BY <1>5 DEF GenerationExhausted, Goto, Shapes
  <2>. QED
    BY <2>1, <2>2, <2>3, ClientFrame
<1>6. ASSUME NEW c \in Conn, Superseded(c) PROVE ClientInv'
  BY <1>6, ClientFrame DEF Superseded, Goto, Shapes, Attached, Done
<1>7. ASSUME NEW c \in Conn, Register(c) PROVE ClientInv'
  BY <1>7, ClientFrame DEF Register, Goto, Shapes, Attached, Done
<1>8. ASSUME NEW c \in Conn, RefuseAttach(c) PROVE ClientInv'
  BY <1>8, ClientFrame DEF RefuseAttach, Goto, Return, Shapes, Attached, Done
<1>9. ASSUME NEW c \in Conn, BeginAttach(c) PROVE ClientInv'
  <2>. DEFINE s == hsess[c]
  <2>1. s \in Session /\ hpc[c] = "attach" /\ life[s] = "detached"
    <3>1. hpc[c] = "attach" /\ life[s] = "detached"
      BY <1>9 DEF BeginAttach
    <3>2. hsess[c] # None
      BY <3>1 DEF HandlerInv
    <3>3. hsess[c] \in Session \cup {None}
      BY DEF Shapes
    <3>. QED
      BY <3>1, <3>2, <3>3
  <2>2. client'[s] = c /\ \A t \in Session \ {s} : client'[t] = client[t]
    BY <1>9, <2>1 DEF BeginAttach, Shapes
  <2>3. \A t \in Session : Done(t)' => Done(t) /\ t # s
    BY <1>9, <2>1 DEF BeginAttach, Shapes, Done
  <2>4. /\ hsess' = hsess /\ hpc'[c] \in Attached
        /\ \A d \in Conn \ {c} : hpc'[d] = hpc[d]
    BY <1>9 DEF BeginAttach, Goto, Shapes, Attached
  <2>. SUFFICES ASSUME NEW t \in Session, client'[t] # None
                PROVE  hpc'[client'[t]] \in Attached /\ hsess'[client'[t]] = t /\ ~Done(t)'
    BY DEF ClientInv, Attached
  <2>5. CASE t = s
    BY <2>2, <2>3, <2>4, <2>5
  <2>6. CASE t # s
    <3>1. client'[t] = client[t] /\ client[t] \in Conn
      BY <2>2, <2>6 DEF Shapes
    <3>2. hpc[client[t]] \in Attached /\ hsess[client[t]] = t /\ ~Done(t)
      BY <3>1 DEF ClientInv
    <3>3. client[t] # c
      BY <2>1, <3>2 DEF Attached
    <3>. QED
      BY <2>3, <2>4, <3>1, <3>2, <3>3
  <2>. QED
    BY <2>5, <2>6
<1>10. ASSUME NEW c \in Conn, EndAttach(c) PROVE ClientInv'
  BY <1>10, ClientFrame DEF EndAttach, Goto, Shapes, Attached, Done
<1>11. ASSUME NEW c \in Conn, EndSessionReturns(c) PROVE ClientInv'
  BY <1>11, ClientFrame DEF EndSessionReturns, Goto, Shapes, Attached, Done
<1>12. ASSUME NEW c \in Conn, Detach(c) PROVE ClientInv'
  <2>. DEFINE s == hsess[c]
  <2>1. s \in Session /\ hpc[c] = "leaving"
    <3>1. hpc[c] = "leaving"
      BY <1>12 DEF Detach
    <3>2. hsess[c] # None
      BY <3>1 DEF HandlerInv, Attached
    <3>3. hsess[c] \in Session \cup {None}
      BY DEF Shapes
    <3>. QED
      BY <3>1, <3>2, <3>3
  <2>2. /\ client'[s] # c
        /\ \A t \in Session : client'[t] # None => client'[t] = client[t]
    BY <1>12, <2>1, NoneAssumption DEF Detach, Shapes
  <2>3. \A t \in Session : Done(t)' => Done(t)
    BY <1>12, <2>1 DEF Detach, Shapes, Done
  <2>4. \A d \in Conn \ {c} : hpc'[d] = hpc[d] /\ hsess'[d] = hsess[d]
    BY <1>12 DEF Detach, Goto, Return, Shapes
  <2>5. ASSUME NEW t \in Session, client'[t] # None
        PROVE  client'[t] \in Conn \ {c}
    <3>1. client'[t] = client[t] /\ client[t] # None
      BY <2>2, <2>5
    <3>2. client[t] \in Conn \cup {None}
      BY DEF Shapes
    <3>3. hsess[client[t]] = t
      BY <3>1 DEF ClientInv
    <3>4. client[t] # c
      BY <2>2, <3>1, <3>3
    <3>. QED
      BY <3>1, <3>2, <3>4
  <2>. SUFFICES ASSUME NEW t \in Session, client'[t] # None
                PROVE  hpc'[client'[t]] \in Attached /\ hsess'[client'[t]] = t /\ ~Done(t)'
    BY DEF ClientInv, Attached
  <2>6. client'[t] = client[t] /\ client[t] # None /\ client[t] \in Conn \ {c}
    BY <2>2, <2>5
  <2>7. hpc[client[t]] \in Attached /\ hsess[client[t]] = t /\ ~Done(t)
    BY <2>6 DEF ClientInv
  <2>. QED
    BY <2>3, <2>4, <2>6, <2>7
<1>13. ASSUME NEW c \in Conn, Connect(c) PROVE ClientInv'
  BY <1>13, ClientFrame DEF Connect, Goto, Shapes, Attached, Done
<1>14. ASSUME NEW c \in Conn, Input(c) PROVE ClientInv'
  BY <1>14, ClientFrame DEF Input, Attached, Done, Shapes
<1>15. ASSUME NEW c \in Conn, Attachment(c) PROVE ClientInv'
  BY <1>15, ClientFrame DEF Attachment, Goto, Shapes, Attached, Done
<1>16. ASSUME NEW c \in Conn, EndSession(c) PROVE ClientInv'
  <2>1. \A t \in Session : Done(t)' => Done(t)
    BY <1>16, TerminateLife DEF EndSession
  <2>2. client' = client /\ hsess' = hsess
    BY <1>16 DEF EndSession
  <2>3. \A d \in Conn : hpc[d] \in Attached => hpc'[d] \in Attached
    BY <1>16 DEF EndSession, Goto, Shapes, Attached
  <2>. QED
    BY <2>1, <2>2, <2>3, ClientFrame
<1>17. ASSUME NEW c \in Conn, ConnectionEnds(c) PROVE ClientInv'
  BY <1>17, ClientFrame DEF ConnectionEnds, Goto, Shapes, Attached, Done
<1>18. ASSUME NEW s \in Session, ReconnectTimerFires(s) PROVE ClientInv'
  BY <1>18, ClientFrame DEF ReconnectTimerFires, Attached, Done, Shapes
<1>19. ASSUME NEW s \in Session, ReconnectExpires(s) PROVE ClientInv'
  BY <1>19, TerminateLife, ClientFrame DEF ReconnectExpires, Attached, Done, Shapes
<1>20. ASSUME NEW s \in Session, IdleTimerFires(s) PROVE ClientInv'
  BY <1>20, ClientFrame DEF IdleTimerFires, Attached, Done, Shapes
<1>21. ASSUME NEW s \in Session, IdleNotice(s) PROVE ClientInv'
  BY <1>21, ClientFrame DEF IdleNotice, Attached, Done, Shapes
<1>22. ASSUME NEW s \in Session, IdleNoticeWritten(s) PROVE ClientInv'
  BY <1>22, ClientFrame DEF IdleNoticeWritten, Attached, Done, Shapes
<1>23. ASSUME NEW s \in Session, IdleExpires(s) PROVE ClientInv'
  BY <1>23, TerminateLife, ClientFrame DEF IdleExpires, Attached, Done, Shapes
<1>24. ASSUME NEW s \in Session, Output(s) PROVE ClientInv'
  BY <1>24, ClientFrame DEF Output, Attached, Done, Shapes
<1>25. ASSUME NEW s \in Session, OutputWritten(s) PROVE ClientInv'
  BY <1>25, ClientFrame DEF OutputWritten, Attached, Done, Shapes
<1>26. ASSUME NEW s \in Session, Cancel(s) PROVE ClientInv'
  BY <1>26, ClientFrame DEF Cancel, Attached, Done, Shapes
<1>27. ASSUME NEW s \in Session, ProcessExits(s) PROVE ClientInv'
  BY <1>27, ClientFrame DEF ProcessExits, Attached, Done, Shapes
<1>28. ASSUME NEW s \in Session, Finish(s) PROVE ClientInv'
  BY <1>28, ClientFrame DEF Finish, Shapes, Attached, Done
<1>29. ASSUME NEW s \in Session, ExitNotified(s) PROVE ClientInv'
  BY <1>29, ClientFrame DEF ExitNotified, Attached, Done, Shapes
<1>30. ASSUME NEW s \in Session, Cleanup(s) PROVE ClientInv'
  BY <1>30, ClientFrame DEF Cleanup, Attached, Done, Shapes
<1>31. ASSUME NEW s \in Session, ClearSession(s) PROVE ClientInv'
  BY <1>31, ClientFrame DEF ClearSession, Attached, Done, Shapes
<1>32. CASE CloseReads
  BY <1>32, ClientFrame DEF CloseReads, Attached, Done, Shapes
<1>33. CASE CloseTerminates
  BY <1>33, TerminateLife, ClientFrame DEF CloseTerminates, Attached, Done, Shapes
<1>34. CASE CloseReturns
  BY <1>34, ClientFrame DEF CloseReturns, Attached, Done, Shapes
<1>35. CASE UNCHANGED vars
  BY <1>35, ClientFrame DEF vars, Attached, Done, Shapes
<1>. QED
  BY <1>1, <1>2, <1>3, <1>4, <1>5, <1>6, <1>7, <1>8, <1>9, <1>10, <1>11, <1>12, <1>13,
     <1>14, <1>15, <1>16, <1>17, <1>18, <1>19, <1>20, <1>21, <1>22, <1>23, <1>24, <1>25,
     <1>26, <1>27, <1>28, <1>29, <1>30, <1>31, <1>32, <1>33, <1>34, <1>35 DEF Next,
     HandlerStep, BrowserStep, TimerStep, SessionStep, WaitForExit

-----------------------------------------------------------------------------
(* The end of a session.                                                   *)

\* terminateWithReason leaves the process, the PTY and the attachments alone, and
\* marks only a session that stops serving.
LEMMA TerminateEnding ==
  ASSUME TypeOK, EndingInv, NEW s, Terminate(s),
         UNCHANGED <<exitPc, releases, manager, staging>>
  PROVE  EndingInv'
<1>1. \A t \in Session : /\ Live(t)' => Live(t)
                         /\ Done(t)' <=> Done(t)
                         /\ life'[t] = "unborn" <=> life[t] = "unborn"
                         /\ \/ termPc'[t] = termPc[t]
                            \/ ~Live(t)' /\ life'[t] = "ending"
  BY TerminateLife
<1>2. ReleasedOnce' /\ StagingOutlivesManager'
  BY <1>1 DEF EndingInv, ReleasedOnce, StagingOutlivesManager
<1>. QED
  BY <1>1, <1>2 DEF EndingInv

\* What EndingInv says of one session.
EndingOf(s) ==
  /\ exitPc[s] = "wait" <=> ~Done(s)
  /\ termPc[s] # "none" => ~Live(s) /\ life[s] # "unborn"
  /\ life[s] = "unborn" => releases[s] = 0
  /\ staging[s] = "cleaned" => Done(s)
  /\ manager[s] = "stuck" => exitPc[s] \in {"onDone", "end"}
  /\ releases[s] <= 1
  /\ releases[s] = 1 => ~Live(s)
  /\ exitPc[s] \in {"onDone", "end"} => releases[s] = 1
  /\ staging[s] = "cleaned" => manager[s] \in {"none", "closed"}

\* A step that concerns one session keeps EndingInv if that session keeps it.
LEMMA EndingMove ==
  ASSUME EndingInv, NEW s \in Session, EndingOf(s)',
         \A t \in Session \ {s} :
           /\ life'[t] = life[t] /\ termPc'[t] = termPc[t] /\ exitPc'[t] = exitPc[t]
           /\ releases'[t] = releases[t] /\ manager'[t] = manager[t]
           /\ staging'[t] = staging[t]
  PROVE  EndingInv'
<1>1. \A t \in Session : EndingOf(t)'
  <2>. SUFFICES ASSUME NEW t \in Session, t # s PROVE EndingOf(t)'
    OBVIOUS
  <2>1. EndingOf(t)
    BY DEF EndingInv, ReleasedOnce, StagingOutlivesManager, EndingOf
  <2>. QED
    BY <2>1 DEF EndingOf, Live, Done
<1>. QED
  BY <1>1 DEF EndingOf, EndingInv, ReleasedOnce, StagingOutlivesManager

\* EndingInv survives a step that changes neither the resources nor whether a
\* session serves or is done.
LEMMA EndingFrame ==
  ASSUME EndingInv, UNCHANGED <<termPc, exitPc, releases, manager, staging>>,
         \A t \in Session : /\ Live(t)' <=> Live(t)
                            /\ Done(t)' <=> Done(t)
                            /\ life'[t] = "unborn" <=> life[t] = "unborn"
  PROVE  EndingInv'
BY DEF EndingInv, ReleasedOnce, StagingOutlivesManager

\* waitForExit and terminateWithReason run only on sessions that stopped serving,
\* closeResources releases the PTY once, and no attachment manager outlives or
\* follows its staging directory.
LEMMA EndingStep == TypeOK /\ EndingInv /\ [Next]_vars => EndingInv'
<1>. SUFFICES ASSUME TypeOK, EndingInv, [Next]_vars PROVE EndingInv'
  OBVIOUS
<1>. Shapes
  BY ShapesOK
<1>. USE DEF serverVars, closeVars, handlerVars, timerVars, processVars, attachmentVars
<1>1. ASSUME NEW c \in Conn, CheckCurrent(c) PROVE EndingInv'
  BY <1>1, EndingFrame DEF CheckCurrent, Live, Done
<1>2. ASSUME NEW c \in Conn, Launch(c) PROVE EndingInv'
  BY <1>2 DEF Launch, Goto, EndingInv, ReleasedOnce, StagingOutlivesManager,
     Shapes, Live, Done
<1>3. ASSUME NEW c \in Conn, LaunchFails(c) PROVE EndingInv'
  BY <1>3, EndingFrame DEF LaunchFails, Live, Done
<1>4. ASSUME NEW c \in Conn, Supersede(c) PROVE EndingInv'
  BY <1>4, TerminateEnding DEF Supersede
<1>5. ASSUME NEW c \in Conn, GenerationExhausted(c) PROVE EndingInv'
  BY <1>5, TerminateEnding DEF GenerationExhausted
<1>6. ASSUME NEW c \in Conn, Superseded(c) PROVE EndingInv'
  BY <1>6, EndingFrame DEF Superseded, Live, Done
<1>7. ASSUME NEW c \in Conn, Register(c) PROVE EndingInv'
  BY <1>7, EndingFrame DEF Register, Shapes, Live, Done
<1>8. ASSUME NEW c \in Conn, RefuseAttach(c) PROVE EndingInv'
  BY ZenonT(30), <1>8, EndingFrame DEF RefuseAttach, Live, Done
<1>9. ASSUME NEW c \in Conn, BeginAttach(c) PROVE EndingInv'
  BY <1>9, EndingFrame DEF BeginAttach, Shapes, Live, Done
<1>10. ASSUME NEW c \in Conn, EndAttach(c) PROVE EndingInv'
  BY <1>10, EndingFrame DEF EndAttach, Live, Done
<1>11. ASSUME NEW c \in Conn, EndSessionReturns(c) PROVE EndingInv'
  BY <1>11, EndingFrame DEF EndSessionReturns, Live, Done
<1>12. ASSUME NEW c \in Conn, Detach(c) PROVE EndingInv'
  <2>1. UNCHANGED <<termPc, exitPc, releases, manager, staging>>
    BY <1>12 DEF Detach
  <2>2. life' = life \/ (life[hsess[c]] = "connected" /\ life' = [life EXCEPT ![hsess[c]] = "detached"])
    BY <1>12 DEF Detach
  <2>3. \A t \in Session : life'[t] = life[t] \/ (life[t] = "connected" /\ life'[t] = "detached")
    BY <2>2 DEF Shapes
  <2>4. \A t \in Session : /\ Live(t)' <=> Live(t)
                           /\ Done(t)' <=> Done(t)
                           /\ life'[t] = "unborn" <=> life[t] = "unborn"
    BY <2>3 DEF Live, Done
  <2>. QED
    BY <2>1, <2>4, EndingFrame
<1>13. ASSUME NEW c \in Conn, Connect(c) PROVE EndingInv'
  BY <1>13, EndingFrame DEF Connect, Live, Done
<1>14. ASSUME NEW c \in Conn, Input(c) PROVE EndingInv'
  BY <1>14, EndingFrame DEF Input, Live, Done
<1>15. ASSUME NEW c \in Conn, Attachment(c) PROVE EndingInv'
  <2>1. UNCHANGED <<life, termPc, exitPc, releases, staging>>
    BY <1>15 DEF Attachment
  <2>2. \/ manager' = manager
        \/ /\ Live(hsess[c])
           /\ manager' = [manager EXCEPT ![hsess[c]] = IF @ = "none" THEN "open" ELSE @]
    BY <1>15 DEF Attachment, AcceptsAttachments
  <2>3. \A t \in Session : manager'[t] = manager[t] \/ (Live(t) /\ manager'[t] = "open")
    BY <2>2 DEF Shapes
  <2>4. ASSUME NEW t \in Session PROVE EndingOf(t)'
    <3>1. EndingOf(t)
      BY DEF EndingInv, ReleasedOnce, StagingOutlivesManager, EndingOf
    <3>2. Live(t) => staging[t] # "cleaned"
      BY <3>1 DEF EndingOf, Live, Done
    <3>3. Live(t)' = Live(t) /\ Done(t)' = Done(t)
      BY <2>1 DEF Live, Done
    <3>. QED
      BY <2>1, <2>3, <3>1, <3>2, <3>3 DEF EndingOf
  <2>. QED
    BY <2>4 DEF EndingOf, EndingInv, ReleasedOnce, StagingOutlivesManager
<1>16. ASSUME NEW c \in Conn, EndSession(c) PROVE EndingInv'
  BY <1>16, TerminateEnding DEF EndSession
<1>17. ASSUME NEW c \in Conn, ConnectionEnds(c) PROVE EndingInv'
  BY <1>17, EndingFrame DEF ConnectionEnds, Live, Done
<1>18. ASSUME NEW s \in Session, ReconnectTimerFires(s) PROVE EndingInv'
  BY <1>18, EndingFrame DEF ReconnectTimerFires, Live, Done
<1>19. ASSUME NEW s \in Session, ReconnectExpires(s) PROVE EndingInv'
  BY <1>19, TerminateEnding DEF ReconnectExpires
<1>20. ASSUME NEW s \in Session, IdleTimerFires(s) PROVE EndingInv'
  BY <1>20, EndingFrame DEF IdleTimerFires, Live, Done
<1>21. ASSUME NEW s \in Session, IdleNotice(s) PROVE EndingInv'
  BY <1>21, EndingFrame DEF IdleNotice, Live, Done
<1>22. ASSUME NEW s \in Session, IdleNoticeWritten(s) PROVE EndingInv'
  BY <1>22, EndingFrame DEF IdleNoticeWritten, Live, Done
<1>23. ASSUME NEW s \in Session, IdleExpires(s) PROVE EndingInv'
  BY <1>23, TerminateEnding DEF IdleExpires
<1>24. ASSUME NEW s \in Session, Output(s) PROVE EndingInv'
  BY <1>24, EndingFrame DEF Output, Live, Done
<1>25. ASSUME NEW s \in Session, OutputWritten(s) PROVE EndingInv'
  BY <1>25, EndingFrame DEF OutputWritten, Live, Done
<1>26. ASSUME NEW s \in Session, Cancel(s) PROVE EndingInv'
  <2>1. EndingOf(s)
    BY DEF EndingInv, ReleasedOnce, StagingOutlivesManager, EndingOf
  <2>2. EndingOf(s)'
    BY <1>26, <2>1 DEF Cancel, CloseResources, EndingOf, Shapes, Live, Done
  <2>3. \A t \in Session \ {s} :
          /\ life'[t] = life[t] /\ termPc'[t] = termPc[t] /\ exitPc'[t] = exitPc[t]
          /\ releases'[t] = releases[t] /\ manager'[t] = manager[t]
          /\ staging'[t] = staging[t]
    BY <1>26 DEF Cancel, CloseResources, Shapes
  <2>. QED
    BY <2>2, <2>3, EndingMove
<1>27. ASSUME NEW s \in Session, ProcessExits(s) PROVE EndingInv'
  BY <1>27, EndingFrame DEF ProcessExits, Live, Done
<1>28. ASSUME NEW s \in Session, Finish(s) PROVE EndingInv'
  <2>1. EndingOf(s)
    BY DEF EndingInv, ReleasedOnce, StagingOutlivesManager, EndingOf
  <2>2. EndingOf(s)'
    BY <1>28, <2>1 DEF Finish, EndingOf, Shapes, Live, Done
  <2>3. \A t \in Session \ {s} :
          /\ life'[t] = life[t] /\ termPc'[t] = termPc[t] /\ exitPc'[t] = exitPc[t]
          /\ releases'[t] = releases[t] /\ manager'[t] = manager[t]
          /\ staging'[t] = staging[t]
    BY <1>28 DEF Finish, Shapes
  <2>. QED
    BY <2>2, <2>3, EndingMove
<1>29. ASSUME NEW s \in Session, ExitNotified(s) PROVE EndingInv'
  <2>1. EndingOf(s)
    BY DEF EndingInv, ReleasedOnce, StagingOutlivesManager, EndingOf
  <2>2. EndingOf(s)'
    BY <1>29, <2>1 DEF ExitNotified, EndingOf, Shapes, Live, Done
  <2>3. \A t \in Session \ {s} :
          /\ life'[t] = life[t] /\ termPc'[t] = termPc[t] /\ exitPc'[t] = exitPc[t]
          /\ releases'[t] = releases[t] /\ manager'[t] = manager[t]
          /\ staging'[t] = staging[t]
    BY <1>29 DEF ExitNotified, Shapes
  <2>. QED
    BY <2>2, <2>3, EndingMove
<1>30. ASSUME NEW s \in Session, Cleanup(s) PROVE EndingInv'
  <2>1. EndingOf(s)
    BY DEF EndingInv, ReleasedOnce, StagingOutlivesManager, EndingOf
  <2>2. EndingOf(s)'
    <3>1. /\ exitPc[s] = "cleanup" /\ exitPc'[s] = "onDone"
          /\ life'[s] = life[s] /\ termPc'[s] = termPc[s]
      BY <1>30 DEF Cleanup, Shapes
    <3>2. releases'[s] = IF releases[s] = 0 THEN 1 ELSE releases[s]
      BY <1>30 DEF Cleanup, CloseResources, Shapes
    <3>3. releases[s] \in Nat /\ releases[s] <= 1
      BY <2>1 DEF EndingOf, Shapes
    <3>4. releases'[s] = 1 /\ 1 <= 1
      BY <3>2, <3>3
    <3>5. \/ /\ manager'[s] = IF manager[s] = "open" THEN "closed" ELSE manager[s]
             /\ staging'[s] = "cleaned"
          \/ /\ manager[s] = "open" /\ manager'[s] = "stuck" /\ staging'[s] = staging[s]
      BY <1>30 DEF Cleanup, Shapes
    <3>6. manager[s] # "stuck" /\ manager[s] \in {"none", "open", "closed", "stuck"}
      BY <2>1, <3>1 DEF EndingOf, Shapes
    <3>7. staging'[s] = "cleaned" => manager'[s] \in {"none", "closed"}
      BY <2>1, <3>5, <3>6 DEF EndingOf
    <3>8. Done(s) /\ ~Live(s) /\ life[s] # "unborn"
      BY <2>1, <3>1 DEF EndingOf, Live, Done
    <3>9. Done(s)' /\ ~Live(s)' /\ life'[s] # "unborn"
      BY <3>1, <3>8 DEF Live, Done
    <3>. QED
      BY <3>1, <3>4, <3>7, <3>9 DEF EndingOf
  <2>3. \A t \in Session \ {s} :
          /\ life'[t] = life[t] /\ termPc'[t] = termPc[t] /\ exitPc'[t] = exitPc[t]
          /\ releases'[t] = releases[t] /\ manager'[t] = manager[t]
          /\ staging'[t] = staging[t]
    BY <1>30 DEF Cleanup, CloseResources, Shapes
  <2>. QED
    BY <2>2, <2>3, EndingMove
<1>31. ASSUME NEW s \in Session, ClearSession(s) PROVE EndingInv'
  <2>1. EndingOf(s)
    BY DEF EndingInv, ReleasedOnce, StagingOutlivesManager, EndingOf
  <2>2. EndingOf(s)'
    BY <1>31, <2>1 DEF ClearSession, EndingOf, Shapes, Live, Done
  <2>3. \A t \in Session \ {s} :
          /\ life'[t] = life[t] /\ termPc'[t] = termPc[t] /\ exitPc'[t] = exitPc[t]
          /\ releases'[t] = releases[t] /\ manager'[t] = manager[t]
          /\ staging'[t] = staging[t]
    BY <1>31 DEF ClearSession, Shapes
  <2>. QED
    BY <2>2, <2>3, EndingMove
<1>32. CASE CloseReads
  BY <1>32, EndingFrame DEF CloseReads, Live, Done
<1>33. CASE CloseTerminates
  BY <1>33, TerminateEnding DEF CloseTerminates
<1>34. CASE CloseReturns
  BY <1>34, EndingFrame DEF CloseReturns, Live, Done
<1>35. CASE UNCHANGED vars
  BY <1>35, EndingFrame DEF vars, Live, Done
<1>. QED
  BY <1>1, <1>2, <1>3, <1>4, <1>5, <1>6, <1>7, <1>8, <1>9, <1>10, <1>11, <1>12, <1>13,
     <1>14, <1>15, <1>16, <1>17, <1>18, <1>19, <1>20, <1>21, <1>22, <1>23, <1>24, <1>25,
     <1>26, <1>27, <1>28, <1>29, <1>30, <1>31, <1>32, <1>33, <1>34, <1>35 DEF Next,
     HandlerStep, BrowserStep, TimerStep, SessionStep, WaitForExit

-----------------------------------------------------------------------------
(* The theorems.                                                           *)

\* An Agent that has just started satisfies the invariant.
LEMMA InitInv == Init => IInv
<1>. SUFFICES ASSUME Init PROVE IInv
  OBVIOUS
<1>1. TypeOK
  BY GenerationAssumption DEF Init, TypeOK
<1>2. HandlerInv /\ RegistryInv /\ ClientInv
  BY DEF Init, HandlerInv, RegistryInv, ClientInv, Attached, Live
<1>3. EndingInv
  BY DEF Init, EndingInv, ReleasedOnce, StagingOutlivesManager, Live, Done
<1>4. TimersQuiet
  BY DEF Init, TimersQuiet
<1>. QED
  BY <1>1, <1>2, <1>3, <1>4 DEF IInv

\* Every step of the Agent keeps the invariant.
LEMMA InvStep == IInv /\ [Next]_vars => IInv'
BY TypeStep, TimersStep, HandlerStepInv, RegistryStep, ClientStep, EndingStep DEF IInv

\* The invariant gives the two properties that are not among its conjuncts.
LEMMA InvImplies == IInv => OneController /\ NoOrphanSession
<1>. SUFFICES ASSUME IInv PROVE OneController /\ NoOrphanSession
  OBVIOUS
<1>1. \A s \in Session : client[s] # None =>
        /\ hpc[client[s]] \in Attached /\ hsess[client[s]] = s
        /\ registered = s /\ gen[s] = generation
  <2>. SUFFICES ASSUME NEW s \in Session, client[s] # None
               PROVE  /\ hpc[client[s]] \in Attached /\ hsess[client[s]] = s
                      /\ registered = s /\ gen[s] = generation
    OBVIOUS
  <2>1. /\ client[s] \in Conn /\ hpc[client[s]] \in Attached
        /\ hsess[client[s]] = s /\ ~Done(s)
    BY DEF IInv, ClientInv, TypeOK
  <2>2. gen[s] > 0
    BY ZenonT(30), <2>1, NoneAssumption DEF IInv, HandlerInv
  <2>. QED
    BY <2>1, <2>2, NoneAssumption DEF IInv, RegistryInv
<1>2. OneController
  BY <1>1 DEF OneController, Attached
<1>3. NoOrphanSession
  <2>. SUFFICES ASSUME NEW s \in Session, Live(s)
               PROVE  registered = s \/ \E c \in Conn : hpc[c] = "register" /\ launched[c] = s
    BY DEF NoOrphanSession
  <2>1. CASE gen[s] = 0
    BY <2>1 DEF IInv, RegistryInv
  <2>2. CASE gen[s] > 0
    BY <2>2 DEF IInv, RegistryInv, Live, Done
  <2>. QED
    BY <2>1, <2>2, GenerationAssumption DEF IInv, TypeOK
<1>. QED
  BY <1>2, <1>3

\* IInv holds in every reachable state.
THEOREM Invariance == Spec => []IInv
BY InitInv, InvStep, PTL DEF Spec

\* Every variable keeps its type; the generation counter never passes its limit.
THEOREM TypeCorrect == Spec => []TypeOK
<1>1. IInv => TypeOK
  BY DEF IInv
<1> QED
  BY Invariance, <1>1, PTL

\* At most one browser controls a PTY, and it is the handler attached to the
\* registered session of the newest generation.
THEOREM OneControllerAlways == Spec => []OneController
BY Invariance, InvImplies, PTL

\* getOrCreateSession never leaves a running session that nobody can reach.
THEOREM NoOrphanSessionAlways == Spec => []NoOrphanSession
BY Invariance, InvImplies, PTL

\* No timer runs on a session that is ending or done.
THEOREM TimersQuietAlways == Spec => []TimersQuiet
<1>1. IInv => TimersQuiet
  BY DEF IInv
<1>. QED
  BY Invariance, <1>1, PTL

\* Every way to end a session releases its PTY once.
THEOREM ReleasedOnceAlways == Spec => []ReleasedOnce
<1>1. IInv => ReleasedOnce
  BY DEF IInv, EndingInv
<1>. QED
  BY Invariance, <1>1, PTL

\* The staging directory is not removed under an attachment manager.
THEOREM StagingOutlivesManagerAlways == Spec => []StagingOutlivesManager
<1>1. IInv => StagingOutlivesManager
  BY DEF IInv, EndingInv
<1>. QED
  BY Invariance, <1>1, PTL
=============================================================================
