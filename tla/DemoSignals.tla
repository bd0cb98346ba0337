---------------------------- MODULE DemoSignals -----------------------------
(***************************************************************************)
(* How the two demo programs end.  smartlinktx_demo sends rounds in its    *)
(* main thread until gThreadExit is set; smartlinkrx_demo sleeps in its    *)
(* main thread while the receiving thread works, then stops and joins it.  *)
(* Either begins by creating its transmitter or receiver, which may fail.  *)
(* Both set gThreadExit in a signal handler, after an ERR, and LOG and ERR *)
(* call localtime, which holds a lock of the C library while it runs.      *)
(*                                                                         *)
(* A thread is the list of what it still has to do; a signal puts the      *)
(* handler in front of it.                                                 *)
(***************************************************************************)
EXTENDS Integers, Sequences, FiniteSets

CONSTANTS
  Main,        \* the main thread
  Receiver,    \* the receiving thread of smartlinkrx_demo
  Nobody,      \* holds no lock
  MaxSignals   \* bound: signals sent to the program

ASSUME DemoAssumption == Main # Receiver /\ Nobody \notin {Main, Receiver} /\ MaxSignals \in Nat

VARIABLES
  worker,       \* the thread that works and logs: Main (tx) or Receiver (rx)
  started,      \* smartlinktTxInit or smartLinkRxInit has succeeded
  gThreadExit,
  threadExit,   \* of the receiver's context, set by smartLinkRxDeInit
  libc,         \* holder of localtime's lock
  todo,         \* per thread: instructions up to its next turn
  ended,        \* threads that have returned
  raised,       \* signals sent
  unlucky       \* history: a signal hit the thread that held the lock

demoVars == <<worker, started, gThreadExit, threadExit, libc, todo, ended, raised, unlucky>>

Threads == {Main} \cup (IF started THEN {worker} ELSE {})

\* ERR and LOG, and signal_handler.
Log     == <<"lock", "unlock">>
Handler == Log \o <<"setflag">>

\* The handlers are installed; the main thread is about to call its Init,
\* which logs.
DemoInit ==
  /\ worker \in {Main, Receiver}
  /\ started     = FALSE
  /\ gThreadExit = FALSE
  /\ threadExit  = FALSE
  /\ libc    = Nobody
  /\ todo    = [t \in {Main, Receiver} |-> IF t = Main THEN Log \o <<"init">> ELSE <<>>]
  /\ ended   = {}
  /\ raised  = 0
  /\ unlucky = FALSE

Next1(t, i) == todo[t] # <<>> /\ Head(todo[t]) = i
Done1(t)    == todo' = [todo EXCEPT ![t] = Tail(@)]
Ready(t)    == t \notin ended /\ todo[t] = <<>>

-----------------------------------------------------------------------------
TakeLock(t) ==
  /\ Next1(t, "lock")
  /\ libc = Nobody
  /\ libc' = t
  /\ Done1(t)
  /\ UNCHANGED <<worker, started, gThreadExit, threadExit, ended, raised, unlucky>>

ReleaseLock(t) ==
  /\ Next1(t, "unlock")
  /\ libc' = Nobody
  /\ Done1(t)
  /\ UNCHANGED <<worker, started, gThreadExit, threadExit, ended, raised, unlucky>>

SetFlag(t) ==
  /\ Next1(t, "setflag")
  /\ gThreadExit' = TRUE
  /\ Done1(t)
  /\ UNCHANGED <<worker, started, threadExit, libc, ended, raised, unlucky>>

\* Init succeeds; or it fails and the program returns; or it is a failing
\* smartLinkRxInit that crashes in pthread_join, there being no thread.
Start(t) ==
  /\ Next1(t, "init")
  /\ \/ started' = TRUE /\ Done1(t) /\ UNCHANGED ended
     \/ ended' = ended \cup {t} /\ Done1(t) /\ UNCHANGED started
     \/ worker # Main /\ todo' = [todo EXCEPT ![t] = <<"fault">>] /\ UNCHANGED <<started, ended>>
  /\ UNCHANGED <<worker, gThreadExit, threadExit, libc, raised, unlucky>>

\* SIGSEGV.  The handler returns to the instruction that faulted.
Fault(t) ==
  /\ Next1(t, "fault")
  /\ todo' = [todo EXCEPT ![t] = Handler \o @]
  /\ UNCHANGED <<worker, started, gThreadExit, threadExit, libc, ended, raised, unlucky>>

\* while (!gThreadExit) smartlinkTxSend(...), or while (!ctx->threadExit) ...;
\* a turn logs once.
Turn(t) ==
  /\ t = worker /\ Ready(t)
  /\ IF (IF t = Main THEN gThreadExit ELSE threadExit)
       THEN ended' = ended \cup {t} /\ UNCHANGED todo
       ELSE todo' = [todo EXCEPT ![t] = Log] /\ UNCHANGED ended
  /\ UNCHANGED <<worker, started, gThreadExit, threadExit, libc, raised, unlucky>>

\* Mutant: the receiving thread is not told to exit.
StopReceiverUntold ==
  /\ worker # Main /\ Ready(Main)
  /\ gThreadExit
  /\ UNCHANGED demoVars

\* smartlinkrx_demo: while (!gThreadExit) sleep(1); then smartLinkRxDeInit.
StopReceiver ==
  /\ worker # Main /\ Ready(Main)
  /\ gThreadExit
  /\ threadExit' = TRUE
  /\ UNCHANGED <<worker, started, gThreadExit, libc, todo, ended, raised, unlucky>>

\* Mutant: the receiving thread is not waited for.
JoinReceiverNot ==
  /\ worker # Main /\ Ready(Main)
  /\ threadExit
  /\ ended' = ended \cup {Main}
  /\ UNCHANGED <<worker, started, gThreadExit, threadExit, libc, todo, raised, unlucky>>

JoinReceiver ==
  /\ worker # Main /\ Ready(Main)
  /\ threadExit /\ worker \in ended
  /\ ended' = ended \cup {Main}
  /\ UNCHANGED <<worker, started, gThreadExit, threadExit, libc, todo, raised, unlucky>>

\* SIGINT, SIGTERM ... to the program: any of its threads may run the handler.
Signal(t) ==
  /\ t \notin ended /\ Main \notin ended
  /\ raised < MaxSignals
  /\ raised' = raised + 1
  /\ todo' = [todo EXCEPT ![t] = Handler \o @]
  /\ unlucky' = (unlucky \/ libc = t)
  /\ UNCHANGED <<worker, started, gThreadExit, threadExit, libc, ended>>

ThreadRuns(t) == TakeLock(t) \/ ReleaseLock(t) \/ SetFlag(t) \/ Start(t) \/ Fault(t) \/ Turn(t)
                 \/ (t = Main /\ (StopReceiver \/ JoinReceiver))

DemoNext == \E t \in Threads : ThreadRuns(t) \/ Signal(t)

\* The scheduler runs both threads; the lock goes to one that keeps asking.
DemoSpec == DemoInit /\ [][DemoNext]_demoVars
            /\ \A t \in {Main, Receiver} : SF_demoVars(t \in Threads /\ ThreadRuns(t))

-----------------------------------------------------------------------------
(***************************************************************************)
(* Properties                                                              *)
(***************************************************************************)
Faulting == \E i \in DOMAIN todo[Main] : todo[Main][i] = "fault"

\* A signal ends the program, whichever thread runs the handler, in whatever
\* state the other one is, unless it hit a thread inside localtime or the
\* program is caught in a fault.
SignalEndsProgram == raised > 0 ~> Main \in ended \/ unlucky \/ Faulting

\* Once it has started, the main thread returns only because the flag was set
\* and after the receiving thread did; nobody is left holding the lock.
ReturnsAlone ==
  Main \in ended => libc = Nobody /\ (started => gThreadExit /\ worker \in ended)

\* The comment in signal_handler: a signal sets the flag that makes the program
\* exit.
SignalSetsFlag == raised > 0 ~> gThreadExit

\* The same comment at SIGSEGV: the program is to exit.
FaultEndsProgram == Faulting ~> Main \in ended
=============================================================================
