------------------------- MODULE SmartLinkRxThread --------------------------
(***************************************************************************)
(* The life of a receiver: smartLinkRxInit with all it configures, the     *)
(* receiving thread, and smartLinkRxDeInit, called by the thread that      *)
(* created the receiver and, if CallbackDeInits, also by the user's        *)
(* callback, which the receiving thread runs.  What the thread decodes is  *)
(* SmartLinkRx's subject.  A receiver that ended is followed by another    *)
(* one, of the same process or, when that was killed, of the next: the     *)
(* interface is as the one before left it.                                 *)
(***************************************************************************)
EXTENDS Iface, Sockets

CONSTANTS
  CallbackDeInits,  \* the user's callback may call smartLinkRxDeInit
  MaxLives          \* bound: receivers created one after the other

ASSUME RxThreadAssumption == CallbackDeInits \in BOOLEAN /\ MaxLives \in Nat

VARIABLES
  receivers,   \* the context: "none", "live" or "freed"
  sockFd,      \* field of the context
  threadExit,  \* field of the context
  noblock,     \* O_NONBLOCK of the socket
  openFds,     \* descriptors open in the process
  main,        \* where the creating thread is
  thread,      \* where the receiving thread is; "none" before pthread_create
  selfDeInit,  \* history: the callback called smartLinkRxDeInit
  leaked,      \* history: descriptors that earlier receivers left open
  lives        \* history: receivers created so far

contextVars == <<receivers, sockFd, threadExit>>
socketVars  == <<noblock, openFds>>
historyVars == <<selfDeInit, leaked, lives>>
ownVars     == <<contextVars, socketVars, main, thread, historyVars>>
rxtVars     == <<ifaceVars, ownVars>>

RxtInit ==
  /\ IfaceInit
  /\ receivers  = "none"
  /\ sockFd     = 0            \* calloc
  /\ threadExit = FALSE
  /\ noblock    = FALSE
  /\ openFds    = {}
  /\ main       = "init"
  /\ thread     = "none"
  /\ selfDeInit = FALSE
  /\ leaked     = {}
  /\ lives      = 1

-----------------------------------------------------------------------------
(***************************************************************************)
(* smartLinkRxInit.  Every failure goes to smartLinkRxDeInit.              *)
(***************************************************************************)
NoMemory ==
  /\ main = "init"
  /\ main' = "null"
  /\ UNCHANGED <<ifaceVars, contextVars, socketVars, thread, historyVars>>

\* Mutant: the result of socket() is not looked at.
CreateSocketUnchecked ==
  /\ main = "init"
  /\ receivers' = "live"
  /\ \E fd \in Created(openFds) :
       /\ sockFd'  = fd
       /\ openFds' = openFds \cup {fd}
       /\ main'    = "bind"
  /\ UNCHANGED <<ifaceVars, threadExit, noblock, thread, historyVars>>

CreateSocket ==
  /\ main = "init"
  /\ receivers' = "live"
  /\ \E fd \in Created(openFds) :
       /\ sockFd'  = fd
       /\ openFds' = openFds \cup ({fd} \ {INVALID_SOCKET})
       /\ main'    = IF Valid(fd) THEN "bind" ELSE "deinit"
  /\ UNCHANGED <<ifaceVars, threadExit, noblock, thread, historyVars>>

\* The calls of _smartLinkRxSockConfig.  Each of them may fail.
BindIfcdev ==
  /\ main = "bind"
  /\ main' \in {"iface", "deinit"}
  /\ UNCHANGED <<ifaceVars, contextVars, socketVars, thread, historyVars>>

ConfigureIface ==
  /\ main = "iface"
  /\ \/ Configure /\ UNCHANGED main
     \/ step = "done"   /\ main' = "noblocking" /\ UNCHANGED ifaceVars
     \/ step = "failed" /\ main' = "deinit"     /\ UNCHANGED ifaceVars
     \/ step = "crashed" /\ main' = "crashed" /\ UNCHANGED ifaceVars
  /\ UNCHANGED <<contextVars, socketVars, thread, historyVars>>

\* Mutant: the flag is not set.
SetNoblockingNot ==
  /\ main = "noblocking"
  /\ main' \in {"revcbuffer", "deinit"}
  /\ UNCHANGED <<ifaceVars, contextVars, socketVars, thread, historyVars>>

SetNoblocking ==
  /\ main = "noblocking"
  /\ \/ main' = "revcbuffer" /\ noblock' = TRUE
     \/ main' = "deinit"     /\ UNCHANGED noblock
  /\ UNCHANGED <<ifaceVars, contextVars, openFds, thread, historyVars>>

SetRevcbuffer ==
  /\ main = "revcbuffer"
  /\ main' \in {"create", "deinit"}
  /\ UNCHANGED <<ifaceVars, contextVars, socketVars, thread, historyVars>>

CreateThread ==
  /\ main = "create"
  /\ threadExit' = FALSE
  /\ \/ main' = "running" /\ thread' = "test"
     \/ main' = "deinit"  /\ UNCHANGED thread
  /\ UNCHANGED <<ifaceVars, receivers, sockFd, socketVars, historyVars>>

SmartLinkRxInit ==
  \/ NoMemory \/ CreateSocket \/ BindIfcdev \/ ConfigureIface
  \/ SetNoblocking \/ SetRevcbuffer \/ CreateThread

-----------------------------------------------------------------------------
(***************************************************************************)
(* smartLinkRxDeInit, in the creating thread                               *)
(***************************************************************************)
CallDeInit ==
  /\ main = "running"
  /\ main' = "deinit"
  /\ UNCHANGED <<ifaceVars, contextVars, socketVars, thread, historyVars>>

\* Mutant: the thread is told to exit but not joined.
DeInitNoJoin ==
  /\ main = "deinit"
  /\ main' = "close"
  /\ threadExit' = TRUE
  /\ UNCHANGED <<ifaceVars, receivers, sockFd, socketVars, thread, historyVars>>

DeInit ==
  /\ main = "deinit"
  /\ main' = IF threadExit THEN "close" ELSE "join"
  /\ threadExit' = TRUE
  /\ UNCHANGED <<ifaceVars, receivers, sockFd, socketVars, thread, historyVars>>

\* After a failed Init there is no thread to join: pthread_join on a handle
\* that is still 0 crashes, or fails and leaves context and socket behind.
Join ==
  /\ main = "join"
  /\ \/ thread = "exited" /\ main' = "close"
     \/ thread = "none"   /\ main' \in {"crashed", "null"}
  /\ UNCHANGED <<ifaceVars, contextVars, socketVars, thread, historyVars>>

CloseSocket == openFds' = StillOpen(openFds, sockFd) /\ sockFd' = Closed(sockFd)

Close ==
  /\ main = "close"
  /\ IF receivers = "live" THEN CloseSocket /\ main' = "free"
                           ELSE UNCHANGED <<sockFd, openFds>> /\ main' = "stray"
  /\ UNCHANGED <<ifaceVars, receivers, threadExit, noblock, thread, historyVars>>

Free ==
  /\ main = "free"
  /\ receivers' = "freed"
  /\ main' = "null"
  /\ UNCHANGED <<ifaceVars, sockFd, threadExit, socketVars, thread, historyVars>>

MainDeInit == DeInit \/ Join \/ Close \/ Free

-----------------------------------------------------------------------------
(***************************************************************************)
(* The receiving thread: while (!ctx->threadExit) { recv; decode }.        *)
(* "stray" is a thread reading the context after it was freed.             *)
(***************************************************************************)
ThreadGoes(to) == thread' = (IF receivers = "live" THEN to ELSE "stray")

Test ==
  /\ thread = "test"
  /\ ThreadGoes(IF threadExit THEN "exited" ELSE "recv")
  /\ UNCHANGED <<ifaceVars, contextVars, socketVars, main, historyVars>>

\* recvfrom without a frame: a socket that does not block reports an error,
\* and so does ST_CHECK_SOCKET when the socket was closed; the loop turns.
RecvNothing ==
  /\ thread = "recv"
  /\ noblock \/ ~Valid(sockFd)
  /\ ThreadGoes("test")
  /\ UNCHANGED <<ifaceVars, contextVars, socketVars, main, historyVars>>

\* A frame arrives; it may be the one that completes a message.
RecvFrame ==
  /\ thread = "recv"
  /\ Valid(sockFd)
  /\ ThreadGoes("test") \/ ThreadGoes("callback")
  /\ UNCHANGED <<ifaceVars, contextVars, socketVars, main, historyVars>>

\* The frame completed a message.  The callback returns, having done nothing
\* to the receiver ...
Callback ==
  /\ thread = "callback"
  /\ ThreadGoes("test")
  /\ UNCHANGED <<ifaceVars, contextVars, socketVars, main, historyVars>>

\* ... or having called smartLinkRxDeInit: joining itself fails with EDEADLK,
\* unless somebody set threadExit before; then the receiver is closed and
\* freed under the thread's own feet.
CallbackCallsDeInit ==
  /\ CallbackDeInits
  /\ thread = "callback"
  /\ selfDeInit' = TRUE
  /\ ThreadGoes("test")
  /\ threadExit' = TRUE
  /\ IF threadExit /\ receivers = "live"
       THEN CloseSocket /\ receivers' = "freed"
       ELSE UNCHANGED <<sockFd, openFds, receivers>>
  /\ UNCHANGED <<ifaceVars, noblock, main, leaked, lives>>

ThreadStep == Test \/ RecvNothing \/ Callback \/ CallbackCallsDeInit

-----------------------------------------------------------------------------
(***************************************************************************)
(* The next receiver: after the one before ended or failed, or because the *)
(* program was killed, wherever it was, and started again.                 *)
(***************************************************************************)
NewLife(open) ==
  /\ lives < MaxLives
  /\ lives' = lives + 1
  /\ ConfigureAnew
  /\ receivers'  = "none"
  /\ sockFd'     = 0
  /\ threadExit' = FALSE
  /\ noblock'    = FALSE
  /\ openFds'    = open
  /\ leaked'     = open
  /\ main'       = "init"
  /\ thread'     = "none"
  /\ selfDeInit' = FALSE

InitAgain == main = "null" /\ thread \in {"none", "exited"} /\ NewLife(openFds)
Killed    == main # "init" /\ NewLife({})

RivalStep == Rival /\ UNCHANGED ownVars

RxtNext ==
  \/ SmartLinkRxInit \/ CallDeInit \/ MainDeInit
  \/ ThreadStep \/ RecvFrame
  \/ InitAgain \/ Killed \/ RivalStep

RxtSpec == RxtInit /\ [][RxtNext]_rxtVars

\* Both threads run; nothing makes a frame arrive, and the user decides when to
\* call smartLinkRxDeInit.
RxtFairSpec ==
  /\ RxtSpec
  /\ WF_rxtVars(SmartLinkRxInit \/ MainDeInit)
  /\ WF_rxtVars(ThreadStep)

-----------------------------------------------------------------------------
(***************************************************************************)
(* Properties                                                              *)
(***************************************************************************)
RxtTypeOK ==
  /\ {flags, oldflags, ifr, wanted} \subseteq SUBSET Flag
  /\ mode \in {"managed", "monitor"}
  /\ receivers \in {"none", "live", "freed"}
  /\ sockFd \in Fds \cup {INVALID_SOCKET, 0}
  /\ leaked \subseteq openFds /\ openFds \subseteq Fds
  /\ main \in {"init", "bind", "iface", "noblocking", "revcbuffer", "create", "running",
               "deinit", "join", "close", "free", "null", "crashed", "stray"}
  /\ thread \in {"none", "test", "recv", "callback", "exited", "stray"}

Running == thread \in {"test", "recv", "callback"}

\* The receiving thread never finds its context freed or its socket closed
\* (and perhaps reused by somebody else), as long as the callback keeps away
\* from smartLinkRxDeInit; neither does the creating thread free it twice.
ContextOutlivesThread ==
  /\ Running /\ ~selfDeInit => receivers = "live" /\ sockFd \in openFds
  /\ thread = "stray" \/ main = "stray" => selfDeInit

\* A handle is handed out only with the interface in monitor mode, up and on
\* the channel asked for, wherever an earlier attempt to configure it failed or
\* was killed.
ListensOnChannel ==
  main = "running" =>
    /\ mode = "monitor"
    /\ "UP" \notin raced => "UP" \in flags
    /\ channel \in DOMAIN CenterFreq => freq = CenterFreq[channel]

\* By then every other flag is as it was found, or as another program wanted
\* it in the meantime, unless it was changed in one of the windows of iface.c.
FlagsKept ==
  main = "running" =>
    \A f \in Flag \ ({"UP"} \cup raced) : f \in flags <=> f \in wanted

\* smartLinkRxDeInit returns: the receiving thread is never stuck in recvfrom
\* when it is asked to exit, although perhaps no frame ever comes.
DeInitEnds ==
  main = "deinit" ~> main \in {"null", "crashed", "stray", "init"} \/ thread = "stray"

\* smartLinkRxDeInit of a running receiver gives back thread, socket and
\* context.  (What leaks are the sockets of failed smartLinkRxInit calls.)
DeInitReleases ==
  main = "null" /\ thread # "none" /\ ~selfDeInit =>
    thread = "exited" /\ receivers = "freed" /\ openFds = leaked

\* smartLinkRxInit reports a failure by returning NULL.
InitReturns == main # "crashed"
=============================================================================
