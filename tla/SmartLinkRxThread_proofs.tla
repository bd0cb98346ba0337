---------------------- MODULE SmartLinkRxThread_proofs ----------------------
(***************************************************************************)
(* The life of a receiver, for any channels, any number of lives and any   *)
(* number of changes by the rival program.  The proof has two halves that  *)
(* do not touch: the interface (IfaceInv) and context, socket and thread   *)
(* (LifeInv).                                                              *)
(***************************************************************************)
EXTENDS SmartLinkRxThread, TLAPS

-----------------------------------------------------------------------------
(***************************************************************************)
(* The interface (iface.c)                                                 *)
(***************************************************************************)
\* A flag that no race concerns is always as the others want it; so is the copy
\* that is about to be written, and nothing but such flags is restored.
FlagsInv ==
  \A f \in Flag \ ({"UP"} \cup raced) :
    /\ f \in flags <=> f \in wanted
    /\ step \in {"down_set", "up_set"} => (f \in ifr <=> f \in wanted)
    /\ step \in {"down_get", "down_set", "mode", "up_get", "up_set"} /\ f \in oldflags
         => f \in wanted

\* What each step of the configuration leaves to the next ones.
StepsInv ==
  /\ step \in {"up_get", "up_set", "freq", "done"} => mode = "monitor"
  /\ step \in {"freq", "done"} /\ "UP" \notin raced => "UP" \in flags
  /\ step = "done" /\ channel \in DOMAIN CenterFreq => freq = CenterFreq[channel]

IfaceInv ==
  /\ {flags, oldflags, ifr, wanted} \subseteq SUBSET Flag
  /\ mode \in {"managed", "monitor"}
  /\ FlagsInv
  /\ StepsInv

-----------------------------------------------------------------------------
(***************************************************************************)
(* Context, socket and thread (smartlinkrx.c:70-199)                       *)
(***************************************************************************)
Setup == {"bind", "iface", "noblocking", "revcbuffer", "create"}

\* The socket in the context is the only one this receiver holds open.
SocketInv ==
  /\ sockFd \in Fds \cup {INVALID_SOCKET, 0}
  /\ leaked \subseteq openFds /\ openFds \subseteq Fds
  /\ Valid(sockFd) => sockFd \notin leaked /\ openFds = leaked \cup {sockFd}
  /\ ~Valid(sockFd) /\ thread # "none" => openFds = leaked

\* Until smartLinkRxInit has created the thread nobody asks it to exit.
SetupInv ==
  /\ main \in Setup \cup {"init"} => thread = "none" /\ ~threadExit
  /\ main \in Setup => receivers = "live" /\ Valid(sockFd)
  /\ main = "init" => openFds = leaked
  /\ main \in {"noblocking", "revcbuffer", "create", "running"} => step = "done"
  /\ thread = "none" => ~selfDeInit

\* A receiver whose callback keeps away from smartLinkRxDeInit: context and
\* socket are there until the thread has exited, and the thread exits after
\* smartLinkRxDeInit has asked it to.
OrderlyEnd ==
  /\ main = "running" => thread # "none"
  /\ main \in {"running", "deinit"} => ~threadExit /\ thread # "exited"
  /\ main \in {"running", "deinit", "join", "close", "free"} => receivers = "live"
  /\ main \in {"running", "deinit", "join", "close"} /\ thread # "none" => Valid(sockFd)
  /\ main \in {"close", "free"} => thread = "exited"
  /\ main = "free" => ~Valid(sockFd)
  /\ main = "null" => thread = "none" \/ (thread = "exited" /\ receivers = "freed" /\ ~Valid(sockFd))
  /\ main = "crashed" => thread = "none"
  /\ main # "stray" /\ thread # "stray"

\* Where the two threads are.
ThreadsInv ==
  /\ receivers \in {"none", "live", "freed"}
  /\ main \in Setup \cup {"init", "running", "deinit", "join", "close", "free", "null",
                          "crashed", "stray"}
  /\ thread \in {"none", "test", "recv", "callback", "exited", "stray"}
  /\ threadExit \in BOOLEAN /\ selfDeInit \in BOOLEAN

LifeInv ==
  /\ ThreadsInv
  /\ SocketInv
  /\ SetupInv
  /\ ~selfDeInit => OrderlyEnd

RxtInv == IfaceInv /\ LifeInv

-----------------------------------------------------------------------------
(***************************************************************************)
(* iface.c keeps its invariant.                                            *)
(***************************************************************************)
LEMMA IfaceInvInit == IfaceInit => IfaceInv
<1> SUFFICES ASSUME IfaceInit PROVE IfaceInv
  OBVIOUS
<1>1. FlagsInv
  BY DEF IfaceInit, FlagsInv
<1>2. StepsInv
  BY DEF IfaceInit, StepsInv
<1> QED BY <1>1, <1>2 DEF IfaceInit, IfaceInv

\* The ioctls of iface.c:75-165.
LEMMA ConfigureStep == IfaceInv /\ Configure => IfaceInv'
<1> SUFFICES ASSUME IfaceInv, Configure PROVE IfaceInv'
  OBVIOUS
<1> USE DEF Configure, Fail, rivalVars
<1>1. {flags, oldflags, ifr, wanted}' \subseteq SUBSET Flag
  <2>1. "UP" \in Flag /\ {flags, oldflags, ifr, wanted} \subseteq SUBSET Flag
    BY DEF IfaceInv, Flag
  <2>2. {flags', oldflags', ifr', wanted'} \subseteq SUBSET Flag
    BY <2>1 DEF GetFlags, SetDownGet, SetDownSet, SetMode, SetUpGet, SetUpSet, SetFreq, ScanFaults
  <2> QED BY <2>2
<1>5. mode' \in {"managed", "monitor"}
  BY DEF IfaceInv, GetFlags, SetDownGet, SetDownSet, SetMode, SetUpGet, SetUpSet, SetFreq, ScanFaults
<1>2. ASSUME NEW f \in Flag, f # "UP", f \notin raced'
      PROVE  /\ f \in flags' <=> f \in wanted'
             /\ step' \in {"down_set", "up_set"} => (f \in ifr' <=> f \in wanted')
             /\ step' \in {"down_get", "down_set", "mode", "up_get", "up_set"} /\ f \in oldflags'
                  => f \in wanted'
  <2>1. UNCHANGED <<wanted, raced>>
    BY DEF Configure, GetFlags, SetDownGet, SetDownSet, SetMode, SetUpGet, SetUpSet, SetFreq,
           ScanFaults, Fail, rivalVars
  <2>2. /\ f \in flags <=> f \in wanted
        /\ step \in {"down_set", "up_set"} => (f \in ifr <=> f \in wanted)
        /\ step \in {"down_get", "down_set", "mode", "up_get", "up_set"} /\ f \in oldflags
             => f \in wanted
    BY <1>2, <2>1 DEF IfaceInv, FlagsInv
  <2>3. CASE GetFlags
    BY <2>1, <2>2, <2>3 DEF GetFlags
  <2>4. CASE SetDownGet \/ SetUpGet
    BY <2>1, <2>2, <2>4 DEF SetDownGet, SetUpGet
  <2>5. CASE SetDownSet \/ SetUpSet
    BY <1>2, <2>1, <2>2, <2>5 DEF SetDownSet, SetUpSet
  <2>6. CASE SetMode \/ SetFreq \/ ScanFaults
    BY <2>1, <2>2, <2>6 DEF SetMode, SetFreq, ScanFaults
  <2>7. CASE step' = "failed" /\ UNCHANGED <<flags, oldflags, ifr, wanted>>
    BY <2>1, <2>2, <2>7
  <2> QED BY <2>3, <2>4, <2>5, <2>6, <2>7
<1>3. FlagsInv'
  BY <1>2 DEF FlagsInv
<1>4. StepsInv'
  BY DEF Configure, GetFlags, SetDownGet, SetDownSet, SetMode, SetUpGet, SetUpSet, SetFreq,
         ScanFaults, Fail, Getfreq, rivalVars, IfaceInv, StepsInv
<1> QED BY <1>1, <1>3, <1>4, <1>5 DEF IfaceInv

\* A change by another program that gets lost is remembered in raced.
LEMMA RivalKeeps == IfaceInv /\ Rival => IfaceInv'
<1> SUFFICES ASSUME IfaceInv, NEW g \in {"UP", "PROMISC"},
                    flags' = Toggled(flags, g), wanted' = Toggled(wanted, g),
                    raced' = IF Lost(g) THEN raced \cup {g} ELSE raced,
                    UNCHANGED <<channel, mode, freq, step, oldflags, ifr>>
             PROVE  IfaceInv'
  BY DEF Rival
<1>1. {flags, oldflags, ifr, wanted}' \subseteq SUBSET Flag /\ mode' \in {"managed", "monitor"}
  BY DEF IfaceInv, Toggled, Flag
<1>2. ASSUME NEW f \in Flag, f # "UP", f \notin raced'
      PROVE  /\ f \in flags' <=> f \in wanted'
             /\ step' \in {"down_set", "up_set"} => (f \in ifr' <=> f \in wanted')
             /\ step' \in {"down_get", "down_set", "mode", "up_get", "up_set"} /\ f \in oldflags'
                  => f \in wanted'
  <2>1. /\ f \notin raced
        /\ f \in flags <=> f \in wanted
        /\ step \in {"down_set", "up_set"} => (f \in ifr <=> f \in wanted)
        /\ step \in {"down_get", "down_set", "mode", "up_get", "up_set"} /\ f \in oldflags
             => f \in wanted
    BY <1>2 DEF IfaceInv, FlagsInv
  <2>2. CASE f = g
    BY <1>2, <2>1, <2>2 DEF Toggled, Lost
  <2>3. CASE f # g
    BY <2>1, <2>3 DEF Toggled
  <2> QED BY <2>2, <2>3
<1>3. FlagsInv'
  BY <1>2 DEF FlagsInv
<1>4. StepsInv'
  BY DEF IfaceInv, StepsInv, Toggled, Lost
<1> QED BY <1>1, <1>3, <1>4 DEF IfaceInv

\* The next receiver finds the interface as the one before left it.
LEMMA AnewKeeps == IfaceInv /\ ConfigureAnew => IfaceInv'
BY DEF ConfigureAnew, rivalVars, IfaceInv, FlagsInv, StepsInv, Flag

LEMMA IfaceUnchanged == IfaceInv /\ UNCHANGED ifaceVars => IfaceInv'
BY DEF ifaceVars, rivalVars, IfaceInv, FlagsInv, StepsInv

-----------------------------------------------------------------------------
(***************************************************************************)
(* smartlinkrx.c keeps its invariant.                                      *)
(***************************************************************************)
LEMMA RxtInvInit == RxtInit => RxtInv
<1> SUFFICES ASSUME RxtInit PROVE RxtInv
  OBVIOUS
<1>1. LifeInv
  <2>1. SocketInv
    BY DEF RxtInit, SocketInv, Valid
  <2>2. SetupInv
    BY DEF RxtInit, SetupInv, Setup
  <2>3. OrderlyEnd
    BY DEF RxtInit, OrderlyEnd
  <2>4. ThreadsInv
    BY DEF RxtInit, ThreadsInv
  <2> QED BY <2>1, <2>2, <2>3, <2>4 DEF LifeInv
<1> QED BY <1>1, IfaceInvInit DEF RxtInit, RxtInv

\* smartLinkRxInit.
LEMMA InitKeeps == RxtInv /\ SmartLinkRxInit => RxtInv'
<1> SUFFICES ASSUME RxtInv, SmartLinkRxInit PROVE RxtInv'
  OBVIOUS
<1>1. IfaceInv'
  BY ConfigureStep, IfaceUnchanged
     DEF RxtInv, SmartLinkRxInit, NoMemory, CreateSocket, BindIfcdev, ConfigureIface,
         SetNoblocking, SetRevcbuffer, CreateThread
<1>2. main \in Setup \cup {"init"}
  BY DEF Setup, SmartLinkRxInit, NoMemory, CreateSocket, BindIfcdev,
         ConfigureIface, SetNoblocking, SetRevcbuffer, CreateThread
<1>3. /\ ThreadsInv /\ SocketInv /\ SetupInv
      /\ thread = "none" /\ ~threadExit /\ ~selfDeInit /\ OrderlyEnd
  BY <1>2 DEF RxtInv, LifeInv, SetupInv
<1> USE DEF contextVars, socketVars, historyVars, ifaceVars
<1>4. ASSUME NoMemory PROVE LifeInv'
  <2>1. ThreadsInv'
    BY <1>3, <1>4 DEF NoMemory, ThreadsInv, Setup
  <2>2. SocketInv'
    BY <1>3, <1>4 DEF NoMemory, SocketInv
  <2>3. SetupInv'
    BY <1>3, <1>4 DEF NoMemory, SetupInv, Setup
  <2>4. ~selfDeInit' => OrderlyEnd'
    BY <1>3, <1>4 DEF NoMemory, ThreadsInv, OrderlyEnd, SetupInv, Setup
  <2> QED BY <2>1, <2>2, <2>3, <2>4 DEF LifeInv
<1>5. ASSUME CreateSocket PROVE LifeInv'
  <2>1. ThreadsInv'
    BY <1>3, <1>5 DEF CreateSocket, Created, Valid, INVALID_SOCKET, ThreadsInv, Setup
  <2>2. SocketInv'
    BY <1>3, <1>5, FdsAssumption
       DEF CreateSocket, Created, Valid, INVALID_SOCKET, SocketInv, SetupInv
  <2>3. SetupInv'
    BY <1>3, <1>5 DEF CreateSocket, Created, Valid, INVALID_SOCKET, SetupInv, Setup
  <2>4. ~selfDeInit' => OrderlyEnd'
    BY <1>3, <1>5 DEF CreateSocket, Created, Valid, INVALID_SOCKET, ThreadsInv, OrderlyEnd, SetupInv, Setup
  <2> QED BY <2>1, <2>2, <2>3, <2>4 DEF LifeInv
<1>6. ASSUME BindIfcdev PROVE LifeInv'
  <2>1. ThreadsInv'
    BY <1>3, <1>6 DEF BindIfcdev, ThreadsInv, Setup
  <2>2. SocketInv'
    BY <1>3, <1>6 DEF BindIfcdev, SocketInv
  <2>3. SetupInv'
    BY <1>3, <1>6 DEF BindIfcdev, SetupInv, Setup
  <2>4. ~selfDeInit' => OrderlyEnd'
    BY <1>3, <1>6 DEF BindIfcdev, ThreadsInv, OrderlyEnd, SetupInv, Setup
  <2> QED BY <2>1, <2>2, <2>3, <2>4 DEF LifeInv
<1>7. ASSUME ConfigureIface PROVE LifeInv'
  <2>1. ThreadsInv'
    BY <1>3, <1>7 DEF ConfigureIface, ThreadsInv, Setup
  <2>2. SocketInv'
    BY <1>3, <1>7 DEF ConfigureIface, SocketInv
  <2>3. SetupInv'
    BY <1>3, <1>7 DEF ConfigureIface, SetupInv, Setup
  <2>4. ~selfDeInit' => OrderlyEnd'
    BY <1>3, <1>7 DEF ConfigureIface, ThreadsInv, OrderlyEnd, SetupInv, Setup
  <2> QED BY <2>1, <2>2, <2>3, <2>4 DEF LifeInv
<1>8. ASSUME SetNoblocking PROVE LifeInv'
  <2>1. ThreadsInv'
    BY <1>3, <1>8 DEF SetNoblocking, ThreadsInv, Setup
  <2>2. SocketInv'
    BY <1>3, <1>8 DEF SetNoblocking, SocketInv
  <2>3. SetupInv'
    BY <1>3, <1>8 DEF SetNoblocking, SetupInv, Setup
  <2>4. ~selfDeInit' => OrderlyEnd'
    BY <1>3, <1>8 DEF SetNoblocking, ThreadsInv, OrderlyEnd, SetupInv, Setup
  <2> QED BY <2>1, <2>2, <2>3, <2>4 DEF LifeInv
<1>9. ASSUME SetRevcbuffer PROVE LifeInv'
  <2>1. ThreadsInv'
    BY <1>3, <1>9 DEF SetRevcbuffer, ThreadsInv, Setup
  <2>2. SocketInv'
    BY <1>3, <1>9 DEF SetRevcbuffer, SocketInv
  <2>3. SetupInv'
    BY <1>3, <1>9 DEF SetRevcbuffer, SetupInv, Setup
  <2>4. ~selfDeInit' => OrderlyEnd'
    BY <1>3, <1>9 DEF SetRevcbuffer, ThreadsInv, OrderlyEnd, SetupInv, Setup
  <2> QED BY <2>1, <2>2, <2>3, <2>4 DEF LifeInv
<1>10. ASSUME CreateThread PROVE LifeInv'
  <2>1. ThreadsInv'
    BY <1>3, <1>10 DEF CreateThread, ThreadsInv, Setup
  <2>2. SocketInv'
    BY <1>3, <1>10 DEF CreateThread, SocketInv, SetupInv, Setup
  <2>3. SetupInv'
    BY <1>3, <1>10 DEF CreateThread, SetupInv, Setup
  <2>4. ~selfDeInit' => OrderlyEnd'
    BY <1>3, <1>10 DEF CreateThread, ThreadsInv, OrderlyEnd, SetupInv, Setup
  <2> QED BY <2>1, <2>2, <2>3, <2>4 DEF LifeInv
<1>11. LifeInv'
  BY <1>4, <1>5, <1>6, <1>7, <1>8, <1>9, <1>10 DEF SmartLinkRxInit
<1> QED BY <1>1, <1>11 DEF RxtInv

\* CLOSE_SOCKET: only what earlier receivers left open stays open.
LEMMA CloseKeeps ==
  ASSUME SocketInv, CloseSocket, leaked' = leaked, thread' = "none" <=> thread = "none"
  PROVE  SocketInv' /\ ~Valid(sockFd')
<1>1. CASE Valid(sockFd)
  <2>1. openFds' = leaked /\ sockFd' = INVALID_SOCKET
    BY <1>1 DEF CloseSocket, StillOpen, Closed, Valid, SocketInv
  <2>2. ~Valid(sockFd')
    BY <2>1 DEF Valid, INVALID_SOCKET
  <2> QED BY <2>1, <2>2 DEF SocketInv
<1>2. CASE ~Valid(sockFd)
  <2>1. UNCHANGED <<openFds, sockFd>>
    BY <1>2 DEF CloseSocket, StillOpen, Closed, Valid
  <2> QED BY <1>2, <2>1 DEF SocketInv
<1> QED BY <1>1, <1>2

\* smartLinkRxDeInit in the creating thread.
LEMMA DeInitKeeps == RxtInv /\ (CallDeInit \/ MainDeInit) => RxtInv'
<1> SUFFICES ASSUME RxtInv, CallDeInit \/ MainDeInit PROVE RxtInv'
  OBVIOUS
<1>1. IfaceInv'
  BY IfaceUnchanged DEF RxtInv, CallDeInit, MainDeInit, DeInit, Join, Close, Free
<1>2. ThreadsInv /\ SocketInv /\ SetupInv /\ (~selfDeInit => OrderlyEnd)
  BY DEF RxtInv, LifeInv
<1> USE DEF contextVars, socketVars, historyVars, ifaceVars
<1>3. ASSUME CallDeInit PROVE LifeInv'
  <2>1. ThreadsInv'
    BY <1>2, <1>3 DEF CallDeInit, ThreadsInv, Setup
  <2>2. SocketInv'
    BY <1>2, <1>3 DEF CallDeInit, SocketInv
  <2>3. SetupInv'
    BY <1>2, <1>3 DEF CallDeInit, SetupInv, Setup
  <2>4. ~selfDeInit' => OrderlyEnd'
    BY <1>2, <1>3 DEF CallDeInit, ThreadsInv, OrderlyEnd, SetupInv, Setup
  <2> QED BY <2>1, <2>2, <2>3, <2>4 DEF LifeInv
<1>4. ASSUME DeInit PROVE LifeInv'
  <2>1. ThreadsInv'
    BY <1>2, <1>4 DEF DeInit, ThreadsInv, Setup
  <2>2. SocketInv'
    BY <1>2, <1>4 DEF DeInit, SocketInv
  <2>3. SetupInv'
    BY <1>2, <1>4 DEF DeInit, SetupInv, Setup
  <2>4. ~selfDeInit' => OrderlyEnd'
    BY <1>2, <1>4 DEF DeInit, ThreadsInv, OrderlyEnd, SetupInv, Setup
  <2> QED BY <2>1, <2>2, <2>3, <2>4 DEF LifeInv
<1>5. ASSUME Join PROVE LifeInv'
  <2>1. ThreadsInv'
    BY <1>2, <1>5 DEF Join, ThreadsInv, Setup
  <2>2. SocketInv'
    BY <1>2, <1>5 DEF Join, SocketInv
  <2>3. SetupInv'
    BY <1>2, <1>5 DEF Join, SetupInv, Setup
  <2>4. ~selfDeInit' => OrderlyEnd'
    BY <1>2, <1>5 DEF Join, ThreadsInv, OrderlyEnd, SetupInv, Setup
  <2> QED BY <2>1, <2>2, <2>3, <2>4 DEF LifeInv
<1>6. ASSUME Close PROVE LifeInv'
  <2>1. ThreadsInv'
    BY <1>2, <1>6 DEF Close, CloseSocket, Closed, StillOpen, Valid, INVALID_SOCKET, ThreadsInv, Setup
  <2>2. SocketInv'
    <3>1. CASE CloseSocket
      BY <1>2, <1>6, <3>1, CloseKeeps DEF Close
    <3>2. CASE UNCHANGED <<sockFd, openFds>>
      BY <1>2, <1>6, <3>2 DEF Close, SocketInv
    <3> QED BY <1>6, <3>1, <3>2 DEF Close
  <2>3. SetupInv'
    BY <1>2, <1>6 DEF Close, CloseSocket, Closed, StillOpen, Valid, INVALID_SOCKET, SetupInv, Setup
  <2>4. ~selfDeInit' => OrderlyEnd'
    BY <1>2, <1>6 DEF Close, CloseSocket, Closed, StillOpen, Valid, INVALID_SOCKET, ThreadsInv, OrderlyEnd, SetupInv, Setup
  <2> QED BY <2>1, <2>2, <2>3, <2>4 DEF LifeInv
<1>7. ASSUME Free PROVE LifeInv'
  <2>1. ThreadsInv'
    BY <1>2, <1>7 DEF Free, ThreadsInv, Setup
  <2>2. SocketInv'
    BY <1>2, <1>7 DEF Free, SocketInv
  <2>3. SetupInv'
    BY <1>2, <1>7 DEF Free, SetupInv, Setup
  <2>4. ~selfDeInit' => OrderlyEnd'
    BY <1>2, <1>7 DEF Free, ThreadsInv, OrderlyEnd, SetupInv, Setup
  <2> QED BY <2>1, <2>2, <2>3, <2>4 DEF LifeInv
<1>8. LifeInv'
  BY <1>3, <1>4, <1>5, <1>6, <1>7 DEF MainDeInit
<1> QED BY <1>1, <1>8 DEF RxtInv

\* The receiving thread, smartLinkRxDeInit called by the callback included.
LEMMA ThreadKeeps == RxtInv /\ (ThreadStep \/ RecvFrame) => RxtInv'
<1> SUFFICES ASSUME RxtInv, ThreadStep \/ RecvFrame PROVE RxtInv'
  OBVIOUS
<1>1. IfaceInv'
  BY IfaceUnchanged
     DEF RxtInv, ThreadStep, Test, RecvNothing, RecvFrame, Callback, CallbackCallsDeInit
<1>2. ThreadsInv /\ SocketInv /\ SetupInv /\ (~selfDeInit => OrderlyEnd)
  BY DEF RxtInv, LifeInv
<1> USE DEF contextVars, socketVars, historyVars, ifaceVars, ThreadGoes
<1>3. ASSUME Test PROVE LifeInv'
  <2>1. ThreadsInv'
    BY <1>2, <1>3 DEF Test, ThreadsInv, Setup
  <2>2. SocketInv'
    BY <1>2, <1>3 DEF Test, SocketInv
  <2>3. SetupInv'
    BY <1>2, <1>3 DEF Test, SetupInv, Setup
  <2>4. ~selfDeInit' => OrderlyEnd'
    BY <1>2, <1>3 DEF Test, ThreadsInv, OrderlyEnd, SetupInv, Setup
  <2> QED BY <2>1, <2>2, <2>3, <2>4 DEF LifeInv
<1>4. ASSUME RecvNothing PROVE LifeInv'
  <2>1. ThreadsInv'
    BY <1>2, <1>4 DEF RecvNothing, ThreadsInv, Setup
  <2>2. SocketInv'
    BY <1>2, <1>4 DEF RecvNothing, SocketInv
  <2>3. SetupInv'
    BY <1>2, <1>4 DEF RecvNothing, SetupInv, Setup
  <2>4. ~selfDeInit' => OrderlyEnd'
    BY <1>2, <1>4 DEF RecvNothing, ThreadsInv, OrderlyEnd, SetupInv, Setup
  <2> QED BY <2>1, <2>2, <2>3, <2>4 DEF LifeInv
<1>5. ASSUME RecvFrame PROVE LifeInv'
  <2>1. ThreadsInv'
    BY <1>2, <1>5 DEF RecvFrame, ThreadsInv, Setup
  <2>2. SocketInv'
    BY <1>2, <1>5 DEF RecvFrame, SocketInv
  <2>3. SetupInv'
    BY <1>2, <1>5 DEF RecvFrame, SetupInv, Setup
  <2>4. ~selfDeInit' => OrderlyEnd'
    BY <1>2, <1>5 DEF RecvFrame, ThreadsInv, OrderlyEnd, SetupInv, Setup
  <2> QED BY <2>1, <2>2, <2>3, <2>4 DEF LifeInv
<1>6. ASSUME Callback PROVE LifeInv'
  <2>1. ThreadsInv'
    BY <1>2, <1>6 DEF Callback, ThreadsInv, Setup
  <2>2. SocketInv'
    BY <1>2, <1>6 DEF Callback, SocketInv
  <2>3. SetupInv'
    BY <1>2, <1>6 DEF Callback, SetupInv, Setup
  <2>4. ~selfDeInit' => OrderlyEnd'
    BY <1>2, <1>6 DEF Callback, ThreadsInv, OrderlyEnd, SetupInv, Setup
  <2> QED BY <2>1, <2>2, <2>3, <2>4 DEF LifeInv
<1>7. ASSUME CallbackCallsDeInit PROVE LifeInv'
  <2>1. ThreadsInv'
    BY <1>2, <1>7 DEF CallbackCallsDeInit, CloseSocket, Closed, StillOpen, Valid, INVALID_SOCKET, ThreadsInv, Setup
  <2>2. SocketInv'
    <3>1. thread # "none" /\ thread' # "none"
      BY <1>7 DEF CallbackCallsDeInit
    <3>2. CASE CloseSocket
      BY <1>2, <1>7, <3>1, <3>2, CloseKeeps DEF CallbackCallsDeInit
    <3>3. CASE UNCHANGED <<sockFd, openFds>>
      BY <1>2, <1>7, <3>1, <3>3 DEF CallbackCallsDeInit, SocketInv
    <3> QED BY <1>7, <3>2, <3>3 DEF CallbackCallsDeInit
  <2>3. SetupInv'
    BY <1>2, <1>7 DEF CallbackCallsDeInit, SetupInv, Setup
  <2>4. ~selfDeInit' => OrderlyEnd'
    BY <1>2, <1>7 DEF CallbackCallsDeInit, CloseSocket, Closed, StillOpen, Valid, INVALID_SOCKET, ThreadsInv, OrderlyEnd, SetupInv, Setup
  <2> QED BY <2>1, <2>2, <2>3, <2>4 DEF LifeInv
<1>8. LifeInv'
  BY <1>3, <1>4, <1>5, <1>6, <1>7 DEF ThreadStep
<1> QED BY <1>1, <1>8 DEF RxtInv

\* The next receiver starts from nothing but the interface.
LEMMA NextLife ==
  ASSUME RxtInv, NEW open \in {openFds, {}}, NewLife(open)
  PROVE  RxtInv'
<1>1. IfaceInv'
  BY AnewKeeps DEF RxtInv, NewLife
<1>2. ThreadsInv'
  BY DEF NewLife, ThreadsInv
<1>3. SocketInv'
  BY DEF RxtInv, LifeInv, NewLife, SocketInv, Valid
<1>4. SetupInv'
  BY DEF NewLife, SetupInv, Setup
<1>5. OrderlyEnd'
  BY DEF NewLife, OrderlyEnd
<1> QED BY <1>1, <1>2, <1>3, <1>4, <1>5 DEF RxtInv, LifeInv

\* The other program touches nothing of the receiver's, nor the step it is at.
LEMMA LifeUnchanged ==
  ASSUME LifeInv, UNCHANGED <<ownVars, step>>
  PROVE  LifeInv'
<1> USE DEF ownVars, contextVars, socketVars, historyVars, LifeInv
<1>1. ThreadsInv'
  BY DEF ThreadsInv
<1>2. SocketInv'
  BY DEF SocketInv
<1>3. SetupInv'
  BY DEF SetupInv
<1>4. ~selfDeInit' => OrderlyEnd'
  BY DEF OrderlyEnd
<1> QED BY <1>1, <1>2, <1>3, <1>4

LEMMA RxtInvNext == RxtInv /\ [RxtNext]_rxtVars => RxtInv'
<1> SUFFICES ASSUME RxtInv, [RxtNext]_rxtVars PROVE RxtInv'
  OBVIOUS
<1>1. CASE InitAgain \/ Killed
  BY <1>1, NextLife DEF InitAgain, Killed
<1>2. CASE RivalStep \/ UNCHANGED rxtVars
  <2>1. IfaceInv'
    BY <1>2, RivalKeeps, IfaceUnchanged DEF RxtInv, RivalStep, rxtVars
  <2>2. UNCHANGED <<ownVars, step>>
    BY <1>2 DEF RivalStep, Rival, rxtVars, ifaceVars
  <2> QED BY <2>1, <2>2, LifeUnchanged DEF RxtInv
<1> QED BY <1>1, <1>2, InitKeeps, DeInitKeeps, ThreadKeeps DEF RxtNext

LEMMA RxtInvariant == RxtSpec => []RxtInv
BY RxtInvInit, RxtInvNext, PTL DEF RxtSpec

-----------------------------------------------------------------------------
(***************************************************************************)
(* What the invariant gives.                                               *)
(***************************************************************************)
\* Flags, descriptors and program points keep their types, and what earlier
\* receivers left open stays open.
THEOREM TypeCorrect == RxtSpec => []RxtTypeOK
<1>1. RxtInv => RxtTypeOK
  <2> SUFFICES ASSUME RxtInv PROVE RxtTypeOK
    OBVIOUS
  <2>1. {flags, oldflags, ifr, wanted} \subseteq SUBSET Flag /\ mode \in {"managed", "monitor"}
    BY DEF RxtInv, IfaceInv
  <2>2. SocketInv /\ ThreadsInv
    BY DEF RxtInv, LifeInv
  <2> QED BY <2>1, <2>2 DEF SocketInv, ThreadsInv, Setup, RxtTypeOK
<1> QED BY <1>1, RxtInvariant, PTL

\* As long as the callback does not call smartLinkRxDeInit, the receiving thread
\* finds its context and its socket, however the two threads interleave.
THEOREM ContextOutlives == RxtSpec => []ContextOutlivesThread
<1>1. RxtInv => ContextOutlivesThread
  BY DEF RxtInv, LifeInv, ThreadsInv, SocketInv, SetupInv, OrderlyEnd, Setup, Running,
         ContextOutlivesThread
<1> QED BY <1>1, RxtInvariant, PTL

\* A handle means monitor mode, the interface up, and the channel's frequency,
\* whatever failed, was killed or was changed by others before.
THEOREM Listening == RxtSpec => []ListensOnChannel
<1>1. RxtInv => ListensOnChannel
  BY DEF RxtInv, IfaceInv, StepsInv, LifeInv, SetupInv, ListensOnChannel
<1> QED BY <1>1, RxtInvariant, PTL

\* Reading, clearing and restoring the flags loses no change another program
\* makes, but for those made inside the windows of iface.c.
THEOREM FlagsAreKept == RxtSpec => []FlagsKept
<1>1. RxtInv => FlagsKept
  BY DEF RxtInv, IfaceInv, FlagsInv, FlagsKept
<1> QED BY <1>1, RxtInvariant, PTL

\* smartLinkRxDeInit of a running receiver gives thread, socket and context back.
THEOREM Releases == RxtSpec => []DeInitReleases
<1>1. RxtInv => DeInitReleases
  BY DEF RxtInv, LifeInv, SocketInv, OrderlyEnd, DeInitReleases
<1> QED BY <1>1, RxtInvariant, PTL
=============================================================================
