------------------------------- MODULE Iface --------------------------------
(***************************************************************************)
(* The wireless interface of the receiver and what iface.c does to it:     *)
(* monitor mode, then the channel's frequency.  Each ioctl is a step of    *)
(* its own, any of them may fail, and another program (ip, wpa_supplicant, *)
(* NetworkManager) may change the flags in between.                        *)
(***************************************************************************)
EXTENDS Integers, FiniteSets

CONSTANTS
  Channels,       \* what smartLinkRxInit may be asked for
  GarbageFreqs,   \* what may lie in memory behind gchannels
  RivalMax        \* bound: changes the other program makes

ASSUME IfaceAssumption == Channels \subseteq Nat /\ RivalMax \in Nat

VARIABLES
  channel,    \* the channel asked for
  flags,      \* kernel: interface flags
  mode,       \* kernel: "managed" or "monitor"
  freq,       \* kernel: frequency in MHz
  step,       \* next ioctl of the configuration, "done", "failed" or "crashed"
  oldflags,   \* flags found by _ifaceGetFlags
  ifr,        \* flags read by the ioctl before
  wanted,     \* history: the flags as they would be, had only others changed them
  rival,      \* changes the other program has made
  raced       \* history: flags it changed at a moment when that gets lost

rivalVars == <<wanted, rival, raced>>
ifaceVars == <<channel, flags, mode, freq, step, oldflags, ifr, rivalVars>>

\* IFF_DYNAMIC is the sign bit of the short ifr_flags.
Flag == {"UP", "PROMISC", "DYNAMIC"}

Channels24 == 1..14
Channels5  == {34, 36, 38, 40, 42, 44}

\* The table gchannels.
CenterFreq == [c \in Channels24 \cup Channels5 |->
  IF c = 14 THEN 2484 ELSE IF c < 14 THEN 2407 + 5 * c ELSE 5000 + 5 * c]

\* _ifaceGetfreq.  The loop condition (0 < size) is always true: for a channel
\* that is not in the table the scan runs on over whatever lies behind it,
\* until something looks like the channel or there is no memory left.
Getfreq(c) == IF c \in DOMAIN CenterFreq THEN {CenterFreq[c]} ELSE GarbageFreqs

IfaceInit ==
  /\ channel \in Channels
  /\ flags \in SUBSET Flag
  /\ mode     = "managed"
  /\ freq     = 0
  /\ step     = "getflags"
  /\ oldflags = {}
  /\ ifr      = {}
  /\ wanted   = flags
  /\ rival    = 0
  /\ raced    = {}

\* A program begins to configure the interface, as others have left it.
ConfigureAnew ==
  /\ channel' \in Channels
  /\ step'     = "getflags"
  /\ oldflags' = {}
  /\ ifr'      = {}
  /\ UNCHANGED <<flags, mode, freq, rivalVars>>

\* The ioctl of step s fails; nothing is undone.
Fail(s) ==
  /\ step = s
  /\ step' = "failed"
  /\ UNCHANGED <<channel, flags, mode, freq, oldflags, ifr, rivalVars>>

\* With IFF_DYNAMIC set the result is negative and taken for an error.
GetFlags ==
  /\ step = "getflags"
  /\ oldflags' = flags
  /\ step'     = IF "DYNAMIC" \in flags THEN "failed" ELSE "down_get"
  /\ UNCHANGED <<channel, flags, mode, freq, ifr, rivalVars>>

SetDownGet ==
  /\ step = "down_get"
  /\ ifr'  = flags
  /\ step' = IF "UP" \in flags THEN "down_set" ELSE "mode"
  /\ UNCHANGED <<channel, flags, mode, freq, oldflags, rivalVars>>

SetDownSet ==
  /\ step = "down_set"
  /\ flags' = ifr \ {"UP"}
  /\ step'  = "mode"
  /\ UNCHANGED <<channel, mode, freq, oldflags, ifr, rivalVars>>

\* The driver refuses to change the mode of an interface that is up.
SetMode ==
  /\ step = "mode"
  /\ "UP" \notin flags
  /\ mode' = "monitor"
  /\ step' = "up_get"
  /\ UNCHANGED <<channel, flags, freq, oldflags, ifr, rivalVars>>

SetUpGet ==
  /\ step = "up_get"
  /\ ifr'  = flags
  /\ step' = "up_set"
  /\ UNCHANGED <<channel, flags, mode, freq, oldflags, rivalVars>>

\* Mutants: the flags are assigned instead of or-ed; the flags found are
\* restored as they were.
SetUpSetOnlyUp ==
  /\ step = "up_set"
  /\ flags' = {"UP"}
  /\ step'  = "freq"
  /\ UNCHANGED <<channel, mode, freq, oldflags, ifr, rivalVars>>

SetUpSetAsFound ==
  /\ step = "up_set"
  /\ flags' = ifr \cup oldflags
  /\ step'  = "freq"
  /\ UNCHANGED <<channel, mode, freq, oldflags, ifr, rivalVars>>

SetUpSet ==
  /\ step = "up_set"
  /\ flags' = ifr \cup oldflags \cup {"UP"}
  /\ step'  = "freq"
  /\ UNCHANGED <<channel, mode, freq, oldflags, ifr, rivalVars>>

SetFreq ==
  /\ step = "freq"
  /\ freq' \in Getfreq(channel)
  /\ step' = "done"
  /\ UNCHANGED <<channel, flags, mode, oldflags, ifr, rivalVars>>

ScanFaults ==
  /\ step = "freq"
  /\ channel \notin DOMAIN CenterFreq
  /\ step' = "crashed"
  /\ UNCHANGED <<channel, flags, mode, freq, oldflags, ifr, rivalVars>>

Configure ==
  \/ GetFlags \/ SetDownGet \/ SetDownSet \/ SetMode \/ SetUpGet \/ SetUpSet \/ SetFreq
  \/ ScanFaults
  \/ \E s \in {"getflags", "down_get", "down_set", "mode", "up_get", "up_set", "freq"} :
       Fail(s)

Toggled(set, f) == IF f \in set THEN set \ {f} ELSE set \cup {f}

\* A change of flag f is lost between a SIOCGIFFLAGS and its SIOCSIFFLAGS; a
\* flag cleared after _ifaceGetFlags comes back with oldflags.  What becomes
\* of IFF_UP matters only once _ifaceSetUp has set it.
Lost(f) ==
  IF f = "UP" THEN step \in {"freq", "done"}
  ELSE \/ step \in {"down_set", "up_set"}
       \/ step \in {"down_get", "mode", "up_get"} /\ f \in oldflags

\* The other program sets or clears a flag.
Rival ==
  /\ rival < RivalMax
  /\ rival' = rival + 1
  /\ \E f \in {"UP", "PROMISC"} :
       /\ flags'  = Toggled(flags, f)
       /\ wanted' = Toggled(wanted, f)
       /\ raced'  = IF Lost(f) THEN raced \cup {f} ELSE raced
  /\ UNCHANGED <<channel, mode, freq, step, oldflags, ifr>>
=============================================================================
