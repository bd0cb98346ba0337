------------------------- MODULE DemoSignals_proofs -------------------------
(***************************************************************************)
(* How the two demo programs end, for any number of signals.               *)
(*                                                                         *)
(* The argument: a "lock" is always followed by its "unlock", so that a    *)
(* thread that holds the lock releases it with its next instruction,       *)
(* unless a signal put the handler, and another "lock", in front of that.  *)
(***************************************************************************)
EXTENDS DemoSignals, TLAPS

Instructions == {"lock", "unlock", "setflag", "init", "fault"}
Both         == {Main, Receiver}

\* What thread t may have to do while h holds the lock.
Shape(s, t, h) ==
  /\ s \in Seq(Instructions)
  /\ \A i \in 1..Len(s) : s[i] = "lock" => i < Len(s) /\ s[i + 1] = "unlock"
  /\ \A i \in 1..Len(s) : s[i] \in {"init", "fault"} => i = Len(s)
  /\ \A i \in 1..Len(s) : s[i] = "unlock" =>
       IF i = 1 THEN h = t ELSE s[i - 1] = "lock" \/ (h = t /\ s[1] = "lock")
  /\ h = t => s # <<>> /\ s[1] \in {"lock", "unlock"}

\* The main thread begins with its Init, and may be caught in a fault there.
Begins(s) == \E i \in 1..Len(s) : s[i] \in {"init", "fault"}

ThreadsInv ==
  /\ worker \in Both /\ ended \subseteq Threads /\ libc \in Threads \cup {Nobody}
  /\ DOMAIN todo = Both
  /\ threadExit => gThreadExit

ListsInv ==
  \A t \in Both :
    /\ Shape(todo[t], t, libc)
    /\ t \notin Threads \/ t \in ended => todo[t] = <<>>
    /\ Begins(todo[t]) => t = Main /\ ~started

DemoInv == ThreadsInv /\ ListsInv /\ ReturnsAlone

-----------------------------------------------------------------------------
(***************************************************************************)
(* Lists of instructions                                                   *)
(***************************************************************************)
\* One instruction has been done.
LEMMA TailShape ==
  ASSUME NEW s \in Seq(Instructions), s # <<>>
  PROVE  /\ Tail(s) \in Seq(Instructions) /\ Len(Tail(s)) = Len(s) - 1 /\ Len(s) \in Nat
         /\ Head(s) = s[1] /\ Head(s) \in Instructions
         /\ \A i \in 1..Len(Tail(s)) : Tail(s)[i] = s[i + 1]
OBVIOUS

\* One list behind another.
LEMMA Appended ==
  ASSUME NEW a \in Seq(Instructions), NEW b \in Seq(Instructions)
  PROVE  /\ a \o b \in Seq(Instructions) /\ Len(a \o b) = Len(a) + Len(b)
         /\ Len(a) \in Nat /\ Len(b) \in Nat
         /\ \A i \in 1..Len(a) : (a \o b)[i] = a[i]
         /\ \A i \in 1..Len(b) : (a \o b)[Len(a) + i] = b[i]
OBVIOUS

\* The handler has been put in front.
LEMMA HandlerShape ==
  ASSUME NEW s \in Seq(Instructions)
  PROVE  /\ Handler \o s \in Seq(Instructions) /\ Len(Handler \o s) = Len(s) + 3 /\ Len(s) \in Nat
         /\ (Handler \o s)[1] = "lock" /\ (Handler \o s)[2] = "unlock" /\ (Handler \o s)[3] = "setflag"
         /\ \A i \in 1..Len(s) : (Handler \o s)[i + 3] = s[i]
<1> DEFINE a == <<"lock", "unlock">>
           b == <<"setflag">>
           h == a \o b
           u == h \o s
<1>1. /\ a \in Seq(Instructions) /\ b \in Seq(Instructions)
      /\ Len(a) = 2 /\ Len(b) = 1 /\ a[1] = "lock" /\ a[2] = "unlock" /\ b[1] = "setflag"
  BY DEF Instructions
<1> HIDE DEF a, b
<1>2. /\ h \in Seq(Instructions) /\ Len(h) = 3
      /\ h[1] = "lock" /\ h[2] = "unlock" /\ h[3] = "setflag"
  <2>1. /\ h \in Seq(Instructions) /\ Len(h) = Len(a) + Len(b)
        /\ \A i \in 1..Len(a) : h[i] = a[i]
        /\ \A i \in 1..Len(b) : h[Len(a) + i] = b[i]
    BY <1>1, Appended
  <2> HIDE DEF h
  <2> QED BY <1>1, <2>1
<1> HIDE DEF h
<1>3. /\ u \in Seq(Instructions) /\ Len(u) = Len(h) + Len(s) /\ Len(s) \in Nat
      /\ \A i \in 1..Len(h) : u[i] = h[i]
      /\ \A i \in 1..Len(s) : u[Len(h) + i] = s[i]
  BY <1>2, Appended
<1>4. Handler \o s = u
  BY DEF Handler, Log, a, b, h
<1> HIDE DEF u
<1>5. \A i \in 1..Len(s) : u[i + 3] = s[i]
  BY <1>2, <1>3
<1> QED BY <1>2, <1>3, <1>4, <1>5

\* Taking the lock, which is free, leaves its release as the next instruction.
LEMMA LockTaken ==
  ASSUME NEW s, NEW t, NEW h, Shape(s, t, h), h # t, s # <<>>, Head(s) = "lock"
  PROVE  Shape(Tail(s), t, t) /\ Tail(s)[1] = "unlock"
<1> DEFINE u == Tail(s)
<1>1. s \in Seq(Instructions)
  BY DEF Shape
<1>2. /\ u \in Seq(Instructions) /\ Len(u) = Len(s) - 1 /\ Len(s) \in Nat /\ s[1] = "lock"
      /\ \A i \in 1..Len(u) : u[i] = s[i + 1]
  BY <1>1, TailShape
<1>3. 1 < Len(s) /\ s[2] = "unlock"
  <2>1. 1 \in 1..Len(s)
    BY <1>1, <1>2
  <2>2. 1 < Len(s) /\ s[1 + 1] = "unlock"
    BY <1>2, <2>1 DEF Shape
  <2> QED BY <2>2
<1> HIDE DEF u
<1>4. u # <<>> /\ u[1] = "unlock"
  BY <1>2, <1>3
<1>5. \A i \in 1..Len(u) : i + 1 \in 1..Len(s)
  BY <1>2
<1>6. \A i \in 1..Len(u) : u[i] = "lock" => i < Len(u) /\ u[i + 1] = "unlock"
  BY <1>2, <1>5 DEF Shape
<1>7. \A i \in 1..Len(u) : u[i] \in {"init", "fault"} => i = Len(u)
  BY <1>2, <1>5 DEF Shape
<1>8. \A i \in 1..Len(u) : u[i] = "unlock" => IF i = 1 THEN t = t ELSE u[i - 1] = "lock"
  <2> TAKE i \in 1..Len(u)
  <2>1. i # 1 => i - 1 \in 1..Len(u)
    BY <1>2
  <2>2. s[i + 1] = "unlock" => s[i] = "lock"
    BY <1>2, <1>5 DEF Shape
  <2> QED BY <1>2, <2>1, <2>2
<1> QED BY <1>2, <1>4, <1>6, <1>7, <1>8 DEF Shape, u

\* Any other instruction leaves the lock free, as far as t is concerned.
LEMMA OtherDone ==
  ASSUME NEW s, NEW t, NEW h, NEW k, k # t, Shape(s, t, h), s # <<>>, Head(s) # "lock"
  PROVE  /\ Shape(Tail(s), t, k)
         /\ h = t <=> Head(s) = "unlock"
         /\ Head(s) \in {"init", "fault"} => Tail(s) = <<>>
<1> DEFINE u == Tail(s)
<1>1. s \in Seq(Instructions)
  BY DEF Shape
<1>2. /\ u \in Seq(Instructions) /\ Len(u) = Len(s) - 1 /\ Len(s) \in Nat
      /\ s[1] = Head(s) /\ s[1] # "lock"
      /\ \A i \in 1..Len(u) : u[i] = s[i + 1]
  BY <1>1, TailShape
<1>3. 1 \in 1..Len(s)
  BY <1>1, <1>2
<1>4. h = t <=> s[1] = "unlock"
  BY <1>2, <1>3 DEF Shape
<1>5. s[1] \in {"init", "fault"} => Len(s) = 1
  BY <1>3 DEF Shape
<1>6. s[1] \in {"init", "fault"} => u = <<>>
  BY <1>1, <1>2, <1>5
<1> HIDE DEF u
<1>7. \A i \in 1..Len(u) : i + 1 \in 1..Len(s)
  BY <1>2
<1>8. \A i \in 1..Len(u) : u[i] = "lock" => i < Len(u) /\ u[i + 1] = "unlock"
  BY <1>2, <1>7 DEF Shape
<1>9. \A i \in 1..Len(u) : u[i] \in {"init", "fault"} => i = Len(u)
  BY <1>2, <1>7 DEF Shape
<1>10. \A i \in 1..Len(u) : u[i] = "unlock" => i # 1 /\ u[i - 1] = "lock"
  <2> TAKE i \in 1..Len(u)
  <2>1. i # 1 => i - 1 \in 1..Len(u)
    BY <1>2
  <2>2. s[i + 1] = "unlock" => s[i] = "lock"
    BY <1>2, <1>7 DEF Shape
  <2> QED BY <1>2, <2>1, <2>2
<1>11. Shape(u, t, k)
  BY <1>2, <1>8, <1>9, <1>10 DEF Shape
<1> QED BY <1>2, <1>4, <1>6, <1>11 DEF u

\* A signal, or a fault: the handler goes first.
LEMMA HandlerFirst ==
  ASSUME NEW s, NEW t, NEW h, Shape(s, t, h)
  PROVE  Shape(Handler \o s, t, h)
<1> DEFINE u == Handler \o s
<1>1. s \in Seq(Instructions)
  BY DEF Shape
<1>2. /\ u \in Seq(Instructions) /\ Len(u) = Len(s) + 3 /\ Len(s) \in Nat
      /\ u[1] = "lock" /\ u[2] = "unlock" /\ u[3] = "setflag"
      /\ \A i \in 1..Len(s) : u[i + 3] = s[i]
  BY <1>1, HandlerShape
<1> HIDE DEF u
<1>3. \A i \in 1..Len(u) : i \in {1, 2, 3} \/ (i - 3 \in 1..Len(s) /\ u[i] = s[i - 3])
  BY <1>2
<1>4. \A i \in 1..Len(u) : u[i] = "lock" => i < Len(u) /\ u[i + 1] = "unlock"
  <2> SUFFICES ASSUME NEW i \in 1..Len(u), u[i] = "lock"
               PROVE  i < Len(u) /\ u[i + 1] = "unlock"
    OBVIOUS
  <2>1. CASE i \in {1, 2, 3}
    BY <1>2, <2>1
  <2>2. CASE i - 3 \in 1..Len(s) /\ u[i] = s[i - 3]
    <3> DEFINE j == i - 3
    <3>1. j \in 1..Len(s) /\ s[j] = "lock" /\ i = j + 3
      BY <2>2
    <3> HIDE DEF j
    <3>2. j < Len(s) /\ s[j + 1] = "unlock" /\ j + 1 \in 1..Len(s)
      BY <1>2, <3>1 DEF Shape
    <3>3. u[(j + 1) + 3] = "unlock"
      BY <1>2, <3>2
    <3>4. (j + 1) + 3 = i + 1 /\ i < Len(u)
      BY <1>2, <3>1, <3>2
    <3> QED BY <3>3, <3>4
  <2> QED BY <1>3, <2>1, <2>2
<1>5. \A i \in 1..Len(u) : u[i] \in {"init", "fault"} => i = Len(u)
  <2> SUFFICES ASSUME NEW i \in 1..Len(u), u[i] \in {"init", "fault"}
               PROVE  i = Len(u)
    OBVIOUS
  <2>1. CASE i \in {1, 2, 3}
    BY <1>2, <2>1
  <2>2. CASE i - 3 \in 1..Len(s) /\ u[i] = s[i - 3]
    <3>1. i - 3 = Len(s)
      BY <2>2 DEF Shape
    <3> QED BY <1>2, <3>1
  <2> QED BY <1>3, <2>1, <2>2
<1>6. \A i \in 1..Len(u) : u[i] = "unlock" =>
        IF i = 1 THEN h = t ELSE u[i - 1] = "lock" \/ (h = t /\ u[1] = "lock")
  <2> SUFFICES ASSUME NEW i \in 1..Len(u), u[i] = "unlock"
               PROVE  i # 1 /\ (u[i - 1] = "lock" \/ h = t)
    BY <1>2
  <2>1. CASE i \in {1, 2, 3}
    BY <1>2, <2>1
  <2>2. CASE i - 3 \in 1..Len(s) /\ u[i] = s[i - 3]
    <3> DEFINE j == i - 3
    <3>1. j \in 1..Len(s) /\ s[j] = "unlock" /\ i = j + 3
      BY <2>2
    <3> HIDE DEF j
    <3>2. j # 1 => j - 1 \in 1..Len(s) /\ (j - 1) + 3 = i - 1
      BY <1>2, <3>1
    <3>3. h = t \/ (j # 1 /\ s[j - 1] = "lock")
      BY <3>1 DEF Shape
    <3> QED BY <1>2, <3>1, <3>2, <3>3
  <2> QED BY <1>3, <2>1, <2>2
<1>7. u # <<>>
  BY <1>2
<1> QED BY <1>2, <1>4, <1>5, <1>6, <1>7 DEF Shape, u

\* Begins, before and after.
LEMMA BeginsBefore ==
  ASSUME NEW s \in Seq(Instructions)
  PROVE  /\ s # <<>> /\ Begins(Tail(s)) => Begins(s)
         /\ Begins(Handler \o s) => Begins(s)
         /\ s # <<>> /\ Head(s) \in {"init", "fault"} => Begins(s)
<1>1. s # <<>> /\ Begins(Tail(s)) => Begins(s)
  <2> SUFFICES ASSUME s # <<>>, NEW i \in 1..Len(Tail(s)), Tail(s)[i] \in {"init", "fault"}
               PROVE  Begins(s)
    BY DEF Begins
  <2>1. Tail(s)[i] = s[i + 1] /\ i + 1 \in 1..Len(s)
    BY TailShape
  <2> QED BY <2>1 DEF Begins
<1>2. Begins(Handler \o s) => Begins(s)
  <2> DEFINE u == Handler \o s
  <2> SUFFICES ASSUME NEW i \in 1..Len(u), u[i] \in {"init", "fault"}
               PROVE  Begins(s)
    BY DEF Begins
  <2>1. /\ Len(u) = Len(s) + 3 /\ Len(s) \in Nat
        /\ u[1] = "lock" /\ u[2] = "unlock" /\ u[3] = "setflag"
        /\ \A j \in 1..Len(s) : u[j + 3] = s[j]
    BY HandlerShape
  <2> HIDE DEF u
  <2>2. i - 3 \in 1..Len(s) /\ (i - 3) + 3 = i
    BY <2>1
  <2> QED BY <2>1, <2>2 DEF Begins
<1>3. s # <<>> /\ Head(s) \in {"init", "fault"} => Begins(s)
  BY TailShape DEF Begins
<1> QED BY <1>1, <1>2, <1>3

-----------------------------------------------------------------------------
(***************************************************************************)
(* The invariant is inductive                                              *)
(***************************************************************************)
LEMMA DemoInitInv == DemoInit => DemoInv
<1> SUFFICES ASSUME DemoInit PROVE DemoInv
  OBVIOUS
<1>1. ThreadsInv
  BY DemoAssumption DEF DemoInit, ThreadsInv, Threads, Both
<1>2. ReturnsAlone
  BY DEF DemoInit, ReturnsAlone
<1> DEFINE a == <<"lock", "unlock">>
           b == <<"init">>
           u == a \o b
<1>3. /\ todo = [t \in Both |-> IF t = Main THEN u ELSE <<>>]
      /\ libc = Nobody /\ started = FALSE /\ ended = {} /\ Threads = {Main}
  BY DEF DemoInit, Log, Both, Threads
<1>4. /\ a \in Seq(Instructions) /\ b \in Seq(Instructions)
      /\ Len(a) = 2 /\ Len(b) = 1 /\ a[1] = "lock" /\ a[2] = "unlock" /\ b[1] = "init"
  BY DEF Instructions
<1> HIDE DEF a, b
<1>5. /\ u \in Seq(Instructions) /\ Len(u) = 3
      /\ u[1] = "lock" /\ u[2] = "unlock" /\ u[3] = "init"
  <2>1. /\ u \in Seq(Instructions) /\ Len(u) = Len(a) + Len(b)
        /\ \A i \in 1..Len(a) : u[i] = a[i]
        /\ \A i \in 1..Len(b) : u[Len(a) + i] = b[i]
    BY <1>4, Appended
  <2> HIDE DEF u
  <2> QED BY <1>4, <2>1
<1> HIDE DEF u
<1>6. Shape(u, Main, Nobody)
  BY <1>5, DemoAssumption DEF Shape
<1>7. Shape(<<>>, Receiver, Nobody) /\ ~ Begins(<<>>)
  BY DemoAssumption DEF Shape, Begins
<1>8. ListsInv
  BY <1>3, <1>6, <1>7, DemoAssumption DEF ListsInv, Both
<1> QED BY <1>1, <1>2, <1>8 DEF DemoInv

\* Nothing happens any more once the main thread has returned.
LEMMA AfterEnd ==
  ASSUME DemoInv, DemoNext
  PROVE  Main \notin ended
<1> SUFFICES ASSUME Main \in ended, NEW t \in Threads, ThreadRuns(t) \/ Signal(t)
             PROVE  FALSE
  BY DEF DemoNext
<1>1. t \in ended /\ t \in Both
  BY DEF DemoInv, ThreadsInv, ReturnsAlone, Threads, Both
<1>2. todo[t] = <<>>
  BY <1>1 DEF DemoInv, ListsInv
<1> QED BY <1>1, <1>2 DEF ThreadRuns, Signal, TakeLock, ReleaseLock, SetFlag, Start, Fault, Turn,
                    StopReceiver, JoinReceiver, Next1, Ready

\* Who else holds the lock does not matter to a list.
LEMMA OtherHolder ==
  ASSUME NEW s, NEW t, NEW h, NEW k, Shape(s, t, h), h = t <=> k = t
  PROVE  Shape(s, t, k)
BY DEF Shape

\* A step of thread t that changes what it has to do, and nothing else that the
\* invariant is about but the lock.
LEMMA ListStep ==
  ASSUME DemoInv, Main \notin ended, NEW t \in Threads, t \notin ended, NEW u,
         todo' = [todo EXCEPT ![t] = u], Shape(u, t, libc'), Begins(u) => Begins(todo[t]),
         libc' \in Threads \cup {Nobody}, \A r \in Both : r # t => (libc = r <=> libc' = r),
         UNCHANGED <<worker, started, threadExit, ended>>, gThreadExit => gThreadExit'
  PROVE  DemoInv'
<1>1. ThreadsInv'
  BY DEF DemoInv, ThreadsInv, Threads
<1>2. ReturnsAlone'
  BY DEF ReturnsAlone
<1>3. ASSUME NEW r \in Both
      PROVE  /\ Shape(todo'[r], r, libc')
             /\ r \notin Threads \/ r \in ended => todo'[r] = <<>>
             /\ Begins(todo'[r]) => r = Main /\ ~started
  <2>1. todo'[r] = IF r = t THEN u ELSE todo[r]
    BY DEF DemoInv, ThreadsInv
  <2>2. CASE r = t
    BY <2>1, <2>2 DEF DemoInv, ListsInv
  <2>3. CASE r # t
    BY <2>1, <2>3, OtherHolder DEF DemoInv, ListsInv
  <2> QED BY <2>2, <2>3
<1>4. ListsInv'
  BY <1>3 DEF ListsInv, Threads
<1> QED BY <1>1, <1>2, <1>4 DEF DemoInv

\* What is known of the thread that does its next instruction.
LEMMA Busy ==
  ASSUME DemoInv, NEW t \in Threads, NEW i, Next1(t, i)
  PROVE  /\ t \in Both /\ t \notin ended /\ t # Nobody
         /\ Shape(todo[t], t, libc) /\ todo[t] \in Seq(Instructions)
         /\ todo[t] # <<>> /\ Head(todo[t]) = i /\ todo[t][1] = i
         /\ Begins(Tail(todo[t])) => Begins(todo[t])
         /\ i \in {"init", "fault"} => t = Main /\ ~started
<1>1. t \in Both /\ todo[t] # <<>> /\ Head(todo[t]) = i
  BY DEF Next1, DemoInv, ThreadsInv, Threads, Both
<1>2. Shape(todo[t], t, libc) /\ todo[t] \in Seq(Instructions) /\ t \notin ended
  BY <1>1 DEF DemoInv, ListsInv, Shape
<1>3. todo[t][1] = i
  BY <1>1, <1>2, TailShape
<1>4. /\ Begins(Tail(todo[t])) => Begins(todo[t])
      /\ i \in {"init", "fault"} => Begins(todo[t])
  BY <1>1, <1>2, BeginsBefore
<1> QED BY <1>1, <1>2, <1>3, <1>4, DemoAssumption DEF DemoInv, ListsInv, Both

LEMMA TakeLockStep ==
  ASSUME DemoInv, Main \notin ended, NEW t \in Threads, TakeLock(t)
  PROVE  DemoInv'
<1> DEFINE u == Tail(todo[t])
<1>1. Next1(t, "lock") /\ libc = Nobody /\ libc' = t /\ todo' = [todo EXCEPT ![t] = u]
      /\ UNCHANGED <<worker, started, gThreadExit, threadExit, ended>>
  BY DEF TakeLock, Done1
<1>2. Shape(u, t, t) /\ u[1] = "unlock"
  BY <1>1, Busy, LockTaken
<1>3. Begins(u) => Begins(todo[t])
  BY <1>1, Busy
<1>4. t \notin ended /\ \A r \in Both : r # t => (libc = r <=> libc' = r)
  BY <1>1, Busy, DemoAssumption DEF Both
<1> HIDE DEF u
<1> QED BY <1>1, <1>2, <1>3, <1>4, ListStep

LEMMA ReleaseLockStep ==
  ASSUME DemoInv, Main \notin ended, NEW t \in Threads, ReleaseLock(t)
  PROVE  DemoInv'
<1> DEFINE u == Tail(todo[t])
<1>1. Next1(t, "unlock") /\ libc' = Nobody /\ todo' = [todo EXCEPT ![t] = u]
      /\ UNCHANGED <<worker, started, gThreadExit, threadExit, ended>>
  BY DEF ReleaseLock, Done1
<1>2. Shape(u, t, Nobody) /\ libc = t /\ t \notin ended /\ t # Nobody
  <2>1. /\ t \in Both /\ t \notin ended /\ Nobody # t /\ Shape(todo[t], t, libc)
        /\ todo[t] # <<>> /\ Head(todo[t]) = "unlock"
    BY <1>1, Busy
  <2>2. Shape(u, t, Nobody) /\ (libc = t <=> Head(todo[t]) = "unlock")
    BY <2>1, OtherDone
  <2> QED BY <2>1, <2>2
<1>3. Begins(u) => Begins(todo[t])
  BY <1>1, Busy
<1>4. \A r \in Both : r # t => (libc = r <=> libc' = r)
  BY <1>1, <1>2, DemoAssumption DEF Both
<1> HIDE DEF u
<1> QED BY <1>1, <1>2, <1>3, <1>4, ListStep

LEMMA SetFlagStep ==
  ASSUME DemoInv, Main \notin ended, NEW t \in Threads, SetFlag(t)
  PROVE  DemoInv'
<1> DEFINE u == Tail(todo[t])
<1>1. Next1(t, "setflag") /\ gThreadExit' = TRUE /\ todo' = [todo EXCEPT ![t] = u]
      /\ UNCHANGED <<worker, started, threadExit, libc, ended>>
  BY DEF SetFlag, Done1
<1>2. Shape(u, t, Nobody) /\ libc # t /\ t \notin ended /\ t # Nobody
  <2>1. /\ t \in Both /\ t \notin ended /\ Nobody # t /\ Shape(todo[t], t, libc)
        /\ todo[t] # <<>> /\ Head(todo[t]) = "setflag" /\ Head(todo[t]) # "lock"
    BY <1>1, Busy
  <2>2. Shape(u, t, Nobody) /\ (libc = t <=> Head(todo[t]) = "unlock")
    BY <2>1, OtherDone
  <2> QED BY <2>1, <2>2
<1>3. Begins(u) => Begins(todo[t])
  BY <1>1, Busy
<1>4. Shape(u, t, libc)
  BY <1>2, OtherHolder
<1>5. libc' \in Threads \cup {Nobody}
  BY <1>1 DEF DemoInv, ThreadsInv
<1> HIDE DEF u
<1> QED BY <1>1, <1>2, <1>3, <1>4, <1>5, ListStep

LEMMA StartStep ==
  ASSUME DemoInv, Main \notin ended, NEW t \in Threads, Start(t)
  PROVE  DemoInv'
<1>1. Next1(t, "init") /\ UNCHANGED <<worker, gThreadExit, threadExit, libc>>
  BY DEF Start
<1>2. t = Main /\ ~started /\ Tail(todo[t]) = <<>> /\ libc # t
  <2>1. t = Main /\ ~started
    BY <1>1, Busy
  <2>2. /\ Nobody # t /\ Shape(todo[t], t, libc) /\ todo[t] # <<>>
        /\ Head(todo[t]) = "init" /\ Head(todo[t]) # "lock"
    BY <1>1, Busy
  <2>3. /\ Shape(Tail(todo[t]), t, Nobody)
        /\ libc = t <=> Head(todo[t]) = "unlock"
        /\ Head(todo[t]) \in {"init", "fault"} => Tail(todo[t]) = <<>>
    BY <2>2, OtherDone
  <2> QED BY <2>1, <2>2, <2>3
<1>3. Threads = {Main} /\ libc = Nobody /\ ended = {}
  BY <1>2 DEF DemoInv, ThreadsInv, Threads
<1>4. \A r \in Both : Shape(<<>>, r, Nobody) /\ ~ Begins(<<>>)
  BY DemoAssumption DEF Shape, Begins, Both
<1>5. \A r \in Both : r # Main => todo[r] = <<>>
  BY <1>3 DEF DemoInv, ListsInv
<1>6. DOMAIN todo = Both /\ worker \in Both /\ (threadExit => gThreadExit) /\ Main \in Both
  BY DEF DemoInv, ThreadsInv, Both
<1>7. ASSUME todo' = [todo EXCEPT ![t] = <<>>],
             (started' = TRUE /\ UNCHANGED ended) \/ (ended' = {Main} /\ UNCHANGED started)
      PROVE  DemoInv'
  <2>1. ThreadsInv'
    BY <1>1, <1>2, <1>3, <1>6, <1>7 DEF ThreadsInv, Threads
  <2>2. \A r \in Both : todo'[r] = <<>>
    BY <1>2, <1>5, <1>6, <1>7
  <2>3. ListsInv'
    BY <1>1, <1>3, <1>4, <2>2, DemoAssumption DEF ListsInv, Both
  <2>4. ReturnsAlone'
    BY <1>1, <1>2, <1>3, <1>7 DEF ReturnsAlone
  <2> QED BY <2>1, <2>3, <2>4 DEF DemoInv
<1>8. CASE todo' = [todo EXCEPT ![t] = <<"fault">>] /\ UNCHANGED <<started, ended>>
  <2> DEFINE u == <<"fault">>
  <2>1. u \in Seq(Instructions) /\ Len(u) = 1 /\ u[1] = "fault"
    BY DEF Instructions
  <2> HIDE DEF u
  <2>2. Shape(u, t, libc')
    BY <1>1, <1>2, <2>1 DEF Shape
  <2>3. Begins(u) => Begins(todo[t])
    BY <1>1, Busy, BeginsBefore
  <2>4. /\ todo' = [todo EXCEPT ![t] = u] /\ t \notin ended /\ libc' # t
        /\ libc' \in Threads \cup {Nobody} /\ \A r \in Both : r # t => (libc = r <=> libc' = r)
    BY <1>1, <1>2, <1>3, <1>8 DEF u
  <2> QED BY <1>1, <1>8, <2>2, <2>3, <2>4, ListStep
<1>9. todo' = [todo EXCEPT ![t] = Tail(@)] => todo' = [todo EXCEPT ![t] = <<>>]
  BY <1>2
<1>10. \/ started' = TRUE /\ Done1(t) /\ UNCHANGED ended
       \/ ended' = ended \cup {t} /\ Done1(t) /\ UNCHANGED started
       \/ todo' = [todo EXCEPT ![t] = <<"fault">>] /\ UNCHANGED <<started, ended>>
  BY DEF Start
<1>11. ended \cup {t} = {Main}
  BY <1>2, <1>3
<1>12. Done1(t) => todo' = [todo EXCEPT ![t] = <<>>]
  BY <1>9 DEF Done1
<1>13. CASE started' = TRUE /\ Done1(t) /\ UNCHANGED ended
  BY <1>7, <1>12, <1>13
<1>14. CASE ended' = ended \cup {t} /\ Done1(t) /\ UNCHANGED started
  BY <1>7, <1>11, <1>12, <1>14
<1> QED BY <1>8, <1>10, <1>13, <1>14

LEMMA FaultStep ==
  ASSUME DemoInv, Main \notin ended, NEW t \in Threads, Fault(t)
  PROVE  DemoInv'
<1> DEFINE u == Handler \o todo[t]
<1>1. Next1(t, "fault") /\ todo' = [todo EXCEPT ![t] = u]
      /\ UNCHANGED <<worker, started, gThreadExit, threadExit, libc, ended>>
  BY DEF Fault
<1>2. Shape(todo[t], t, libc) /\ t \notin ended /\ todo[t] \in Seq(Instructions) /\ libc # t
  <2>1. /\ Nobody # t /\ Shape(todo[t], t, libc) /\ t \notin ended /\ todo[t] \in Seq(Instructions)
        /\ todo[t] # <<>> /\ Head(todo[t]) = "fault" /\ Head(todo[t]) # "lock"
    BY <1>1, Busy
  <2>2. Shape(Tail(todo[t]), t, Nobody) /\ (libc = t <=> Head(todo[t]) = "unlock")
    BY <2>1, OtherDone
  <2> QED BY <2>1, <2>2
<1>3. Shape(u, t, libc) /\ (Begins(u) => Begins(todo[t]))
  BY <1>2, HandlerFirst, BeginsBefore
<1>4. libc' \in Threads \cup {Nobody}
  BY <1>1 DEF DemoInv, ThreadsInv
<1> HIDE DEF u
<1> QED BY <1>1, <1>2, <1>3, <1>4, ListStep

LEMMA SignalStep ==
  ASSUME DemoInv, Main \notin ended, NEW t \in Threads, Signal(t)
  PROVE  DemoInv'
<1> DEFINE u == Handler \o todo[t]
<1>1. /\ t \notin ended /\ todo' = [todo EXCEPT ![t] = u]
      /\ UNCHANGED <<worker, started, gThreadExit, threadExit, libc, ended>>
  BY DEF Signal
<1>2. Shape(todo[t], t, libc) /\ todo[t] \in Seq(Instructions)
  BY DEF DemoInv, ThreadsInv, ListsInv, Threads, Both, Shape
<1>3. Shape(u, t, libc) /\ (Begins(u) => Begins(todo[t]))
  BY <1>2, HandlerFirst, BeginsBefore
<1>4. libc' \in Threads \cup {Nobody}
  BY <1>1 DEF DemoInv, ThreadsInv
<1> HIDE DEF u
<1> QED BY <1>1, <1>3, <1>4, ListStep

\* A thread with nothing left to do holds no lock.
LEMMA Rest ==
  ASSUME DemoInv, NEW t \in Threads, Ready(t)
  PROVE  t \in Both /\ t \notin ended /\ todo[t] = <<>> /\ libc # t
BY DEF Ready, DemoInv, ThreadsInv, ListsInv, Threads, Both, Shape

LEMMA TurnStep ==
  ASSUME DemoInv, Main \notin ended, NEW t \in Threads, Turn(t)
  PROVE  DemoInv'
<1>1. t = worker /\ Ready(t) /\ UNCHANGED <<worker, started, gThreadExit, threadExit, libc>>
  BY DEF Turn
<1>2. t \in Both /\ t \notin ended /\ todo[t] = <<>> /\ libc # t
  BY <1>1, Rest
<1>3. CASE todo' = [todo EXCEPT ![t] = Log] /\ UNCHANGED ended
  <2> DEFINE u == <<"lock", "unlock">>
  <2>1. u \in Seq(Instructions) /\ Len(u) = 2 /\ u[1] = "lock" /\ u[2] = "unlock"
    BY DEF Instructions
  <2>2. todo' = [todo EXCEPT ![t] = u]
    BY <1>3 DEF Log
  <2> HIDE DEF u
  <2>3. Shape(u, t, libc') /\ ~ Begins(u)
    BY <1>1, <1>2, <2>1 DEF Shape, Begins
  <2>4. libc' \in Threads \cup {Nobody} /\ libc' # t /\ \A r \in Both : r # t => (libc = r <=> libc' = r)
    BY <1>1, <1>2 DEF DemoInv, ThreadsInv
  <2> QED BY <1>1, <1>2, <1>3, <2>2, <2>3, <2>4, ListStep
<1>4. CASE ended' = ended \cup {t} /\ UNCHANGED todo /\ (IF t = Main THEN gThreadExit ELSE threadExit)
  <2>1. ThreadsInv' /\ ListsInv'
    BY <1>1, <1>2, <1>4 DEF DemoInv, ThreadsInv, ListsInv, Threads
  <2>2. ReturnsAlone'
    <3>1. t = Main => Threads = {Main}
      BY <1>1 DEF Threads
    <3> QED BY <1>1, <1>2, <1>4, <3>1 DEF DemoInv, ThreadsInv, ReturnsAlone
  <2> QED BY <2>1, <2>2 DEF DemoInv
<1> QED BY <1>3, <1>4 DEF Turn

LEMMA StopReceiverStep ==
  ASSUME DemoInv, Main \notin ended, StopReceiver
  PROVE  DemoInv'
<1>1. gThreadExit /\ UNCHANGED <<worker, started, gThreadExit, libc, todo, ended>>
  BY DEF StopReceiver
<1>2. ThreadsInv' /\ ListsInv' /\ ReturnsAlone'
  BY <1>1 DEF DemoInv, ThreadsInv, ListsInv, ReturnsAlone, Threads
<1> QED BY <1>2 DEF DemoInv

LEMMA JoinReceiverStep ==
  ASSUME DemoInv, Main \notin ended, JoinReceiver
  PROVE  DemoInv'
<1>1. /\ Ready(Main) /\ threadExit /\ worker \in ended /\ ended' = ended \cup {Main}
      /\ UNCHANGED <<worker, started, gThreadExit, threadExit, libc, todo>>
  BY DEF JoinReceiver
<1>2. Main \in Threads /\ worker \in Both /\ worker \in Threads
  BY <1>1 DEF DemoInv, ThreadsInv, Threads, Both
<1>3. todo[Main] = <<>> /\ todo[worker] = <<>> /\ libc # Main /\ libc # worker
  BY <1>1, <1>2, Rest DEF DemoInv, ListsInv, Shape
<1>4. libc = Nobody
  BY <1>3 DEF DemoInv, ThreadsInv, Threads
<1>5. ThreadsInv' /\ ListsInv' /\ ReturnsAlone'
  BY <1>1, <1>2, <1>3, <1>4 DEF DemoInv, ThreadsInv, ListsInv, ReturnsAlone, Threads
<1> QED BY <1>5 DEF DemoInv

LEMMA DemoStep == DemoInv /\ [DemoNext]_demoVars => DemoInv'
<1> SUFFICES ASSUME DemoInv, [DemoNext]_demoVars PROVE DemoInv'
  OBVIOUS
<1>1. CASE UNCHANGED demoVars
  BY <1>1 DEF demoVars, DemoInv, ThreadsInv, ListsInv, ReturnsAlone, Threads
<1>2. CASE DemoNext
  <2>1. Main \notin ended
    BY <1>2, AfterEnd
  <2>2. PICK t \in Threads : ThreadRuns(t) \/ Signal(t)
    BY <1>2 DEF DemoNext
  <2> QED BY <2>1, <2>2, TakeLockStep, ReleaseLockStep, SetFlagStep, StartStep, FaultStep, TurnStep,
             StopReceiverStep, JoinReceiverStep, SignalStep DEF ThreadRuns
<1> QED BY <1>1, <1>2

LEMMA DemoInvariant == DemoSpec => []DemoInv
BY DemoInitInv, DemoStep, PTL DEF DemoSpec

-----------------------------------------------------------------------------
(***************************************************************************)
(* Theorems                                                                *)
(***************************************************************************)
\* Once it has started, the main thread returns only after the flag was set and
\* the receiving thread returned, and the lock is free then.
THEOREM LastToReturn == DemoSpec => []ReturnsAlone
<1>1. DemoInv => ReturnsAlone
  BY DEF DemoInv
<1> QED BY <1>1, DemoInvariant, PTL
=============================================================================
