---------------------------- MODULE PluginBusProofs ----------------------------
(******************************************************************************)
(* Proofs about PluginBus, for any goroutines, handlers, types and numbers of *)
(* calls.  The argument is about the calls that are under way: those that     *)
(* hold the read lock keep writers out, so the lists they walk along stand    *)
(* still, and those that wait only ever see the lists grow.                   *)
(******************************************************************************)
EXTENDS PluginBus, SequenceTheorems, TLAPS

--------------------------------------------------------------------------------
(* How a step changes the calls under way.                                    *)

(* A call under way is one of a goroutine's. *)
LEMMA FrameOfGoroutine ==
  ASSUME NEW f
  PROVE  f \in AllFrames <=>
           \E g \in Goroutines : \E i \in 1..Len(stack[g]) : f = stack[g][i]
BY DEF AllFrames, Frames, Depth

(* The innermost call is one. *)
LEMMA TopIsCall ==
  ASSUME TypeOK, NEW g \in Goroutines, Active(g)
  PROVE  /\ Depth(g) \in Nat \ {0} /\ Depth(g) \in 1..Len(stack[g])
         /\ Top(g) \in Calls /\ Top(g) \in AllFrames
<1>1. stack[g] \in Seq(Calls) /\ stack[g] # <<>> BY DEF TypeOK, Active
<1>2. Len(stack[g]) \in Nat \ {0} BY <1>1, EmptySeq
<1>3. Depth(g) \in 1..Len(stack[g]) BY <1>2 DEF Depth
<1>4. Top(g) \in Calls BY <1>1, <1>3, ElementOfSeq DEF Top
<1>5. QED BY <1>2, <1>3, <1>4, FrameOfGoroutine DEF Top, Depth

(* The innermost call is changed. *)
LEMMA SetTopFrames ==
  ASSUME TypeOK, NEW g \in Goroutines, Active(g), NEW f \in Calls, SetTop(g, f)
  PROVE  stack' \in [Goroutines -> Seq(Calls)] /\ AllFrames' \subseteq AllFrames \cup {f}
<1>1. stack[g] \in Seq(Calls) /\ Depth(g) \in 1..Len(stack[g])
  BY TopIsCall DEF TypeOK
<1> DEFINE s == [stack[g] EXCEPT ![Depth(g)] = f]
<1>2. /\ s \in Seq(Calls) /\ Len(s) = Len(stack[g])
      /\ \A j \in 1..Len(stack[g]) : s[j] = IF j = Depth(g) THEN f ELSE stack[g][j]
  BY <1>1, ExceptSeq
<1>3. stack' = [stack EXCEPT ![g] = s] BY DEF SetTop
<1> HIDE DEF s
<1>4. stack' \in [Goroutines -> Seq(Calls)] BY <1>2, <1>3 DEF TypeOK
<1>5. ASSUME NEW k \in Goroutines, NEW i \in 1..Len(stack'[k])
      PROVE  stack'[k][i] = f \/ stack'[k][i] \in AllFrames
  BY <1>2, <1>3, FrameOfGoroutine DEF TypeOK
<1>6. QED BY <1>4, <1>5 DEF AllFrames, Frames, Depth

(* A call begins. *)
LEMMA PushFrames ==
  ASSUME TypeOK, NEW g \in Goroutines, NEW f \in Calls, Push(g, f)
  PROVE  stack' \in [Goroutines -> Seq(Calls)] /\ AllFrames' \subseteq AllFrames \cup {f}
<1> DEFINE s == Append(stack[g], f)
<1>1. stack[g] \in Seq(Calls) BY DEF TypeOK
<1>2. /\ s \in Seq(Calls) /\ Len(s) = Len(stack[g]) + 1 /\ Len(stack[g]) \in Nat
      /\ s[Len(stack[g]) + 1] = f
      /\ \A j \in 1..Len(stack[g]) : s[j] = stack[g][j]
  BY <1>1, AppendProperties, LenProperties
<1>3. stack' = [stack EXCEPT ![g] = s] BY DEF Push
<1> HIDE DEF s
<1>4. stack' \in [Goroutines -> Seq(Calls)] BY <1>2, <1>3 DEF TypeOK
<1>5. ASSUME NEW k \in Goroutines, NEW i \in 1..Len(stack'[k])
      PROVE  stack'[k][i] = f \/ stack'[k][i] \in AllFrames
  <2>1. CASE k = g
    <3>1. i \in 1..Len(stack[g]) \/ i = Len(stack[g]) + 1
      BY <1>2, <1>3, <2>1 DEF TypeOK
    <3>2. QED BY <1>2, <1>3, <2>1, <3>1, FrameOfGoroutine DEF TypeOK
  <2>2. CASE k # g
    BY <1>3, <2>2, FrameOfGoroutine DEF TypeOK
  <2>3. QED BY <2>1, <2>2
<1>6. \A e \in AllFrames' :
        \E k \in Goroutines : \E i \in 1..Len(stack'[k]) : e = stack'[k][i]
  BY DEF AllFrames, Frames, Depth
<1>7. QED BY <1>4, <1>5, <1>6

(* All but the innermost call of a goroutine. *)
LEMMA WithoutTop ==
  ASSUME TypeOK, NEW g \in Goroutines, Active(g)
  PROVE  LET s == SubSeq(stack[g], 1, Depth(g) - 1)
         IN  /\ s \in Seq(Calls) /\ Len(s) \in Nat /\ Len(s) <= Len(stack[g])
             /\ \A i \in 1..Len(s) : s[i] = stack[g][i]
<1> DEFINE n == Depth(g) - 1
           s == SubSeq(stack[g], 1, n)
<1>1. stack[g] \in Seq(Calls) /\ n \in Nat /\ Len(stack[g]) = n + 1
  BY TopIsCall DEF TypeOK, Depth
<1>2. \A i \in 1..n : stack[g][i] \in Calls BY <1>1, ElementOfSeq
<1> HIDE DEF n
<1>3. s \in Seq(Calls) /\ Len(s) = n /\ \A i \in 1..n : s[i] = stack[g][i]
  BY <1>1, <1>2, SubSeqProperties, n \in Int, 1 \in Int
<1>4. QED BY <1>1, <1>3 DEF n

(* A call ends. *)
LEMMA PopFrames ==
  ASSUME TypeOK, NEW g \in Goroutines, Active(g), Pop(g)
  PROVE  stack' \in [Goroutines -> Seq(Calls)] /\ AllFrames' \subseteq AllFrames
<1> DEFINE s == SubSeq(stack[g], 1, Depth(g) - 1)
<1>1. /\ s \in Seq(Calls) /\ Len(s) \in Nat /\ Len(s) <= Len(stack[g])
      /\ \A i \in 1..Len(s) : s[i] = stack[g][i]
  BY WithoutTop
<1>2. stack' = [stack EXCEPT ![g] = s] BY DEF Pop
<1> HIDE DEF s
<1>3. Len(stack[g]) \in Nat BY LenProperties DEF TypeOK
<1>4. ASSUME NEW k \in Goroutines, NEW i \in 1..Len(stack'[k])
      PROVE  stack'[k][i] \in AllFrames
  BY <1>1, <1>2, <1>3, FrameOfGoroutine DEF TypeOK
<1>5. stack' \in [Goroutines -> Seq(Calls)] BY <1>1, <1>2 DEF TypeOK
<1>6. QED BY <1>4, <1>5 DEF AllFrames, Frames, Depth

(* A writer ends, and the readers that wait go on. *)
LEMMA WrittenFrames ==
  ASSUME TypeOK, NEW g \in Goroutines, Written(g)
  PROVE  /\ stack' \in [Goroutines -> Seq(Calls)]
         /\ \A f \in AllFrames' : \E e \in AllFrames : f = Admit(e)
<1> DEFINE s(k) == IF k = g THEN SubSeq(stack[k], 1, Depth(k) - 1) ELSE stack[k]
           t(k) == [i \in 1..Len(s(k)) |-> Admit(s(k)[i])]
<1>0. Active(g) BY DEF Written, At
<1>1. ASSUME NEW k \in Goroutines
      PROVE  /\ s(k) \in Seq(Calls) /\ Len(s(k)) \in Nat
             /\ Len(s(k)) <= Len(stack[k]) /\ Len(stack[k]) \in Nat
             /\ \A i \in 1..Len(s(k)) : s(k)[i] = stack[k][i]
  <2>1. stack[k] \in Seq(Calls) /\ Len(stack[k]) \in Nat
    BY LenProperties DEF TypeOK
  <2>2. CASE k = g BY <1>0, <2>1, <2>2, WithoutTop
  <2>3. CASE k # g BY <2>1, <2>3
  <2>4. QED BY <2>2, <2>3
<1>2. \A f \in Calls : Admit(f) \in Calls
  BY DEF Admit, Calls, Entry, Places
<1>3. stack' = [k \in Goroutines |-> t(k)] BY DEF Written
<1> HIDE DEF s
<1>4. ASSUME NEW k \in Goroutines
      PROVE  /\ t(k) \in Seq(Calls) /\ Len(t(k)) = Len(s(k))
             /\ \A i \in 1..Len(s(k)) : t(k)[i] = Admit(stack[k][i])
  <2>1. \A i \in 1..Len(s(k)) : s(k)[i] \in Calls BY <1>1, ElementOfSeq
  <2>2. \A i \in 1..Len(s(k)) : Admit(s(k)[i]) \in Calls BY <1>2, <2>1
  <2>3. t(k) \in Seq(Calls) /\ Len(t(k)) = Len(s(k)) BY <1>1, <2>2
  <2>4. QED BY <1>1, <2>3
<1> HIDE DEF t
<1>5. stack' \in [Goroutines -> Seq(Calls)] BY <1>3, <1>4
<1>6. ASSUME NEW f \in AllFrames' PROVE \E e \in AllFrames : f = Admit(e)
  <2>1. PICK k \in Goroutines : \E i \in 1..Len(stack'[k]) : f = stack'[k][i]
    BY <1>6 DEF AllFrames, Frames, Depth
  <2>2. PICK i \in 1..Len(stack'[k]) : f = stack'[k][i] BY <2>1
  <2>3. stack'[k] = t(k) BY <1>3
  <2>4. i \in 1..Len(s(k)) /\ f = Admit(stack[k][i]) BY <1>4, <2>2, <2>3
  <2>5. stack[k][i] \in AllFrames BY <1>1, <2>4, FrameOfGoroutine
  <2>6. QED BY <2>4, <2>5
<1>7. QED BY <1>5, <1>6

--------------------------------------------------------------------------------
(* The invariant: how far an Emit has come, and what it knew.                 *)

(* Both loops have called exactly the handlers they have passed. *)
InPlugins(f) ==
  /\ f.next \in 1..Len(plugins) + 1
  /\ Len(f.called) = f.next - 1
  /\ \A i \in 1..Len(f.called) : f.called[i] = plugins[i]

InHooks(f) ==
  /\ f.next \in 1..Len(hooks[f.type]) + 1
  /\ Len(f.called) = Len(plugins) + f.next - 1
  /\ \A i \in 1..Len(f.called) : f.called[i] = Audience(f.type)[i]

Come(f) ==
  /\ f.at = "plugins" => InPlugins(f)
  /\ f.at = "hooks" => InHooks(f)
  /\ f.at \in {"blocked", "want", "pending"} => f.next = 1 /\ f.called = <<>>

(* Handlers are never taken back. *)
Remembered(f) == \A t \in Types : Members(f.known[t]) \subseteq Members(Audience(t))

BusInv == TypeOK /\ \A f \in AllFrames : Come(f) /\ Remembered(f)

(* Nothing has been called. *)
LEMMA InitBus == Init => BusInv
<1> SUFFICES ASSUME Init PROVE BusInv OBVIOUS
<1>1. TypeOK BY DEF Init, TypeOK
<1>2. AllFrames = {} BY DEF Init, AllFrames, Frames, Depth
<1>3. QED BY <1>1, <1>2 DEF BusInv

(* What holds of the calls under way before and of the new one holds after. *)
LEMMA SameRegistry ==
  ASSUME BusInv, UNCHANGED registry, NEW f \in Calls, Come(f), Remembered(f),
         AllFrames' \subseteq AllFrames \cup {f},
         stack' \in [Goroutines -> Seq(Calls)], calls' \in Nat
  PROVE  BusInv'
<1>1. TypeOK' BY DEF BusInv, TypeOK, registry
<1>2. \A e \in AllFrames' : Come(e) /\ Remembered(e) BY DEF BusInv
<1>3. plugins' = plugins /\ hooks' = hooks BY DEF registry
<1>4. ASSUME NEW e \in AllFrames' PROVE Come(e)' /\ Remembered(e)'
  <2>1. Come(e) /\ Remembered(e) BY <1>2
  <2>2. InPlugins(e) => InPlugins(e)' BY <1>3 DEF InPlugins
  <2>3. \A t : Audience(t)' = Audience(t) BY <1>3 DEF Audience
  <2>4. InHooks(e) => InHooks(e)'
    BY <1>3, <2>3 DEF InHooks
  <2>5. ASSUME NEW t \in Types
        PROVE  Members(e.known[t]) \subseteq Members(Audience(t)')
    BY <2>1, <2>3 DEF Remembered
  <2>6. Remembered(e)' BY <2>5 DEF Remembered, Members
  <2>7. QED BY <2>1, <2>2, <2>4, <2>6 DEF Come
<1>5. QED BY <1>1, <1>4 DEF BusInv

(* A call begins knowing what there is. *)
LEMMA CallKeeps ==
  ASSUME BusInv, NEW g \in Goroutines, NEW op \in Reads \cup Writes,
         NEW t \in Types, NEW h \in Handlers, NEW p \in Waiting \cup {"plugins", "reading"},
         Call(g, op, t, h, p)
  PROVE  BusInv'
<1> DEFINE f == [op |-> op, type |-> t, handler |-> h, at |-> p, next |-> 1,
                 running |-> FALSE, called |-> <<>>,
                 known |-> [u \in Types |-> Audience(u)]]
<1>1. \A u \in Types : Audience(u) \in Seq(Handlers)
  BY ConcatProperties DEF BusInv, TypeOK, Audience
<1>2. f \in Calls
  <2>1. f.known \in [Types -> Seq(Handlers)] BY <1>1
  <2>2. <<>> \in Seq(Handlers) BY EmptySeq
  <2>3. QED BY <2>1, <2>2 DEF Calls, Places, Waiting
<1>3. Len(plugins) \in Nat BY LenProperties DEF BusInv, TypeOK
<1>4. Come(f)
  <2>1. Len(<<>>) = 0 BY EmptySeq
  <2>2. InPlugins(f) BY <1>3, <2>1 DEF InPlugins
  <2>3. QED BY <2>2 DEF Come, Waiting
<1>5. Remembered(f) BY DEF Remembered
<1>6. Push(g, f) /\ UNCHANGED registry /\ calls' = calls + 1 BY DEF Call
<1> HIDE DEF f
<1>7. /\ stack' \in [Goroutines -> Seq(Calls)]
      /\ AllFrames' \subseteq AllFrames \cup {f}
  BY <1>2, <1>6, PushFrames DEF BusInv
<1>8. calls' \in Nat BY <1>6 DEF BusInv, TypeOK
<1>9. QED BY <1>2, <1>4, <1>5, <1>6, <1>7, <1>8, SameRegistry

(* A call that goes on keeps what it has done. *)
LEMMA SetTopKeeps ==
  ASSUME BusInv, NEW g \in Goroutines, Active(g), UNCHANGED <<registry, calls>>,
         NEW f \in Calls, SetTop(g, f), Come(f), f.known = Top(g).known
  PROVE  BusInv'
<1>1. Remembered(Top(g)) BY TopIsCall DEF BusInv
<1>2. Remembered(f) BY <1>1 DEF Remembered
<1>3. /\ stack' \in [Goroutines -> Seq(Calls)]
      /\ AllFrames' \subseteq AllFrames \cup {f}
  BY SetTopFrames DEF BusInv
<1>4. calls' \in Nat BY DEF BusInv, TypeOK
<1>5. QED BY <1>2, <1>3, <1>4, SameRegistry

(* A call that ends leaves the others. *)
LEMMA PopKeeps ==
  ASSUME BusInv, NEW g \in Goroutines, Active(g), UNCHANGED <<registry, calls>>,
         Pop(g)
  PROVE  BusInv'
<1>1. Top(g) \in Calls /\ Top(g) \in AllFrames BY TopIsCall DEF BusInv
<1>2. Come(Top(g)) /\ Remembered(Top(g)) BY <1>1 DEF BusInv
<1>3. /\ stack' \in [Goroutines -> Seq(Calls)]
      /\ AllFrames' \subseteq AllFrames \cup {Top(g)}
  BY PopFrames DEF BusInv
<1>4. calls' \in Nat BY DEF BusInv, TypeOK
<1>5. UNCHANGED registry OBVIOUS
<1>6. QED BY <1>1, <1>2, <1>3, <1>4, <1>5, SameRegistry

(* A writer adds to the lists when no Emit is walking along them. *)
LEMMA WrittenKeeps ==
  ASSUME BusInv, NEW g \in Goroutines, Written(g),
         plugins' \in Seq(Handlers), hooks' \in [Types -> Seq(Handlers)],
         authPlugin' \subseteq Handlers,
         \A t \in Types : Members(Audience(t)) \subseteq Members(Audience(t)')
  PROVE  BusInv'
<1>1. /\ stack' \in [Goroutines -> Seq(Calls)]
      /\ \A f \in AllFrames' : \E e \in AllFrames : f = Admit(e)
  BY WrittenFrames DEF BusInv
<1>2. TypeOK' BY <1>1 DEF BusInv, TypeOK, Written
<1>3. ASSUME NEW f \in AllFrames' PROVE Come(f)' /\ Remembered(f)'
  <2>1. PICK e \in AllFrames : f = Admit(e) BY <1>1
  <2>2. Come(e) /\ Remembered(e) /\ ~Reading(e) BY DEF BusInv, Written, NoReaders
  <2>3. e \in Calls
    <3>1. \A k \in Goroutines : \A i \in 1..Len(stack[k]) : stack[k][i] \in Calls
      BY ElementOfSeq DEF BusInv, TypeOK
    <3>2. QED BY <3>1, FrameOfGoroutine
  <2>4. f.known = e.known /\ f.next = e.next /\ f.called = e.called
    BY <2>1, <2>3 DEF Admit, Calls
  <2>5. Remembered(f)'
    BY <2>2, <2>4 DEF Remembered, Members
  <2>6. \/ f.at = e.at /\ e.at # "blocked"
        \/ e.at = "blocked" /\ f.at \in {"plugins", "reading"}
    BY <2>1, <2>3 DEF Admit, Calls, Entry
  <2>7. Come(f)'
    <3>1. CASE e.at = "blocked"
      <4>1. f.next = 1 /\ f.called = <<>> BY <2>2, <2>4, <3>1 DEF Come
      <4>2. Len(plugins') \in Nat BY LenProperties
      <4>3. InPlugins(f)' BY <4>1, <4>2, EmptySeq DEF InPlugins
      <4>4. QED BY <2>6, <3>1, <4>1, <4>3 DEF Come
    <3>2. CASE e.at # "blocked"
      BY <2>2, <2>4, <2>6, <3>2 DEF Come, Reading
    <3>3. QED BY <3>1, <3>2
  <2>8. QED BY <2>5, <2>7
<1>4. QED BY <1>2, <1>3 DEF BusInv

--------------------------------------------------------------------------------
(* Appending to one of the two lists loses no handler. *)
LEMMA AppendMembers ==
  ASSUME NEW s \in Seq(Handlers), NEW t \in Seq(Handlers), NEW h \in Handlers
  PROVE  /\ Members(s \o t) \subseteq Members(Append(s, h) \o t)
         /\ Members(s \o t) \subseteq Members(s \o Append(t, h))
<1>1. /\ Append(s, h) \in Seq(Handlers) /\ Len(Append(s, h)) = Len(s) + 1
      /\ \A i \in 1..Len(s) : Append(s, h)[i] = s[i]
  BY AppendProperties
<1>2. /\ Append(t, h) \in Seq(Handlers) /\ Len(Append(t, h)) = Len(t) + 1
      /\ \A i \in 1..Len(t) : Append(t, h)[i] = t[i]
  BY AppendProperties
<1>3. Len(s) \in Nat /\ Len(t) \in Nat BY LenProperties
<1> DEFINE a == Append(s, h) \o t
           b == s \o Append(t, h)
           c == s \o t
<1>4. /\ Len(c) = Len(s) + Len(t)
      /\ \A i \in 1..Len(s) + Len(t) :
           c[i] = IF i <= Len(s) THEN s[i] ELSE t[i - Len(s)]
  BY ConcatProperties
<1>5. /\ Len(a) = Len(s) + 1 + Len(t)
      /\ \A i \in 1..Len(s) + 1 + Len(t) :
           a[i] = IF i <= Len(s) + 1 THEN Append(s, h)[i] ELSE t[i - (Len(s) + 1)]
  <2> DEFINE u == Append(s, h)
  <2>1. u \in Seq(Handlers) /\ Len(u) = Len(s) + 1 BY <1>1
  <2> HIDE DEF u
  <2>2. /\ Len(u \o t) = Len(u) + Len(t)
        /\ \A i \in 1..Len(u) + Len(t) :
             (u \o t)[i] = IF i <= Len(u) THEN u[i] ELSE t[i - Len(u)]
    BY <2>1, ConcatProperties
  <2>3. QED BY <2>1, <2>2 DEF u
<1>6. /\ Len(b) = Len(s) + (Len(t) + 1)
      /\ \A i \in 1..Len(s) + (Len(t) + 1) :
           b[i] = IF i <= Len(s) THEN s[i] ELSE Append(t, h)[i - Len(s)]
  <2> DEFINE u == Append(t, h)
  <2>1. u \in Seq(Handlers) /\ Len(u) = Len(t) + 1 BY <1>2
  <2> HIDE DEF u
  <2>2. /\ Len(s \o u) = Len(s) + Len(u)
        /\ \A i \in 1..Len(s) + Len(u) :
             (s \o u)[i] = IF i <= Len(s) THEN s[i] ELSE u[i - Len(s)]
    BY <2>1, ConcatProperties
  <2>3. QED BY <2>1, <2>2 DEF u
<1> HIDE DEF a, b, c
<1>7. ASSUME NEW i \in 1..Len(c) PROVE \E j \in 1..Len(a) : a[j] = c[i]
  <2>1. CASE i <= Len(s)
    <3>1. i \in 1..Len(a) /\ i \in 1..Len(s) BY <1>3, <1>4, <1>5, <2>1
    <3>2. a[i] = c[i] BY <1>1, <1>3, <1>4, <1>5, <2>1, <3>1
    <3>3. QED BY <3>1, <3>2
  <2>2. CASE ~(i <= Len(s))
    <3>1. i + 1 \in 1..Len(a) BY <1>3, <1>4, <1>5, <2>2
    <3>2. a[i + 1] = t[i + 1 - (Len(s) + 1)] BY <1>3, <1>4, <1>5, <2>2, <3>1
    <3>3. i + 1 - (Len(s) + 1) = i - Len(s) BY <1>3, <1>4
    <3>4. c[i] = t[i - Len(s)] BY <1>3, <1>4, <2>2
    <3>5. QED BY <3>1, <3>2, <3>3, <3>4
  <2>3. QED BY <2>1, <2>2
<1>8. ASSUME NEW i \in 1..Len(c) PROVE \E j \in 1..Len(b) : b[j] = c[i]
  <2>1. i \in 1..Len(b) BY <1>3, <1>4, <1>6
  <2>2. CASE i <= Len(s)
    BY <1>3, <1>4, <1>6, <2>1, <2>2
  <2>3. CASE ~(i <= Len(s))
    <3>1. i - Len(s) \in 1..Len(t) BY <1>3, <1>4, <2>3
    <3>2. b[i] = Append(t, h)[i - Len(s)] BY <1>6, <2>1, <1>3, <1>4, <2>3
    <3>3. c[i] = t[i - Len(s)] BY <1>3, <1>4, <2>3
    <3>4. QED BY <1>2, <2>1, <3>1, <3>2, <3>3
  <2>4. QED BY <2>2, <2>3
<1>9. Members(c) \subseteq Members(a)
  <2> SUFFICES ASSUME NEW x \in Members(c) PROVE x \in Members(a) OBVIOUS
  <2>1. PICK i \in 1..Len(c) : x = c[i] BY DEF Members
  <2>2. PICK j \in 1..Len(a) : a[j] = c[i] BY <1>7
  <2>3. QED BY <2>1, <2>2 DEF Members
<1>10. Members(c) \subseteq Members(b)
  <2> SUFFICES ASSUME NEW x \in Members(c) PROVE x \in Members(b) OBVIOUS
  <2>1. PICK i \in 1..Len(c) : x = c[i] BY DEF Members
  <2>2. PICK j \in 1..Len(b) : b[j] = c[i] BY <1>8
  <2>3. QED BY <2>1, <2>2 DEF Members
<1>11. QED BY <1>9, <1>10 DEF a, b, c

(* An Emit goes on to its next plugin. *)
LEMMA OnEventKeeps ==
  ASSUME BusInv, NEW g \in Goroutines, OnEvent(g)
  PROVE  BusInv'
<1> DEFINE e == Top(g)
           f == [e EXCEPT !.next = @ + 1, !.running = TRUE,
                          !.called = Append(@, plugins[e.next])]
<1>1. /\ Active(g) /\ e.at = "plugins" /\ e.next \in 1..Len(plugins)
      /\ SetTop(g, f) /\ UNCHANGED <<registry, calls>>
  BY DEF OnEvent, Invoke, Calling, At
<1>2. e \in Calls /\ Come(e) BY <1>1, TopIsCall DEF BusInv
<1>3. plugins \in Seq(Handlers) /\ Len(plugins) \in Nat
  BY LenProperties DEF BusInv, TypeOK
<1>4. plugins[e.next] \in Handlers BY <1>1, <1>3, ElementOfSeq
<1>5. e.called \in Seq(Handlers) BY <1>2 DEF Calls
<1>6. /\ Append(e.called, plugins[e.next]) \in Seq(Handlers)
      /\ Len(Append(e.called, plugins[e.next])) = Len(e.called) + 1
      /\ \A i \in 1..Len(e.called) :
           Append(e.called, plugins[e.next])[i] = e.called[i]
      /\ Append(e.called, plugins[e.next])[Len(e.called) + 1] = plugins[e.next]
  BY <1>4, <1>5, AppendProperties
<1>7. InPlugins(e) BY <1>1, <1>2 DEF Come
<1> DEFINE l == Append(e.called, plugins[e.next])
<1> HIDE DEF e, l
<1>8. /\ f \in Calls /\ f.at = "plugins" /\ f.known = e.known
      /\ f.next = e.next + 1 /\ f.called = Append(e.called, plugins[e.next])
  <2>1. l \in Seq(Handlers) BY <1>6 DEF l
  <2>2. f = [e EXCEPT !.next = e.next + 1, !.running = TRUE, !.called = l]
    BY DEF l
  <2>3. e.next + 1 \in Nat BY <1>2 DEF Calls
  <2>4. f \in Calls BY <1>2, <2>1, <2>2, <2>3 DEF Calls
  <2>5. f.at = "plugins" /\ f.known = e.known BY <1>1, <1>2, <2>2 DEF Calls
  <2>6. f.next = e.next + 1 /\ f.called = l BY <1>2, <2>2 DEF Calls
  <2>7. QED BY <2>4, <2>5, <2>6 DEF l
<1> HIDE DEF f
<1>9. InPlugins(f)
  <2>1. f.next \in 1..Len(plugins) + 1 BY <1>1, <1>3, <1>8
  <2>2. Len(f.called) = f.next - 1 BY <1>1, <1>6, <1>7, <1>8 DEF InPlugins
  <2>3. ASSUME NEW i \in 1..Len(f.called) PROVE f.called[i] = plugins[i]
    <3>1. Len(e.called) = e.next - 1 /\ e.next \in Nat BY <1>1, <1>7 DEF InPlugins
    <3>2. i \in 1..Len(e.called) \/ i = Len(e.called) + 1
      BY <1>6, <1>8, <3>1
    <3>3. QED BY <1>6, <1>7, <1>8, <3>1, <3>2 DEF InPlugins
  <2>4. QED BY <2>1, <2>2, <2>3 DEF InPlugins
<1>10. Come(f) BY <1>8, <1>9 DEF Come
<1>11. QED BY <1>1, <1>8, <1>10, SetTopKeeps DEF e

(* An Emit goes on to its next hook. *)
LEMMA RunHookKeeps ==
  ASSUME BusInv, NEW g \in Goroutines, RunHook(g)
  PROVE  BusInv'
<1> DEFINE e == Top(g)
           s == hooks[e.type]
           f == [e EXCEPT !.next = @ + 1, !.running = TRUE,
                          !.called = Append(@, s[e.next])]
<1>1. /\ Active(g) /\ e.at = "hooks" /\ e.next \in 1..Len(s)
      /\ SetTop(g, f) /\ UNCHANGED <<registry, calls>>
  BY DEF RunHook, Invoke, Calling, At
<1>2. e \in Calls /\ Come(e) BY <1>1, TopIsCall DEF BusInv
<1>3. /\ plugins \in Seq(Handlers) /\ Len(plugins) \in Nat
      /\ s \in Seq(Handlers) /\ Len(s) \in Nat
  BY <1>2, LenProperties DEF BusInv, TypeOK, Calls
<1>4. s[e.next] \in Handlers BY <1>1, <1>3, ElementOfSeq
<1>5. e.called \in Seq(Handlers) BY <1>2 DEF Calls
<1>6. /\ Append(e.called, s[e.next]) \in Seq(Handlers)
      /\ Len(Append(e.called, s[e.next])) = Len(e.called) + 1
      /\ \A i \in 1..Len(e.called) : Append(e.called, s[e.next])[i] = e.called[i]
      /\ Append(e.called, s[e.next])[Len(e.called) + 1] = s[e.next]
  BY <1>4, <1>5, AppendProperties
<1>7. InHooks(e) BY <1>1, <1>2 DEF Come
<1> DEFINE l == Append(e.called, s[e.next])
<1> HIDE DEF e, s, l
<1>8. /\ f \in Calls /\ f.at = "hooks" /\ f.known = e.known /\ f.type = e.type
      /\ f.next = e.next + 1 /\ f.called = Append(e.called, s[e.next])
  <2>1. l \in Seq(Handlers) BY <1>6 DEF l
  <2>2. f = [e EXCEPT !.next = e.next + 1, !.running = TRUE, !.called = l]
    BY DEF l
  <2>3. e.next + 1 \in Nat BY <1>2 DEF Calls
  <2>4. f \in Calls BY <1>2, <2>1, <2>2, <2>3 DEF Calls
  <2>5. f.at = "hooks" /\ f.known = e.known /\ f.type = e.type
    BY <1>1, <1>2, <2>2 DEF Calls
  <2>6. f.next = e.next + 1 /\ f.called = l BY <1>2, <2>2 DEF Calls
  <2>7. QED BY <2>4, <2>5, <2>6 DEF l
<1>9. Audience(e.type) = plugins \o s BY DEF Audience, s
<1> HIDE DEF f
<1>10. \A i \in 1..Len(plugins) + Len(s) :
         (plugins \o s)[i] = IF i <= Len(plugins) THEN plugins[i]
                                                  ELSE s[i - Len(plugins)]
  BY <1>3, ConcatProperties
<1>11. Len(e.called) = Len(plugins) + e.next - 1 /\ e.next \in Nat
  BY <1>1, <1>7 DEF InHooks
<1>12. InHooks(f)
  <2>1. f.next \in 1..Len(hooks[f.type]) + 1 BY <1>1, <1>3, <1>8 DEF s
  <2>2. Len(f.called) = Len(plugins) + f.next - 1 BY <1>3, <1>6, <1>8, <1>11
  <2>3. ASSUME NEW i \in 1..Len(f.called) PROVE f.called[i] = (plugins \o s)[i]
    <3>1. i \in 1..Len(e.called) \/ i = Len(e.called) + 1
      BY <1>3, <1>6, <1>8, <1>11
    <3>2. CASE i \in 1..Len(e.called)
      BY <1>6, <1>7, <1>8, <1>9, <3>2 DEF InHooks
    <3>3. CASE i = Len(e.called) + 1
      <4>1. i = Len(plugins) + e.next BY <1>3, <1>11, <3>3
      <4>2. f.called[i] = s[e.next] BY <1>6, <1>8, <3>3
      <4>3. /\ i \in 1..Len(plugins) + Len(s) /\ ~(i <= Len(plugins))
            /\ i - Len(plugins) = e.next
        BY <1>1, <1>3, <4>1
      <4>4. QED BY <1>10, <4>2, <4>3
    <3>4. QED BY <3>1, <3>2, <3>3
  <2>4. QED BY <1>8, <1>9, <2>1, <2>2, <2>3 DEF InHooks
<1>13. Come(f) BY <1>8, <1>12 DEF Come
<1>14. QED BY <1>1, <1>8, <1>13, SetTopKeeps DEF e

(* An Emit turns from the plugins to the hooks. *)
LEMMA StartHooksKeeps ==
  ASSUME BusInv, NEW g \in Goroutines, StartHooks(g)
  PROVE  BusInv'
<1> DEFINE e == Top(g)
           f == [e EXCEPT !.at = "hooks", !.next = 1]
<1>1. /\ Active(g) /\ e.at = "plugins" /\ e.next > Len(plugins)
      /\ SetTop(g, f) /\ UNCHANGED <<registry, calls>>
  BY DEF StartHooks, Calling, At
<1>2. e \in Calls /\ Come(e) BY <1>1, TopIsCall DEF BusInv
<1>3. InPlugins(e) BY <1>1, <1>2 DEF Come
<1>4. /\ f \in Calls /\ f.at = "hooks" /\ f.known = e.known /\ f.type = e.type
      /\ f.next = 1 /\ f.called = e.called /\ e.type \in Types
  BY <1>2 DEF Calls, Places
<1>5. /\ plugins \in Seq(Handlers) /\ Len(plugins) \in Nat
      /\ hooks[e.type] \in Seq(Handlers) /\ Len(hooks[e.type]) \in Nat
  BY <1>4, LenProperties DEF BusInv, TypeOK
<1> HIDE DEF e, f
<1>6. \A i \in 1..Len(plugins) : (plugins \o hooks[e.type])[i] = plugins[i]
  BY <1>5, ConcatProperties
<1>7. Len(e.called) = Len(plugins) BY <1>1, <1>3, <1>5 DEF InPlugins
<1>8. InHooks(f)
  <2>1. f.next \in 1..Len(hooks[f.type]) + 1 BY <1>4, <1>5
  <2>2. Len(f.called) = Len(plugins) + f.next - 1 BY <1>4, <1>5, <1>7
  <2>3. \A i \in 1..Len(f.called) : f.called[i] = Audience(f.type)[i]
    BY <1>3, <1>4, <1>6, <1>7 DEF InPlugins, Audience
  <2>4. QED BY <2>1, <2>2, <2>3 DEF InHooks
<1>9. Come(f) BY <1>4, <1>8 DEF Come
<1>10. QED BY <1>1, <1>4, <1>9, SetTopKeeps DEF e

(* The other steps of a goroutine. *)
LEMMA RestKeeps ==
  ASSUME BusInv, NEW g \in Goroutines,
         \/ Announce(g) \/ ReadAuth(g) \/ Checked(g) \/ Return(g) \/ EndEmit(g)
         \/ \E t \in Types : Transform(g, t)
  PROVE  BusInv'
<1> DEFINE e == Top(g)
<1>1. Active(g) /\ UNCHANGED <<registry, calls>>
  BY DEF Announce, ReadAuth, Checked, Return, EndEmit, Transform, At
<1>2. e \in Calls /\ Come(e) BY <1>1, TopIsCall DEF BusInv
<1>3. CASE Announce(g)
  <2> DEFINE f == [e EXCEPT !.at = "pending"]
  <2>1. e.at = "want" /\ SetTop(g, f) BY <1>3 DEF Announce, At
  <2> HIDE DEF e
  <2>2. /\ f \in Calls /\ f.at = "pending" /\ f.known = e.known
        /\ f.next = e.next /\ f.called = e.called
    BY <1>2 DEF Calls, Places
  <2> HIDE DEF f
  <2>3. Come(f) BY <1>2, <2>1, <2>2 DEF Come
  <2>4. QED BY <1>1, <2>1, <2>2, <2>3, SetTopKeeps DEF e
<1>4. CASE ReadAuth(g) /\ authPlugin # {}
  <2> DEFINE f == [e EXCEPT !.at = "checking"]
  <2>1. SetTop(g, f) BY <1>4 DEF ReadAuth, At
  <2> HIDE DEF e
  <2>2. f \in Calls /\ f.at = "checking" /\ f.known = e.known
    BY <1>2 DEF Calls, Places
  <2> HIDE DEF f
  <2>3. Come(f) BY <2>2 DEF Come
  <2>4. QED BY <1>1, <2>1, <2>2, <2>3, SetTopKeeps DEF e
<1>5. CASE Return(g)
  <2> DEFINE f == [e EXCEPT !.running = FALSE]
  <2>1. SetTop(g, f) BY <1>5 DEF Return
  <2> HIDE DEF e
  <2>2. /\ f \in Calls /\ f.at = e.at /\ f.known = e.known /\ f.type = e.type
        /\ f.next = e.next /\ f.called = e.called
    BY <1>2 DEF Calls
  <2> HIDE DEF f
  <2>3. Come(f) BY <1>2, <2>2 DEF Come, InPlugins, InHooks
  <2>4. QED BY <1>1, <2>1, <2>2, <2>3, SetTopKeeps DEF e
<1>6. ASSUME NEW t \in Types, Transform(g, t) PROVE BusInv'
  <2> DEFINE f == [e EXCEPT !.type = t]
  <2>1. SetTop(g, f) /\ e.at = "plugins" BY <1>6 DEF Transform, At
  <2> HIDE DEF e
  <2>2. /\ f \in Calls /\ f.at = e.at /\ f.known = e.known
        /\ f.next = e.next /\ f.called = e.called
    BY <1>2 DEF Calls
  <2> HIDE DEF f
  <2>3. Come(f) BY <1>2, <2>1, <2>2 DEF Come, InPlugins
  <2>4. QED BY <1>1, <2>1, <2>2, <2>3, SetTopKeeps DEF e
<1>7. ASSUME Pop(g) PROVE BusInv' BY <1>1, <1>7, PopKeeps
<1>8. QED BY <1>3, <1>4, <1>5, <1>6, <1>7 DEF ReadAuth, Checked, EndEmit

(* Writers only ever add. *)
LEMMA WriterKeeps ==
  ASSUME BusInv, NEW g \in Goroutines, Register(g) \/ On(g) \/ SetAuth(g)
  PROVE  BusInv'
<1> DEFINE h == Top(g).handler
           t == Top(g).type
<1>1. Written(g) /\ Active(g) BY DEF Register, On, SetAuth, Written, At
<1>2. h \in Handlers /\ t \in Types BY <1>1, TopIsCall DEF BusInv, Calls
<1>3. /\ plugins \in Seq(Handlers) /\ hooks \in [Types -> Seq(Handlers)]
      /\ authPlugin \subseteq Handlers
  BY DEF BusInv, TypeOK
<1>4. CASE Register(g)
  <2>1. plugins' = Append(plugins, h) /\ UNCHANGED <<hooks, authPlugin>>
    BY <1>4 DEF Register
  <2>2. plugins' \in Seq(Handlers) BY <1>2, <1>3, <2>1, AppendProperties
  <2>3. ASSUME NEW u \in Types
        PROVE  Members(Audience(u)) \subseteq Members(Audience(u)')
    <3>1. hooks[u] \in Seq(Handlers) BY <1>3
    <3>2. Members(plugins \o hooks[u]) \subseteq Members(Append(plugins, h) \o hooks[u])
      BY <1>2, <1>3, <3>1, AppendMembers
    <3>3. QED BY <2>1, <3>2 DEF Audience
  <2>4. \A u \in Types : Members(Audience(u)) \subseteq Members(Audience(u))'
    BY <2>3 DEF Members
  <2>5. hooks' \in [Types -> Seq(Handlers)] /\ authPlugin' \subseteq Handlers
    BY <1>3, <2>1
  <2>6. QED BY <1>1, <2>2, <2>4, <2>5, WrittenKeeps DEF Members
<1>5. CASE On(g)
  <2>1. /\ hooks' = [hooks EXCEPT ![t] = Append(hooks[t], h)]
        /\ UNCHANGED <<plugins, authPlugin>>
    BY <1>5 DEF On
  <2>2. Append(hooks[t], h) \in Seq(Handlers) BY <1>2, <1>3, AppendProperties
  <2>3. hooks' \in [Types -> Seq(Handlers)] BY <1>2, <1>3, <2>1, <2>2
  <2>4. ASSUME NEW u \in Types
        PROVE  Members(Audience(u)) \subseteq Members(Audience(u)')
    <3>1. hooks[u] \in Seq(Handlers) BY <1>3
    <3>2. Members(plugins \o hooks[u]) \subseteq Members(plugins \o Append(hooks[u], h))
      BY <1>2, <1>3, <3>1, AppendMembers
    <3>3. hooks'[u] = hooks[u] \/ hooks'[u] = Append(hooks[u], h)
      BY <1>2, <1>3, <2>1
    <3>4. QED BY <2>1, <3>2, <3>3 DEF Audience
  <2>5. \A u \in Types : Members(Audience(u)) \subseteq Members(Audience(u))'
    BY <2>4 DEF Members
  <2>6. plugins' \in Seq(Handlers) /\ authPlugin' \subseteq Handlers
    BY <1>3, <2>1
  <2>7. QED BY <1>1, <2>3, <2>5, <2>6, WrittenKeeps DEF Members
<1>6. CASE SetAuth(g)
  <2>1. authPlugin' = {h} /\ UNCHANGED <<plugins, hooks>> BY <1>6 DEF SetAuth
  <2>2. \A u \in Types : Members(Audience(u)) \subseteq Members(Audience(u))'
    BY <2>1 DEF Members, Audience
  <2>3. /\ plugins' \in Seq(Handlers) /\ hooks' \in [Types -> Seq(Handlers)]
        /\ authPlugin' \subseteq Handlers
    BY <1>2, <1>3, <2>1
  <2>4. QED BY <1>1, <2>2, <2>3, WrittenKeeps DEF Members
<1>7. QED BY <1>4, <1>5, <1>6

(* BusInv is an invariant of the manager. *)
LEMMA BusInvariant == Spec => []BusInv
<1>1. ASSUME BusInv, [Next]_vars PROVE BusInv'
  <2>1. ASSUME NEW g \in Goroutines, Caller(g) PROVE BusInv'
    <3>1. PICK op \in Reads \cup Writes, t \in Types, h \in Handlers,
               p \in Waiting \cup {"plugins", "reading"} : Call(g, op, t, h, p)
      BY <2>1 DEF Caller, CallReader, Entry, Waiting
    <3>2. QED BY <1>1, <3>1, CallKeeps
  <2>2. ASSUME NEW g \in Goroutines, Work(g) PROVE BusInv'
    BY <1>1, <2>2, WriterKeeps, RestKeeps, OnEventKeeps, RunHookKeeps,
       StartHooksKeeps
    DEF Work
  <2>3. ASSUME NEW g \in Goroutines, NEW t \in Types, Transform(g, t) PROVE BusInv'
    BY <1>1, <2>3, RestKeeps
  <2>4. CASE UNCHANGED vars
    <3>1. AllFrames' = AllFrames BY <2>4 DEF vars, AllFrames, Frames, Depth
    <3>2. TypeOK' BY <1>1, <2>4 DEF vars, registry, BusInv, TypeOK
    <3>3. plugins' = plugins /\ hooks' = hooks BY <2>4 DEF vars, registry
    <3>4. ASSUME NEW e \in AllFrames PROVE Come(e)' /\ Remembered(e)'
      <4>1. Come(e) /\ Remembered(e) BY <1>1 DEF BusInv
      <4>2. \A t : Audience(t)' = Audience(t) BY <3>3 DEF Audience
      <4>3. Come(e)' BY <3>3, <4>1, <4>2 DEF Come, InPlugins, InHooks
      <4>4. \A t \in Types : Members(e.known[t]) \subseteq Members(Audience(t)')
        BY <4>1, <4>2 DEF Remembered
      <4>5. Remembered(e)' BY <4>4 DEF Remembered, Members
      <4>6. QED BY <4>3, <4>5
    <3>5. QED BY <3>1, <3>2, <3>4 DEF BusInv
  <2>5. QED BY <1>1, <2>1, <2>2, <2>3, <2>4 DEF Next
<1>2. QED BY InitBus, <1>1, PTL DEF Spec

(* Whoever registers meanwhile, an Emit that ends has called each plugin and  *)
(* each hook of the event's type once, in the order of their registration,    *)
(* and none that was there when it was called is missing.                     *)
THEOREM NobodyIsMissed == Spec => []EventsComplete
<1>1. BusInv => EventsComplete
  <2> SUFFICES ASSUME BusInv, NEW f \in AllFrames, Emitted(f)
               PROVE  /\ f.called = Audience(f.type)
                      /\ Members(f.known[f.type]) \subseteq Members(f.called)
    BY DEF EventsComplete
  <2>1. f \in Calls
    <3>1. \A k \in Goroutines : \A i \in 1..Len(stack[k]) : stack[k][i] \in Calls
      BY ElementOfSeq DEF BusInv, TypeOK
    <3>2. QED BY <3>1, FrameOfGoroutine
  <2>2. InHooks(f) /\ Remembered(f) BY DEF BusInv, Emitted, Come
  <2>3. f.type \in Types /\ f.called \in Seq(Handlers) BY <2>1 DEF Calls
  <2>4. plugins \in Seq(Handlers) /\ hooks[f.type] \in Seq(Handlers)
    BY <2>3 DEF BusInv, TypeOK
  <2>5. Len(plugins) \in Nat /\ Len(hooks[f.type]) \in Nat BY <2>4, LenProperties
  <2>6. /\ Audience(f.type) \in Seq(Handlers)
        /\ Len(Audience(f.type)) = Len(plugins) + Len(hooks[f.type])
    BY <2>4, ConcatProperties DEF Audience
  <2>7. f.next = Len(hooks[f.type]) + 1
    <3>1. f.next > Len(hooks[f.type]) BY DEF Emitted
    <3>2. f.next \in 1..Len(hooks[f.type]) + 1 BY <2>2 DEF InHooks
    <3>3. QED BY <2>5, <3>1, <3>2
  <2>8. Len(f.called) = Len(Audience(f.type))
    BY <2>2, <2>5, <2>6, <2>7 DEF InHooks
  <2>9. f.called = Audience(f.type)
    BY <2>2, <2>3, <2>6, <2>8, SeqEqual DEF InHooks
  <2>10. QED BY <2>2, <2>3, <2>9 DEF Remembered
<1>2. QED BY BusInvariant, <1>1, PTL

(* The fields keep their types, above all the stacks of calls. *)
THEOREM TypeCorrect == Spec => []TypeOK
<1>1. BusInv => TypeOK BY DEF BusInv
<1>2. QED BY BusInvariant, <1>1, PTL

--------------------------------------------------------------------------------
(* A handler that calls back and has to wait waits forever.                   *)

(* Where a call may be: an Emit waits for the lock or walks along the lists,  *)
(* and handlers run only in the latter case.                                  *)
Placed(f) ==
  /\ f.op = "emit" => f.at \in {"blocked", "plugins", "hooks"}
  /\ f.running => f.at \in {"plugins", "hooks"}

(* A call that made another one has a handler, or a plugin that authenticates. *)
Busy(f) == f.running \/ f.at = "checking"

NestInv ==
  /\ \A f \in AllFrames : Placed(f)
  /\ \A g \in Goroutines : \A i \in 1..Len(stack[g]) : i < Len(stack[g]) => Busy(stack[g][i])

(* Nothing is nested at the start. *)
LEMMA InitNest == Init => NestInv
<1> SUFFICES ASSUME Init PROVE NestInv OBVIOUS
<1>1. \A g \in Goroutines : Len(stack[g]) = 0 BY EmptySeq DEF Init
<1>2. QED BY <1>1, FrameOfGoroutine DEF NestInv

(* The innermost call is changed. *)
LEMMA SetTopNests ==
  ASSUME TypeOK, NestInv, NEW g \in Goroutines, Active(g), NEW f \in Calls, SetTop(g, f),
         Placed(f)
  PROVE  NestInv'
<1>1. \A e \in AllFrames' : Placed(e) BY SetTopFrames DEF NestInv
<1>2. stack[g] \in Seq(Calls) /\ Depth(g) \in 1..Len(stack[g]) BY TopIsCall DEF TypeOK
<1> DEFINE s == [stack[g] EXCEPT ![Depth(g)] = f]
<1>3. /\ Len(s) = Len(stack[g])
      /\ \A j \in 1..Len(stack[g]) : s[j] = IF j = Depth(g) THEN f ELSE stack[g][j]
  BY <1>2, ExceptSeq
<1>4. stack' = [stack EXCEPT ![g] = s] BY DEF SetTop
<1> HIDE DEF s
<1>5. ASSUME NEW k \in Goroutines, NEW i \in 1..Len(stack'[k]), i < Len(stack'[k])
      PROVE  Busy(stack'[k][i])
  <2>1. Len(stack'[k]) = Len(stack[k]) BY <1>3, <1>4 DEF TypeOK
  <2>2. stack'[k][i] = stack[k][i] BY <1>3, <1>4, <1>5, <2>1 DEF TypeOK, Depth
  <2>3. QED BY <1>5, <2>1, <2>2 DEF NestInv
<1>6. QED BY <1>1, <1>5 DEF NestInv, Placed, Busy

(* A call begins. *)
LEMMA PushNests ==
  ASSUME TypeOK, NestInv, NEW g \in Goroutines, NEW f \in Calls, MayCall(g), Push(g, f),
         Placed(f)
  PROVE  NestInv'
<1>1. \A e \in AllFrames' : Placed(e) BY PushFrames DEF NestInv
<1>2. stack[g] \in Seq(Calls) BY DEF TypeOK
<1> DEFINE s == Append(stack[g], f)
<1>3. /\ Len(s) = Len(stack[g]) + 1 /\ Len(stack[g]) \in Nat
      /\ \A j \in 1..Len(stack[g]) : s[j] = stack[g][j]
  BY <1>2, AppendProperties, LenProperties
<1>4. stack' = [stack EXCEPT ![g] = s] BY DEF Push
<1> HIDE DEF s
<1>5. ASSUME NEW k \in Goroutines, NEW i \in 1..Len(stack'[k]), i < Len(stack'[k])
      PROVE  Busy(stack'[k][i])
  <2>1. CASE k # g BY <1>4, <1>5, <2>1 DEF NestInv, TypeOK
  <2>2. CASE k = g
    <3>1. stack'[k] = s BY <1>4, <2>2 DEF TypeOK
    <3>2. i \in 1..Len(stack[g]) /\ stack'[k][i] = stack[g][i] BY <1>3, <1>5, <3>1
    <3>3. CASE i < Len(stack[g]) BY <3>2, <3>3 DEF NestInv
    <3>4. CASE i = Len(stack[g])
      <4>1. Active(g) BY <1>2, <3>2, EmptySeq DEF Active
      <4>2. QED BY <3>2, <3>4, <4>1 DEF MayCall, Top, Depth, Busy
    <3>5. QED BY <1>3, <3>2, <3>3, <3>4
  <2>3. QED BY <2>1, <2>2
<1>6. QED BY <1>1, <1>5 DEF NestInv, Placed, Busy

(* A call ends. *)
LEMMA PopNests ==
  ASSUME TypeOK, NestInv, NEW g \in Goroutines, Active(g), Pop(g)
  PROVE  NestInv'
<1>1. \A e \in AllFrames' : Placed(e) BY PopFrames DEF NestInv
<1> DEFINE s == SubSeq(stack[g], 1, Depth(g) - 1)
<1>2. /\ Len(s) \in Nat /\ Len(s) <= Len(stack[g])
      /\ \A i \in 1..Len(s) : s[i] = stack[g][i]
  BY WithoutTop
<1>3. stack' = [stack EXCEPT ![g] = s] BY DEF Pop
<1>4. Len(stack[g]) \in Nat BY LenProperties DEF TypeOK
<1> HIDE DEF s
<1>5. ASSUME NEW k \in Goroutines, NEW i \in 1..Len(stack'[k]), i < Len(stack'[k])
      PROVE  Busy(stack'[k][i])
  BY <1>2, <1>3, <1>4, <1>5 DEF NestInv, TypeOK
<1>6. QED BY <1>1, <1>5 DEF NestInv, Placed, Busy

(* A writer ends, and the readers that wait go on. *)
LEMMA WrittenNests ==
  ASSUME TypeOK, NestInv, NEW g \in Goroutines, Written(g)
  PROVE  NestInv'
<1>1. \A e \in Calls : Placed(e) => Placed(Admit(e))
  BY DEF Placed, Admit, Entry, Calls, Reads, Writes
<1>2. \A e \in Calls : Placed(e) /\ Busy(e) => Admit(e) = e
  BY DEF Placed, Busy, Admit
<1>3. \A k \in Goroutines : \A i \in 1..Len(stack[k]) : stack[k][i] \in Calls
  BY ElementOfSeq DEF TypeOK
<1>4. \A e \in AllFrames : e \in Calls BY <1>3, FrameOfGoroutine
<1>5. \A f \in AllFrames' : Placed(f)
  BY <1>1, <1>4, WrittenFrames DEF NestInv
<1> DEFINE s(k) == IF k = g THEN SubSeq(stack[k], 1, Depth(k) - 1) ELSE stack[k]
           t(k) == [i \in 1..Len(s(k)) |-> Admit(s(k)[i])]
<1>6. ASSUME NEW k \in Goroutines
      PROVE  /\ Len(s(k)) \in Nat /\ Len(s(k)) <= Len(stack[k]) /\ Len(stack[k]) \in Nat
             /\ \A i \in 1..Len(s(k)) : s(k)[i] = stack[k][i]
  <2>1. Len(stack[k]) \in Nat BY LenProperties DEF TypeOK
  <2>2. CASE k = g BY <2>1, <2>2, WithoutTop DEF Written, At
  <2>3. CASE k # g BY <2>1, <2>3
  <2>4. QED BY <2>2, <2>3
<1>7. stack' = [k \in Goroutines |-> t(k)] BY DEF Written
<1> HIDE DEF s
<1>8. ASSUME NEW k \in Goroutines, NEW i \in 1..Len(stack'[k]), i < Len(stack'[k])
      PROVE  Busy(stack'[k][i])
  <2>1. stack'[k] = t(k) BY <1>7
  <2>2. Len(t(k)) = Len(s(k)) BY <1>6, LenProperties
  <2>3. i \in 1..Len(s(k)) /\ i < Len(stack[k]) /\ i \in 1..Len(stack[k])
    BY <1>6, <1>8, <2>1, <2>2
  <2>4. t(k)[i] = Admit(stack[k][i]) BY <1>6, <2>3
  <2>5. Busy(stack[k][i]) /\ stack[k][i] \in Calls /\ Placed(stack[k][i])
    BY <1>3, <2>3, FrameOfGoroutine DEF NestInv
  <2>6. QED BY <1>2, <2>1, <2>4, <2>5
<1>9. QED BY <1>5, <1>8 DEF NestInv, Placed, Busy

(* What becomes the innermost call is one. *)
LEMMA NewTopIsCall ==
  ASSUME TypeOK, TypeOK', NEW g \in Goroutines, NEW f,
         (Active(g) /\ SetTop(g, f)) \/ Push(g, f)
  PROVE  f \in Calls
<1>1. stack[g] \in Seq(Calls) /\ stack'[g] \in Seq(Calls) BY DEF TypeOK
<1>2. CASE Active(g) /\ SetTop(g, f)
  <2>1. Depth(g) \in 1..Len(stack[g]) BY <1>2, TopIsCall
  <2>2. stack'[g] = [stack[g] EXCEPT ![Depth(g)] = f] BY <1>2 DEF SetTop, TypeOK
  <2>3. Len(stack'[g]) = Len(stack[g]) /\ stack'[g][Depth(g)] = f
    BY <1>1, <2>1, <2>2
  <2>4. QED BY <1>1, <2>1, <2>3, ElementOfSeq
<1>3. CASE Push(g, f)
  <2>1. stack'[g] = Append(stack[g], f) BY <1>3 DEF Push, TypeOK
  <2>2. Len(stack'[g]) = Len(stack[g]) + 1 /\ stack'[g][Len(stack[g]) + 1] = f
    BY <1>1, <2>1
  <2>3. Len(stack[g]) \in Nat BY <1>1, LenProperties
  <2>4. QED BY <1>1, <2>2, <2>3, ElementOfSeq
<1>4. QED BY <1>2, <1>3

(* The innermost call goes on. *)
LEMMA WorkNests ==
  ASSUME TypeOK, TypeOK', NestInv, NEW g \in Goroutines,
         Work(g) \/ \E t \in Types : Transform(g, t)
  PROVE  NestInv'
<1>1. ASSUME Active(g) PROVE Placed(Top(g)) /\ Top(g) \in Calls
  BY <1>1, TopIsCall DEF NestInv
<1>2. ASSUME NEW f, Active(g), SetTop(g, f), Placed(f) PROVE NestInv'
  BY <1>2, NewTopIsCall, SetTopNests
<1>3. CASE Announce(g)
  <2> DEFINE f == [Top(g) EXCEPT !.at = "pending"]
  <2>1. Active(g) /\ Top(g).at = "want" /\ SetTop(g, f) BY <1>3 DEF Announce, At
  <2>2. Placed(f) BY <1>1, <2>1 DEF Placed, Calls
  <2>3. QED BY <1>2, <2>1, <2>2
<1>4. CASE Register(g) \/ On(g) \/ SetAuth(g)
  BY <1>4, WrittenNests DEF Register, On, SetAuth
<1>5. CASE ReadAuth(g)
  <2> DEFINE f == [Top(g) EXCEPT !.at = "checking"]
  <2>1. Active(g) /\ Top(g).at = "reading" /\ (Pop(g) \/ SetTop(g, f))
    BY <1>5 DEF ReadAuth, At
  <2>2. Placed(f) BY <1>1, <2>1 DEF Placed, Calls
  <2>3. QED BY <1>2, <2>1, <2>2, PopNests
<1>6. CASE Checked(g) \/ EndEmit(g)
  BY <1>6, PopNests DEF Checked, EndEmit, At
<1>7. ASSUME NEW p \in {"plugins", "hooks"}, NEW s, Invoke(g, p, s) PROVE NestInv'
  <2> DEFINE f == [Top(g) EXCEPT !.next = @ + 1, !.running = TRUE,
                                 !.called = Append(@, s[Top(g).next])]
  <2>1. Active(g) /\ Top(g).at = p /\ SetTop(g, f) BY <1>7 DEF Invoke, Calling, At
  <2>2. f.at = p BY <1>1, <2>1 DEF Calls
  <2>3. Placed(f) BY <2>2 DEF Placed
  <2>4. QED BY <1>2, <2>1, <2>3
<1>8. CASE Return(g)
  <2> DEFINE f == [Top(g) EXCEPT !.running = FALSE]
  <2>1. Active(g) /\ SetTop(g, f) BY <1>8 DEF Return
  <2>2. Placed(f) BY <1>1, <2>1 DEF Placed, Calls
  <2>3. QED BY <1>2, <2>1, <2>2
<1>9. CASE StartHooks(g)
  <2> DEFINE f == [Top(g) EXCEPT !.at = "hooks", !.next = 1]
  <2>1. Active(g) /\ SetTop(g, f) BY <1>9 DEF StartHooks, Calling, At
  <2>2. f.at = "hooks" BY <1>1, <2>1 DEF Calls
  <2>3. Placed(f) BY <2>2 DEF Placed
  <2>4. QED BY <1>2, <2>1, <2>3
<1>10. ASSUME NEW t \in Types, Transform(g, t) PROVE NestInv'
  <2> DEFINE f == [Top(g) EXCEPT !.type = t]
  <2>1. Active(g) /\ SetTop(g, f) BY <1>10 DEF Transform, At
  <2>2. Placed(f) BY <1>1, <2>1 DEF Placed, Calls
  <2>3. QED BY <1>2, <2>1, <2>2
<1>11. QED
  BY <1>3, <1>4, <1>5, <1>6, <1>7, <1>8, <1>9, <1>10 DEF Work, OnEvent, RunHook

(* NestInv is an invariant of the manager. *)
LEMMA NestInvariant == Spec => []NestInv
<1>1. ASSUME TypeOK, TypeOK', NestInv, [Next]_vars PROVE NestInv'
  <2>1. ASSUME NEW g \in Goroutines, Caller(g) PROVE NestInv'
    <3>1. PICK op \in Reads \cup Writes, t \in Types, h \in Handlers, p \in Places :
            /\ Call(g, op, t, h, p)
            /\ op = "emit" => p \in {"blocked", "plugins"}
      BY <2>1 DEF Caller, CallReader, Entry, Places, Reads, Writes
    <3> DEFINE f == [op |-> op, type |-> t, handler |-> h, at |-> p, next |-> 1,
                     running |-> FALSE, called |-> <<>>,
                     known |-> [u \in Types |-> Audience(u)]]
    <3>2. MayCall(g) /\ Push(g, f) BY <3>1 DEF Call
    <3>3. Placed(f) BY <3>1 DEF Placed
    <3> HIDE DEF f
    <3>4. QED BY <1>1, <3>2, <3>3, NewTopIsCall, PushNests
  <2>2. CASE UNCHANGED vars
    BY <1>1, <2>2 DEF NestInv, AllFrames, Frames, Depth, Placed, Busy, vars
  <2>3. QED BY <1>1, <2>1, <2>2, WorkNests DEF Next
<1>2. QED BY InitNest, <1>1, TypeCorrect, PTL DEF Spec

(* A handler of an Emit that calls the manager and has to wait, for a writer  *)
(* or because it is one, waits forever: the Emit keeps its read lock until    *)
(* the handler returns.                                                       *)
THEOREM DeadlockIsFinal == Spec => [][CalledBack => CalledBack']_vars
<1>1. ASSUME TypeOK, NestInv, CalledBack, Next PROVE CalledBack'
  <2>1. PICK g \in Goroutines :
          /\ Active(g) /\ Top(g).at \in Waiting
          /\ \E i \in 1..Depth(g) - 1 : stack[g][i].op = "emit"
    BY <1>1 DEF CalledBack
  <2>2. PICK i \in 1..Depth(g) - 1 : stack[g][i].op = "emit" BY <2>1
  <2>3. Depth(g) \in Nat /\ i \in 1..Len(stack[g]) /\ i < Len(stack[g])
    BY <1>1, <2>1, <2>2, TopIsCall DEF Depth
  <2>4. Placed(stack[g][i]) /\ Busy(stack[g][i])
    BY <1>1, <2>3, FrameOfGoroutine DEF NestInv
  <2>5. Reading(stack[g][i]) BY <2>2, <2>4 DEF Placed, Busy, Reading
  <2>6. ~NoReaders BY <2>3, <2>5, FrameOfGoroutine DEF NoReaders
  <2>7. Placed(Top(g)) /\ Top(g) \in Calls BY <1>1, <2>1, TopIsCall DEF NestInv
  <2>8. ~MayCall(g) BY <2>1, <2>7 DEF MayCall, Placed, Waiting
  <2>9. ASSUME stack'[g] = stack[g] PROVE CalledBack'
    BY <2>1, <2>9 DEF CalledBack, Active, Top, Depth
  <2>10. ASSUME NEW k \in Goroutines, k # g, NEW f,
                SetTop(k, f) \/ Push(k, f) \/ Pop(k)
         PROVE  stack'[g] = stack[g]
    BY <1>1, <2>10 DEF SetTop, Push, Pop, TypeOK
  <2>11. ASSUME NEW k \in Goroutines, k # g,
                Caller(k) \/ Work(k) \/ \E t \in Types : Transform(k, t)
         PROVE  \E f : SetTop(k, f) \/ Push(k, f) \/ Pop(k)
    BY <2>6, <2>11 DEF Caller, CallReader, Call, Work, Announce, Register, On, SetAuth,
       Written, ReadAuth, Checked, OnEvent, RunHook, Invoke, Return, StartHooks, EndEmit,
       Transform
  <2>12. ASSUME Caller(g) \/ Work(g) \/ \E t \in Types : Transform(g, t)
         PROVE  Announce(g)
    BY <2>1, <2>6, <2>7, <2>8, <2>12 DEF Caller, CallReader, Call, Work, Register, On,
       SetAuth, Written, ReadAuth, Checked, OnEvent, RunHook, Invoke, Calling, Return,
       StartHooks, EndEmit, Emitted, Transform, At, Waiting, Placed
  <2>13. CASE Announce(g)
    <3> DEFINE f == [Top(g) EXCEPT !.at = "pending"]
    <3>1. SetTop(g, f) /\ f.at = "pending" BY <2>7, <2>13 DEF Announce, Calls
    <3> HIDE DEF f
    <3>2. stack'[g] = [stack[g] EXCEPT ![Depth(g)] = f]
      BY <1>1, <3>1 DEF SetTop, TypeOK
    <3>3. stack[g] \in Seq(Calls) /\ Depth(g) = Len(stack[g])
      BY <1>1 DEF TypeOK, Depth
    <3>4. /\ Len(stack'[g]) = Len(stack[g]) /\ stack'[g][Len(stack[g])] = f
          /\ stack'[g][i] = stack[g][i]
      BY <2>3, <3>2, <3>3
    <3>5. Depth(g)' = Depth(g) /\ Top(g)' = f /\ Active(g)'
      BY <2>3, <3>3, <3>4, EmptySeq DEF Depth, Top, Active
    <3>6. QED BY <2>2, <3>1, <3>4, <3>5 DEF CalledBack, Waiting
  <2>14. QED BY <1>1, <2>9, <2>10, <2>11, <2>12, <2>13 DEF Next
<1>2. CalledBack /\ UNCHANGED vars => CalledBack'
  BY DEF CalledBack, Active, Top, Depth, vars
<1>3. TypeOK /\ NestInv /\ [Next]_vars => [CalledBack => CalledBack']_vars
  BY <1>1, <1>2
<1>4. QED BY <1>3, NestInvariant, TypeCorrect, PTL DEF Spec

--------------------------------------------------------------------------------
(* Nothing but such a call back deadlocks: the safety half of CallsReturn.    *)

(* Only an Emit walks along the lists, and only the writers want the lock. *)
Walks(f) ==
  /\ f.at \in {"plugins", "hooks"} => f.op = "emit"
  /\ f.at \in {"want", "pending"} => f.op \in Writes

(* A reader is held up only while a writer waits. *)
BlockInv ==
  /\ \A f \in AllFrames : Walks(f)
  /\ (\E f \in AllFrames : f.at = "blocked") => WriterWaits

(* The writer that waits is the innermost call of its goroutine. *)
LEMMA PendingIsTop ==
  TypeOK /\ NestInv => (WriterWaits <=> \E g \in Goroutines : At(g, "pending"))
<1> SUFFICES ASSUME TypeOK, NestInv
             PROVE  WriterWaits <=> \E g \in Goroutines : At(g, "pending")
  OBVIOUS
<1>1. ASSUME NEW g \in Goroutines, At(g, "pending") PROVE WriterWaits
  BY <1>1, TopIsCall DEF At, WriterWaits
<1>2. ASSUME WriterWaits PROVE \E g \in Goroutines : At(g, "pending")
  <2>1. PICK f \in AllFrames : f.at = "pending" BY <1>2 DEF WriterWaits
  <2>2. PICK g \in Goroutines : \E i \in 1..Len(stack[g]) : f = stack[g][i]
    BY FrameOfGoroutine
  <2>3. PICK i \in 1..Len(stack[g]) : f = stack[g][i] BY <2>2
  <2>4. Len(stack[g]) \in Nat BY LenProperties DEF TypeOK
  <2>5. ~(i < Len(stack[g])) BY <2>1, <2>3 DEF NestInv, Busy, Placed
  <2>6. i = Len(stack[g]) /\ Active(g) BY <2>3, <2>4, <2>5, EmptySeq DEF Active
  <2>7. QED BY <2>1, <2>3, <2>6 DEF At, Top, Depth
<1>3. QED BY <1>1, <1>2

(* So it does after a step. *)
LEMMA PendingWaits ==
  TypeOK' /\ NestInv' /\ (\E g \in Goroutines : At(g, "pending"))' => WriterWaits'
<1>1. (TypeOK /\ NestInv => (WriterWaits <=> \E g \in Goroutines : At(g, "pending")))'
  BY PendingIsTop, PTL
<1>2. QED BY <1>1

(* A step of one goroutine, other than that of the writer that waits. *)
LEMMA MoveBlocks ==
  ASSUME TypeOK, TypeOK', NestInv, NestInv', BlockInv,
         NEW g \in Goroutines, ~At(g, "pending"), NEW f,
         (Active(g) /\ SetTop(g, f)) \/ Push(g, f) \/ (Active(g) /\ Pop(g) /\ f = Top(g)),
         Walks(f), f.at = "blocked" => WriterWaits
  PROVE  BlockInv'
<1>1. AllFrames' \subseteq AllFrames \cup {f}
  BY NewTopIsCall, SetTopFrames, PushFrames, PopFrames
<1>2. \A e \in AllFrames' : Walks(e) BY <1>1 DEF BlockInv
<1>3. ASSUME WriterWaits PROVE WriterWaits'
  <2>1. PICK k \in Goroutines : At(k, "pending") BY <1>3, PendingIsTop
  <2>2. stack'[k] = stack[k] BY <2>1 DEF SetTop, Push, Pop, TypeOK
  <2>3. At(k, "pending")' BY <2>1, <2>2 DEF At, Active, Top, Depth
  <2>4. QED BY <2>3, PendingWaits
<1>4. (\E e \in AllFrames' : e.at = "blocked") => WriterWaits BY <1>1 DEF BlockInv
<1>5. QED BY <1>2, <1>3, <1>4 DEF BlockInv, Walks

(* Unlock lets every reader in. *)
LEMMA WrittenBlocks ==
  ASSUME TypeOK, NestInv, BlockInv, NEW g \in Goroutines, Written(g)
  PROVE  BlockInv'
<1>1. \A k \in Goroutines : \A i \in 1..Len(stack[k]) : stack[k][i] \in Calls
  BY ElementOfSeq DEF TypeOK
<1>2. \A e \in AllFrames : e \in Calls /\ Walks(e) BY <1>1, FrameOfGoroutine DEF BlockInv
<1>3. \A e \in Calls : Walks(e) => Walks(Admit(e)) /\ Admit(e).at # "blocked"
  BY DEF Walks, Admit, Entry, Calls, Writes
<1>4. \A f \in AllFrames' : Walks(f) /\ f.at # "blocked"
  BY <1>2, <1>3, WrittenFrames
<1>5. QED BY <1>4 DEF BlockInv, Walks

(* The innermost call goes on. *)
LEMMA WorkBlocks ==
  ASSUME TypeOK, TypeOK', NestInv, NestInv', BlockInv, NEW g \in Goroutines,
         Work(g) \/ \E t \in Types : Transform(g, t)
  PROVE  BlockInv'
<1>1. ASSUME Active(g)
      PROVE  /\ Top(g) \in Calls /\ Placed(Top(g)) /\ Walks(Top(g))
             /\ Top(g).at = "blocked" => WriterWaits
  BY <1>1, TopIsCall DEF NestInv, BlockInv
<1>2. ASSUME NEW f, Active(g), SetTop(g, f), ~At(g, "pending"), Walks(f),
             f.at # "blocked" \/ f.at = Top(g).at
      PROVE  BlockInv'
  BY <1>1, <1>2, MoveBlocks
<1>3. CASE Announce(g)
  <2> DEFINE f == [Top(g) EXCEPT !.at = "pending"]
  <2>1. Active(g) /\ Top(g).at = "want" /\ SetTop(g, f) BY <1>3 DEF Announce, At
  <2>2. Walks(f) /\ f.at = "pending" BY <1>1, <2>1 DEF Walks, Calls
  <2>3. ~At(g, "pending") BY <2>1 DEF At
  <2> HIDE DEF f
  <2>4. QED BY <1>2, <2>1, <2>2, <2>3
<1>4. CASE Register(g) \/ On(g) \/ SetAuth(g)
  BY <1>4, WrittenBlocks DEF Register, On, SetAuth
<1>5. ASSUME Active(g), Pop(g), ~At(g, "pending") PROVE BlockInv'
  BY <1>1, <1>5, MoveBlocks
<1>6. CASE ReadAuth(g)
  <2> DEFINE f == [Top(g) EXCEPT !.at = "checking"]
  <2>1. Active(g) /\ Top(g).at = "reading" /\ (Pop(g) \/ SetTop(g, f))
    BY <1>6 DEF ReadAuth, At
  <2>2. Walks(f) /\ f.at = "checking" BY <1>1, <2>1 DEF Walks, Calls
  <2>3. ~At(g, "pending") BY <2>1 DEF At
  <2> HIDE DEF f
  <2>4. QED BY <1>2, <1>5, <2>1, <2>2, <2>3
<1>7. CASE Checked(g) \/ EndEmit(g)
  BY <1>7, <1>5 DEF Checked, EndEmit, Emitted, At
<1>8. ASSUME NEW p \in {"plugins", "hooks"}, NEW s, Invoke(g, p, s) PROVE BlockInv'
  <2> DEFINE f == [Top(g) EXCEPT !.next = @ + 1, !.running = TRUE,
                                 !.called = Append(@, s[Top(g).next])]
  <2>1. Active(g) /\ Top(g).at = p /\ SetTop(g, f) BY <1>8 DEF Invoke, Calling, At
  <2>2. f.at = p /\ f.op = Top(g).op BY <1>1, <2>1 DEF Calls
  <2>3. Walks(f) /\ ~At(g, "pending") BY <1>1, <2>1, <2>2 DEF Walks, At
  <2> HIDE DEF f
  <2>4. QED BY <1>2, <2>1, <2>2, <2>3
<1>9. CASE Return(g)
  <2> DEFINE f == [Top(g) EXCEPT !.running = FALSE]
  <2>1. Active(g) /\ Top(g).running /\ SetTop(g, f) BY <1>9 DEF Return
  <2>2. f.at = Top(g).at /\ f.op = Top(g).op BY <1>1, <2>1 DEF Calls
  <2>3. Walks(f) /\ ~At(g, "pending") BY <1>1, <2>1, <2>2 DEF Walks, At, Placed
  <2> HIDE DEF f
  <2>4. QED BY <1>2, <2>1, <2>2, <2>3
<1>10. CASE StartHooks(g)
  <2> DEFINE f == [Top(g) EXCEPT !.at = "hooks", !.next = 1]
  <2>1. Active(g) /\ Top(g).at = "plugins" /\ SetTop(g, f)
    BY <1>10 DEF StartHooks, Calling, At
  <2>2. f.at = "hooks" /\ f.op = Top(g).op BY <1>1, <2>1 DEF Calls
  <2>3. Walks(f) /\ ~At(g, "pending") BY <1>1, <2>1, <2>2 DEF Walks, At
  <2> HIDE DEF f
  <2>4. QED BY <1>2, <2>1, <2>2, <2>3
<1>11. ASSUME NEW t \in Types, Transform(g, t) PROVE BlockInv'
  <2> DEFINE f == [Top(g) EXCEPT !.type = t]
  <2>1. Active(g) /\ Top(g).at = "plugins" /\ SetTop(g, f) BY <1>11 DEF Transform, At
  <2>2. f.at = "plugins" /\ f.op = Top(g).op BY <1>1, <2>1 DEF Calls
  <2>3. Walks(f) /\ ~At(g, "pending") BY <1>1, <2>1, <2>2 DEF Walks, At
  <2> HIDE DEF f
  <2>4. QED BY <1>2, <2>1, <2>2, <2>3
<1>12. QED
  BY <1>3, <1>4, <1>6, <1>7, <1>8, <1>9, <1>10, <1>11 DEF Work, OnEvent, RunHook

(* BlockInv is an invariant of the manager. *)
LEMMA BlockInvariant == Spec => []BlockInv
<1>1. ASSUME Init PROVE BlockInv
  <2>1. \A g \in Goroutines : Len(stack[g]) = 0 BY <1>1, EmptySeq DEF Init
  <2>2. QED BY <2>1, FrameOfGoroutine DEF BlockInv
<1>2. ASSUME TypeOK, TypeOK', NestInv, NestInv', BlockInv, [Next]_vars PROVE BlockInv'
  <2>1. ASSUME NEW g \in Goroutines, Caller(g) PROVE BlockInv'
    <3>1. PICK op \in Reads \cup Writes, t \in Types, h \in Handlers, p \in Places :
            /\ Call(g, op, t, h, p)
            /\ p \in {"plugins", "hooks"} => op = "emit"
            /\ p \in {"want", "pending"} => op \in Writes
            /\ p = "blocked" => WriterWaits
      BY <2>1 DEF Caller, CallReader, Entry, Places, Reads, Writes
    <3> DEFINE f == [op |-> op, type |-> t, handler |-> h, at |-> p, next |-> 1,
                     running |-> FALSE, called |-> <<>>,
                     known |-> [u \in Types |-> Audience(u)]]
    <3>2. MayCall(g) /\ Push(g, f) BY <3>1 DEF Call
    <3>3. Walks(f) /\ f.at = p BY <3>1 DEF Walks
    <3> HIDE DEF f
    <3>4. ~At(g, "pending")
      <4>1. Active(g) => Placed(Top(g)) BY <1>2, TopIsCall DEF NestInv
      <4>2. QED BY <3>2, <4>1 DEF MayCall, At, Placed
    <3>5. QED BY <1>2, <3>1, <3>2, <3>3, <3>4, MoveBlocks
  <2>2. CASE UNCHANGED vars
    BY <1>2, <2>2 DEF BlockInv, AllFrames, Frames, Depth, Walks, WriterWaits, vars
  <2>3. QED BY <1>2, <2>1, <2>2, WorkBlocks DEF Next
<1>3. QED BY <1>1, <1>2, TypeCorrect, NestInvariant, PTL DEF Spec

(* A loop of Emit stands before a handler to call, or is through. *)
Stands(g, p, s) ==
  Calling(g, p) /\ (Top(g).next \in 1..Len(s) \/ Top(g).next > Len(s))

(* What a call waits for: the guards of its next step. *)
CanWork(g) ==
  \/ At(g, "want") /\ ~WriterWaits
  \/ At(g, "pending") /\ NoReaders /\ Top(g).op \in Writes
  \/ At(g, "reading") \/ At(g, "checking")
  \/ Active(g) /\ Top(g).running
  \/ Stands(g, "plugins", plugins)
  \/ At(g, "hooks") /\ Stands(g, "hooks", hooks[Top(g).type])

NoOtherDeadlock ==
  (\E g \in Goroutines : Active(g)) /\ ~CalledBack => \E g \in Goroutines : CanWork(g)

(* A call that does not wait for the lock can go on. *)
LEMMA UnheldWorks ==
  ASSUME BusInv, NestInv, NEW g \in Goroutines, Active(g), Top(g).at \notin Waiting
  PROVE  CanWork(g)
<1>1. Top(g) \in Calls /\ Top(g) \in AllFrames BY TopIsCall DEF BusInv
<1>2. Come(Top(g)) /\ Top(g).at \in Places /\ Top(g).next \in Nat
  BY <1>1 DEF BusInv, Calls
<1>3. CASE Top(g).running BY <1>3 DEF CanWork
<1>4. CASE Top(g).at = "plugins" /\ ~Top(g).running
  <2>1. Top(g).next \in 1..Len(plugins) + 1 BY <1>2, <1>4 DEF Come, InPlugins
  <2>2. Len(plugins) \in Nat BY LenProperties DEF BusInv, TypeOK
  <2>3. Stands(g, "plugins", plugins) BY <1>4, <2>1, <2>2 DEF Stands, Calling, At
  <2>4. QED BY <2>3 DEF CanWork
<1>5. CASE Top(g).at = "hooks" /\ ~Top(g).running
  <2> DEFINE s == hooks[Top(g).type]
  <2>1. Top(g).next \in 1..Len(s) + 1 BY <1>2, <1>5 DEF Come, InHooks
  <2>2. s \in Seq(Handlers) BY <1>1 DEF BusInv, TypeOK, Calls
  <2>3. Len(s) \in Nat BY <2>2, LenProperties
  <2> HIDE DEF s
  <2>4. Stands(g, "hooks", s) BY <1>5, <2>1, <2>3 DEF Stands, Calling, At
  <2>5. QED BY <1>5, <2>4 DEF CanWork, At, s
<1>6. CASE Top(g).at \in {"reading", "checking"} BY <1>6 DEF CanWork, At
<1>7. QED BY <1>2, <1>3, <1>4, <1>5, <1>6 DEF Places, Waiting

(* As long as no handler has called back into a lock it cannot get, the       *)
(* manager is not stuck: of the calls under way, in any number of goroutines, *)
(* one can go on.                                                             *)
THEOREM OnlyCallbacksDeadlock == Spec => []NoOtherDeadlock
<1>1. BusInv /\ NestInv /\ BlockInv => NoOtherDeadlock
  <2> SUFFICES ASSUME BusInv, NestInv, BlockInv, NEW g \in Goroutines, Active(g),
                      ~CalledBack
               PROVE  \E k \in Goroutines : CanWork(k)
    BY DEF NoOtherDeadlock
  <2>1. TypeOK BY DEF BusInv
  <2>2. CASE WriterWaits
    <3>1. PICK k \in Goroutines : At(k, "pending") BY <2>1, <2>2, PendingIsTop
    <3>2. CASE NoReaders
      <4>1. Walks(Top(k)) BY <2>1, <3>1, TopIsCall DEF At, BlockInv
      <4>2. QED BY <3>1, <3>2, <4>1 DEF CanWork, At, Walks
    <3>3. CASE ~NoReaders
      <4>1. PICK f \in AllFrames : Reading(f) BY <3>3 DEF NoReaders
      <4>2. PICK j \in Goroutines : \E i \in 1..Len(stack[j]) : f = stack[j][i]
        BY FrameOfGoroutine
      <4>3. PICK i \in 1..Len(stack[j]) : f = stack[j][i] BY <4>2
      <4>4. Len(stack[j]) \in Nat BY <2>1, LenProperties DEF TypeOK
      <4>5. Active(j) BY <4>3, <4>4, EmptySeq DEF Active
      <4>6. Top(j).at \notin Waiting
        <5>1. CASE i = Len(stack[j])
          BY <4>1, <4>3, <5>1 DEF Top, Depth, Reading, Waiting
        <5>2. CASE i < Len(stack[j])
          <6>1. Placed(f) /\ Walks(f) BY DEF NestInv, BlockInv
          <6>2. Busy(f) BY <4>3, <5>2 DEF NestInv
          <6>3. f.op = "emit"
            BY <4>1, <6>1, <6>2 DEF Busy, Placed, Walks, Reading
          <6>4. i \in 1..Depth(j) - 1 BY <4>4, <5>2 DEF Depth
          <6>5. QED BY <4>3, <4>5, <6>3, <6>4 DEF CalledBack
        <5>3. QED BY <4>3, <4>4, <5>1, <5>2
      <4>7. QED BY <4>5, <4>6, UnheldWorks
    <3>4. QED BY <3>2, <3>3
  <2>3. CASE ~WriterWaits
    <3>1. CASE Top(g).at = "want" BY <2>3, <3>1 DEF CanWork, At
    <3>2. CASE Top(g).at # "want"
      <4>1. Top(g) \in AllFrames BY <2>1, TopIsCall
      <4>2. Top(g).at \notin Waiting
        BY <2>3, <3>2, <4>1 DEF BlockInv, WriterWaits, Waiting
      <4>3. QED BY <4>2, UnheldWorks
    <3>3. QED BY <3>1, <3>2
  <2>4. QED BY <2>2, <2>3
<1>2. QED BY <1>1, BusInvariant, NestInvariant, BlockInvariant, PTL

================================================================================
