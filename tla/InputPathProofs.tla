--------------------------- MODULE InputPathProofs ---------------------------
(***************************************************************************)
(* Proofs about InputPath, for any slots, keys, modifiers and channels:    *)
(* its types; that the coalescing buffer keeps one entry per identity, no  *)
(* lift behind the press it ends; and, from that, that what the compositor *)
(* will hold of every finger, button, gamepad and key is what the client   *)
(* has said and the trackers count on, and that motion is neither lost nor *)
(* doubled.                                                                *)
(*                                                                         *)
(* The order of the buffer is what bounds it by the identities of the      *)
(* devices rather than by what a client sends, and what makes a drain      *)
(* replay down, release, down in that order.  The three conservation       *)
(* theorems rest on lemmas about After and Total of a concatenation, a     *)
(* split, a removal and a change in place, the pieces every step of the    *)
(* pipeline is made of.                                                    *)
(***************************************************************************)
EXTENDS InputPath, FiniteSetTheorems, SequenceTheorems, WellFoundedInduction, TLAPS

----------------------------------------------------------------------------
\* The last of finitely many indices exists.
LEMMA HasLast ==
    ASSUME NEW n \in Nat, NEW S \in SUBSET (1..n), S # {}
    PROVE  \E i \in S : \A j \in S : j <= i
<1> DEFINE T == {n - i : i \in S}
           R == OpToRel(<, Nat)
<1>1. T \subseteq Nat
    <2>1. \A i \in S : n - i \in Nat
        OBVIOUS
    <2> QED BY <2>1
<1>2. T # {}
    <2>1. PICK i \in S : TRUE
        OBVIOUS
    <2>2. n - i \in T
        BY <2>1
    <2> QED BY <2>2
<1>3. IsWellFoundedOn(R, Nat)
    BY NatLessThanWellFounded
<1>4. \E x \in T : \A y \in T : <<y, x>> \notin R
    <2> HIDE DEF T, R
    <2> QED BY <1>1, <1>2, <1>3, WFMin
<1>5. PICK x \in T : \A y \in T : <<y, x>> \notin R
    BY <1>4
<1>6. \A y \in T : ~(y < x)
    BY <1>5, <1>1 DEF OpToRel
<1>7. PICK i \in S : x = n - i
    BY <1>5
<1>8. \A j \in S : j <= i
    <2> TAKE j \in S
    <2>1. n - j \in T
        OBVIOUS
    <2>2. ~(n - j < n - i)
        BY <2>1, <1>6, <1>7
    <2>3. i \in Int /\ j \in Int
        OBVIOUS
    <2> QED BY <2>2, <2>3
<1> QED BY <1>8

LEMMA FunctionIsSeq ==
    ASSUME NEW S, NEW n \in Nat, NEW f \in [1..n -> S]
    PROVE  f \in Seq(S) /\ Len(f) = n
<1>1. f \in Seq(S)
    BY SeqDef
<1> QED BY <1>1, LenProperties

\* SetToSeq enumerates a finite set.
LEMMA SetToSeqType ==
    ASSUME NEW S, IsFiniteSet(S)
    PROVE  /\ Cardinality(S) \in Nat
           /\ SetToSeq(S) \in [1..Cardinality(S) -> S]
           /\ Len(SetToSeq(S)) = Cardinality(S)
<1>1. Cardinality(S) \in Nat /\ ExistsBijection(1..Cardinality(S), S)
    BY FS_CardinalityType
<1>2. \E f \in [1..Cardinality(S) -> S] : IsInjective(f)
    BY <1>1 DEF ExistsBijection, Bijection, Injection, IsInjective
<1>3. SetToSeq(S) \in [1..Cardinality(S) -> S]
    BY <1>2 DEF SetToSeq
<1> QED BY <1>1, <1>3, LenProperties

LEMMA RemoveAtType ==
    ASSUME NEW S, NEW s \in Seq(S), NEW r \in 1..Len(s)
    PROVE  /\ RemoveAt(s, r) \in Seq(S)
           /\ Len(RemoveAt(s, r)) = Len(s) - 1
           /\ \A j \in 1..Len(s) - 1 : RemoveAt(s, r)[j] = IF j < r THEN s[j] ELSE s[j + 1]
<1> DEFINE a == SubSeq(s, 1, r - 1)
           b == SubSeq(s, r + 1, Len(s))
<1>1. \A i \in 1..Len(s) : s[i] \in S
    OBVIOUS
<1>2. Len(s) \in Nat /\ r - 1 \in Int /\ r + 1 \in Int /\ Len(s) \in Int
    OBVIOUS
<1>3. /\ a \in Seq(S) /\ Len(a) = r - 1
      /\ \A j \in 1..r - 1 : a[j] = s[j]
    <2>1. \A i \in 1..r - 1 : s[i] \in S
        BY <1>1
    <2> QED BY <2>1, <1>2, SubSeqProperties
<1>4. /\ b \in Seq(S) /\ Len(b) = Len(s) - r
      /\ \A j \in 1..Len(s) - r : b[j] = s[r + j]
    <2>1. \A i \in r + 1..Len(s) : s[i] \in S
        BY <1>1
    <2> QED BY <2>1, <1>2, SubSeqProperties
<1>5. RemoveAt(s, r) = a \o b
    BY DEF RemoveAt
<1> HIDE DEF a, b
<1>6. /\ a \o b \in Seq(S) /\ Len(a \o b) = Len(a) + Len(b)
      /\ \A j \in 1..Len(a) + Len(b) :
            (a \o b)[j] = IF j <= Len(a) THEN a[j] ELSE b[j - Len(a)]
    BY <1>3, <1>4, ConcatProperties
<1>7. /\ RemoveAt(s, r) \in Seq(S) /\ Len(RemoveAt(s, r)) = Len(s) - 1
    BY <1>2, <1>3, <1>4, <1>5, <1>6
<1>8. ASSUME NEW j \in 1..Len(s) - 1
      PROVE  RemoveAt(s, r)[j] = IF j < r THEN s[j] ELSE s[j + 1]
    <2>1. RemoveAt(s, r)[j] = IF j <= r - 1 THEN a[j] ELSE b[j - (r - 1)]
        BY <1>2, <1>3, <1>4, <1>5, <1>6
    <2>2. CASE j < r
        BY <2>1, <2>2, <1>2, <1>3
    <2>3. CASE ~(j < r)
        <3>1. /\ j - (r - 1) \in 1..Len(s) - r
              /\ r + (j - (r - 1)) = j + 1
              /\ ~(j <= r - 1)
            BY <2>3, <1>2
        <3> QED BY <2>1, <2>3, <3>1, <1>4
    <2> QED BY <2>2, <2>3
<1> QED BY <1>7, <1>8

----------------------------------------------------------------------------
\* The coalescing buffer.
Ordered(buf) ==
    \A i, j \in DOMAIN buf : i < j =>
        /\ InputKey(buf[i]) # InputKey(buf[j])
        /\ InputKey(buf[i]) \notin Terminates(buf[j])

LEMMA MergeType ==
    ASSUME NEW x \in Datagram, NEW d \in Datagram, InputKey(x) = InputKey(d)
    PROVE  Merge(x, d) \in Datagram /\ InputKey(Merge(x, d)) = InputKey(x)
           /\ Terminates(Merge(x, d)) = Terminates(x)
<1>1. x.kind = d.kind /\ x.id = d.id
    BY DEF InputKey
<1>2. CASE x.kind \in Axis
    <2>1. /\ x = Motion(x.id, x.val) /\ x.id \in Axis /\ x.val \in Int
          /\ d.val \in Int
        BY <1>1, <1>2 DEF Datagram, Axis, Motion, Touch, TouchRelease, PadState, PadGone,
                          MouseButton, Keyboard
    <2>2. Merge(x, d) = Motion(x.id, Saturate(x.val + d.val))
        BY <1>2, <2>1 DEF Merge, Motion
    <2>3. Saturate(x.val + d.val) \in -MaxDelta..MaxDelta
        BY <2>1, CapAssumption DEF Saturate
    <2>4. Merge(x, d) \in Datagram
        BY <2>1, <2>2, <2>3 DEF Datagram
    <2>5. Merge(x, d).kind = x.kind /\ Merge(x, d).id = x.id
        BY <2>1, <2>2 DEF Motion
    <2> QED BY <2>4, <2>5 DEF InputKey, Terminates
<1>3. CASE x.kind \notin Axis
    BY <1>1, <1>3 DEF Merge, InputKey, Terminates
<1> QED BY <1>2, <1>3

LEMMA TerminatesOne ==
    ASSUME NEW d, NEW k \in Terminates(d)
    PROVE  Terminates(d) = {k}
BY DEF Terminates

\* Removing the entry an identity has.
LEMMA WithoutOrdered ==
    ASSUME NEW buf \in Seq(Datagram), Ordered(buf), NEW d \in Datagram
    PROVE  LET kept == Without(buf, Terminates(d))
           IN  /\ kept \in Seq(Datagram) /\ Ordered(kept)
               /\ \A i \in DOMAIN kept : InputKey(kept[i]) \notin Terminates(d)
<1> DEFINE there == {i \in DOMAIN buf : InputKey(buf[i]) \in Terminates(d)}
           kept == Without(buf, Terminates(d))
<1>1. CASE there = {}
    BY <1>1 DEF Without
<1>2. CASE there # {}
    <2> DEFINE r == CHOOSE i \in there : TRUE
    <2>1. r \in there
        BY <1>2
    <2>2. kept = RemoveAt(buf, r)
        BY <1>2 DEF Without
    <2> HIDE DEF r
    <2>3. r \in 1..Len(buf) /\ DOMAIN buf = 1..Len(buf)
        BY <2>1, LenProperties, SMTT(40)
    <2>4. /\ kept \in Seq(Datagram)
          /\ Len(kept) = Len(buf) - 1
          /\ \A j \in 1..Len(buf) - 1 : kept[j] = IF j < r THEN buf[j] ELSE buf[j + 1]
        BY <2>2, <2>3, RemoveAtType, Zenon
    <2>5. \A i \in there : i = r
        <3> TAKE i \in there
        <3>1. InputKey(buf[i]) = InputKey(buf[r])
            BY <2>1, TerminatesOne
        <3> QED BY <3>1, <2>1, <2>3 DEF Ordered
    <2>6. DOMAIN kept = 1..Len(buf) - 1
        BY <2>4, LenProperties
    <2> DEFINE at(j) == IF j < r THEN j ELSE j + 1
    <2>7. \A j \in DOMAIN kept :
            at(j) \in DOMAIN buf /\ at(j) # r /\ kept[j] = buf[at(j)]
        BY <2>3, <2>4, <2>6
    <2>8. \A i, j \in DOMAIN kept : i < j => at(i) < at(j)
        BY <2>3, <2>6
    <2>9. Ordered(kept)
        <3> HIDE DEF at, kept
        <3> QED BY <2>7, <2>8 DEF Ordered
    <2>10. \A i \in DOMAIN kept : InputKey(kept[i]) \notin Terminates(d)
        <3> HIDE DEF at, kept
        <3> QED BY <2>5, <2>7
    <2> HIDE DEF there
    <2> QED BY <2>4, <2>9, <2>10
<1> QED BY <1>1, <1>2

LEMMA PushOrdered ==
    ASSUME NEW buf \in Seq(Datagram), Ordered(buf), NEW d \in Datagram
    PROVE  Push(buf, d) \in Seq(Datagram) /\ Ordered(Push(buf, d))
<1> DEFINE kept == Without(buf, Terminates(d))
           there == At(kept, InputKey(d))
<1>1. /\ kept \in Seq(Datagram) /\ Ordered(kept)
      /\ \A i \in DOMAIN kept : InputKey(kept[i]) \notin Terminates(d)
    BY WithoutOrdered
<1>2. Push(buf, d) = IF there = {} THEN Append(kept, d)
                     ELSE [i \in DOMAIN kept |-> IF i \in there THEN Merge(kept[i], d) ELSE kept[i]]
    BY DEF Push
<1> HIDE DEF kept
<1>3. CASE there = {}
    <2>1. /\ Append(kept, d) \in Seq(Datagram)
          /\ DOMAIN Append(kept, d) = 1..Len(kept) + 1
          /\ \A i \in 1..Len(kept) : Append(kept, d)[i] = kept[i]
          /\ Append(kept, d)[Len(kept) + 1] = d
        BY <1>1, AppendProperties, LenProperties
    <2>2. \A i \in 1..Len(kept) : InputKey(kept[i]) # InputKey(d)
        BY <1>1, <1>3 DEF At
    <2>3. Ordered(Append(kept, d))
        BY <1>1, <2>1, <2>2 DEF Ordered
    <2> QED BY <1>2, <1>3, <2>1, <2>3
<1>4. CASE there # {}
    <2> DEFINE new == [i \in DOMAIN kept |-> IF i \in there THEN Merge(kept[i], d) ELSE kept[i]]
    <2>1. \A i \in DOMAIN kept :
            /\ new[i] \in Datagram
            /\ InputKey(new[i]) = InputKey(kept[i])
            /\ Terminates(new[i]) = Terminates(kept[i])
        BY <1>1, MergeType DEF At
    <2>2. DOMAIN new = DOMAIN kept /\ DOMAIN kept = 1..Len(kept)
        BY <1>1
    <2> HIDE DEF new
    <2>3. new \in Seq(Datagram)
        <3>1. new \in [1..Len(kept) -> Datagram]
            BY <2>1, <2>2, <1>1 DEF new
        <3> QED BY <3>1, <1>1
    <2>4. Ordered(new)
        BY <1>1, <2>1, <2>2 DEF Ordered
    <2> QED BY <1>2, <1>4, <2>3, <2>4 DEF new
<1> QED BY <1>3, <1>4

----------------------------------------------------------------------------
\* Types.
LEMMA Apart ==
    /\ \A t \in Thing : t \notin Axis
    /\ \A t \in OwnSlot \cup Button \cup Pad : t \notin Key \cup {NoKey} /\ t \notin Axis
<1> DEFINE ids == <<Slot, Pad, Button, Key, {NoKey}, Modifier, Axis>>
<1>1. \A i, j \in 1..7 : i # j => ids[i] \cap ids[j] = {}
    BY IdAssumption
<1>2. \A i \in 1..6 : ids[i] \cap ids[7] = {}
    BY <1>1
<1>3. /\ Slot \cap Axis = {} /\ Pad \cap Axis = {} /\ Button \cap Axis = {}
      /\ Key \cap Axis = {} /\ Modifier \cap Axis = {}
    <2>1. /\ ids[1] \cap ids[7] = {} /\ ids[2] \cap ids[7] = {} /\ ids[3] \cap ids[7] = {}
          /\ ids[4] \cap ids[7] = {} /\ ids[6] \cap ids[7] = {}
        BY <1>2
    <2> QED BY <2>1
<1>4. /\ Slot \cap Key = {} /\ Pad \cap Key = {} /\ Button \cap Key = {}
      /\ Slot \cap {NoKey} = {} /\ Pad \cap {NoKey} = {} /\ Button \cap {NoKey} = {}
    <2>1. /\ ids[1] \cap ids[4] = {} /\ ids[2] \cap ids[4] = {} /\ ids[3] \cap ids[4] = {}
          /\ ids[1] \cap ids[5] = {} /\ ids[2] \cap ids[5] = {} /\ ids[3] \cap ids[5] = {}
        BY <1>1
    <2> QED BY <2>1
<1> QED BY <1>3, <1>4, SlotAssumption DEF Thing

\* What a handler may do with the datagram in its hand.
LEMMA DatagramType ==
    ASSUME NEW d \in Datagram
    PROVE  /\ d.kind = "Touchscreen" => d.id \in Slot /\ d.val \in Pos
           /\ d.kind = "TouchscreenRelease" => d.id \in Slot /\ d.val = Idle
           /\ d.kind = "Gamepad" => d.id \in Pad /\ d.val \in Snapshot
           /\ d.kind = "GamepadDisconnect" => d.id \in Pad /\ d.val = Idle
           /\ d.kind = "MouseButton" => d.id \in Button /\ d.val \in {Idle, Pressed}
           /\ d.kind = "Keyboard" => d.id \in Key \cup {NoKey} /\ d.val \subseteq Modifier
           /\ d.kind \in Axis => d.id \in Axis /\ d.val \in -MaxDelta..MaxDelta
           /\ d.id \in OwnSlot \cup Button \cup Pad => d.val \in Held
<1>1. CASE \E s \in Slot, p \in Pos : d = Touch(s, p)
    BY <1>1 DEF Touch, Axis, Held
<1>2. CASE \E s \in Slot : d = TouchRelease(s)
    BY <1>2 DEF TouchRelease, Axis, Held
<1>3. CASE \E g \in Pad, x \in Snapshot : d = PadState(g, x)
    BY <1>3 DEF PadState, Axis, Held
<1>4. CASE \E g \in Pad : d = PadGone(g)
    BY <1>4 DEF PadGone, Axis, Held
<1>5. CASE \E b \in Button, x \in {Idle, Pressed} : d = MouseButton(b, x)
    BY <1>5 DEF MouseButton, Axis, Held
<1>6. CASE \E k \in Key \cup {NoKey}, m \in SUBSET Modifier : d = Keyboard(k, m)
    BY <1>6, Apart DEF Keyboard, Axis
<1>7. CASE \E a \in Axis, n \in -MaxDelta..MaxDelta : d = Motion(a, n)
    BY <1>7, Apart DEF Motion, Axis
<1> QED BY <1>1, <1>2, <1>3, <1>4, <1>5, <1>6, <1>7 DEF Datagram

LEMMA AfterType ==
    ASSUME NEW events \in Seq(EisEvent), NEW t \in Thing, NEW before \in Held
    PROVE  After(events, t, before) \in Held
<1> DEFINE about == {i \in DOMAIN events : events[i].id = t}
           last == CHOOSE i \in about : \A j \in about : j <= i
<1>1. CASE about = {}
    BY <1>1 DEF After
<1>2. CASE about # {}
    <2>1. /\ Len(events) \in Nat /\ DOMAIN events = 1..Len(events)
          /\ \A i \in 1..Len(events) : events[i] \in EisEvent
        OBVIOUS
    <2>2. about \in SUBSET (1..Len(events))
        BY <2>1
    <2>3. \E i \in about : \A j \in about : j <= i
        <3> HIDE DEF about
        <3> QED BY <2>1, <2>2, <1>2, HasLast
    <2>4. last \in about
        <3> HIDE DEF about
        <3> QED BY <2>3
    <2>5. events[last] \in EisEvent /\ events[last].id = t
        <3> HIDE DEF last
        <3> QED BY <2>4, <2>1
    <2>6. After(events, t, before) = events[last].val
        BY <1>2 DEF After
    <2>7. \A e \in EisEvent : e.id = t => e.val \in Held
        BY Apart DEF EisEvent, Event, PressKey, ReleaseKey, Held
    <2> QED BY <2>5, <2>6, <2>7
<1> QED BY <1>1, <1>2

LEMMA SyncParts ==
    ASSUME NEW old \in SUBSET Modifier, NEW new \in SUBSET Modifier
    PROVE  LET up == [i \in 1..Cardinality(old \ new) |-> ReleaseKey(SetToSeq(old \ new)[i])]
               down == [i \in 1..Cardinality(new \ old) |-> PressKey(SetToSeq(new \ old)[i])]
           IN  /\ up \in Seq(EisEvent) /\ Len(up) = Cardinality(old \ new)
               /\ down \in Seq(EisEvent) /\ Len(down) = Cardinality(new \ old)
<1> DEFINE up == [i \in 1..Cardinality(old \ new) |-> ReleaseKey(SetToSeq(old \ new)[i])]
           down == [i \in 1..Cardinality(new \ old) |-> PressKey(SetToSeq(new \ old)[i])]
<1>1. IsFiniteSet(old \ new) /\ IsFiniteSet(new \ old)
    <2>1. old \ new \subseteq Modifier /\ new \ old \subseteq Modifier
        OBVIOUS
    <2> QED BY <2>1, FiniteAssumption, FS_Subset
<1>2. \A k \in Modifier : ReleaseKey(k) \in EisEvent /\ PressKey(k) \in EisEvent
    BY DEF EisEvent
<1>3. up \in Seq(EisEvent) /\ Len(up) = Cardinality(old \ new)
    <2>1. /\ Cardinality(old \ new) \in Nat
          /\ \A i \in 1..Cardinality(old \ new) : SetToSeq(old \ new)[i] \in Modifier
        BY <1>1, SetToSeqType
    <2>2. up \in [1..Cardinality(old \ new) -> EisEvent]
        BY <2>1, <1>2
    <2> HIDE DEF up
    <2> QED BY <2>1, <2>2, FunctionIsSeq
<1>4. down \in Seq(EisEvent) /\ Len(down) = Cardinality(new \ old)
    <2>1. /\ Cardinality(new \ old) \in Nat
          /\ \A i \in 1..Cardinality(new \ old) : SetToSeq(new \ old)[i] \in Modifier
        BY <1>1, SetToSeqType
    <2>2. down \in [1..Cardinality(new \ old) -> EisEvent]
        BY <2>1, <1>2
    <2> HIDE DEF down
    <2> QED BY <2>1, <2>2, FunctionIsSeq
<1> QED BY <1>3, <1>4

LEMMA SyncType ==
    ASSUME NEW old \in SUBSET Modifier, NEW new \in SUBSET Modifier
    PROVE  Sync(old, new) \in Seq(EisEvent)
BY SyncParts, ConcatProperties DEF Sync

\* The two parts of a sequence taken from its front.
LEMMA SplitType ==
    ASSUME NEW S, NEW s \in Seq(S), NEW n \in 0..Len(s)
    PROVE  /\ SubSeq(s, 1, n) \in Seq(S) /\ Len(SubSeq(s, 1, n)) = n
           /\ SubSeq(s, n + 1, Len(s)) \in Seq(S) /\ Len(SubSeq(s, n + 1, Len(s))) = Len(s) - n
           /\ \A j \in 1..Len(s) - n : SubSeq(s, n + 1, Len(s))[j] = s[n + j]
<1>1. /\ Len(s) \in Nat /\ \A i \in 1..Len(s) : s[i] \in S
    OBVIOUS
<1>2. /\ SubSeq(s, 1, n) \in Seq(S) /\ Len(SubSeq(s, 1, n)) = n
    BY <1>1, SubSeqProperties
<1>3. /\ SubSeq(s, n + 1, Len(s)) \in Seq(S) /\ Len(SubSeq(s, n + 1, Len(s))) = Len(s) - n
      /\ \A j \in 1..Len(s) - n : SubSeq(s, n + 1, Len(s))[j] = s[n + j]
    <2>1. n + 1 \in 1..Len(s) + 1 /\ \A i \in n + 1..Len(s) : s[i] \in S
        BY <1>1
    <2> QED BY <2>1, <1>1, SubSeqProperties
<1> QED BY <1>2, <1>3

LEMMA InitType == Init => TypeOK
<1> SUFFICES ASSUME Init PROVE TypeOK
    OBVIOUS
<1>1. /\ \A S : <<>> \in Seq(S)
      /\ Len(<<>>) = 0 /\ 0 <= BusCap /\ 0 <= ChannelCap
    BY CapAssumption, EmptySeq
<1>2. /\ bus \in Seq(Datagram) /\ Len(bus) <= BusCap
      /\ pending \in Seq(Datagram) /\ drained \in Seq(Datagram)
      /\ outgoing \in Seq(EisEvent)
      /\ channel \in Seq(EisEvent) /\ Len(channel) <= ChannelCap
    BY <1>1, Zenon DEF Init
<1>3. seat \in [Thing -> Held] /\ said \in [OwnSlot \cup Button \cup Pad -> Held \cup {Lost}]
    BY DEF Init, Held
<1>4. /\ input \in {"running", "ended"} /\ active \subseteq Slot /\ mods \subseteq Modifier
      /\ eis \in {"setup", "running", "waiting", "ended"} /\ handle \in {"live", "removed"}
      /\ restart \in BOOLEAN /\ cancelled \in BOOLEAN /\ offered \in Equipment
    BY DEF Init
<1> QED BY <1>2, <1>3, <1>4 DEF TypeOK

LEMMA SendType ==
    ASSUME TypeOK, NEW d \in Datagram, Send(d)
    PROVE  TypeOK'
<1> DEFINE dropped == IF Len(bus) = BusCap THEN <<Head(bus)>> ELSE <<>>
           kept == IF Len(bus) = BusCap THEN Tail(bus) ELSE bus
<1>1. /\ bus \in Seq(Datagram) /\ Len(bus) \in Nat /\ Len(bus) <= BusCap
      /\ BusCap \in Nat \ {0}
    BY CapAssumption DEF TypeOK
<1>2. kept \in Seq(Datagram) /\ Len(kept) < BusCap
    <2>1. CASE Len(bus) = BusCap
        <3>1. bus # <<>>
            BY <1>1, <2>1
        <3> QED BY <3>1, <2>1, <1>1, HeadTailProperties
    <2>2. CASE Len(bus) # BusCap
        BY <2>2, <1>1
    <2> QED BY <2>1, <2>2
<1>3. bus' = Append(kept, d)
    BY DEF Send
<1>4. bus' \in Seq(Datagram) /\ Len(bus') <= BusCap
    <2> HIDE DEF kept
    <2> QED BY <1>1, <1>2, <1>3, AppendProperties
<1>5. \A t \in OwnSlot \cup Button \cup Pad : t = d.id => d.val \in Held
    BY DatagramType
<1>6. said' \in [OwnSlot \cup Button \cup Pad -> Held \cup {Lost}]
    <2>1. said \in [OwnSlot \cup Button \cup Pad -> Held \cup {Lost}]
        BY DEF TypeOK
    <2>2. said' = [t \in DOMAIN said |->
                       IF \E i \in DOMAIN dropped : dropped[i].id = t THEN Lost
                       ELSE IF t = d.id THEN d.val ELSE said[t]]
        BY DEF Send
    <2> HIDE DEF dropped
    <2> QED BY <2>1, <2>2, <1>5
<1>7. UNCHANGED <<offered, buffers, input, active, mods, channel, device, cancelled, seat>>
    BY DEF Send
<1> HIDE DEF kept, dropped
<1> QED BY <1>4, <1>6, <1>7 DEF TypeOK, buffers, device

\* The handlers of one datagram.
LEMMA DispatchType ==
    ASSUME TypeOK, Dispatch
    PROVE  TypeOK'
<1> DEFINE d == Head(drained)
<1> USE DEF buffers, device, client
<1>1. /\ drained # <<>> /\ drained' = Tail(drained)
      /\ UNCHANGED <<client, pending, channel, device, cancelled>>
    BY DEF Dispatch, HandleTouch, HandleRelease, HandleKey, HandleMotion, HandleButton,
           HandlePad, HandlePadGone, Dispatching
<1>2. d \in Datagram /\ drained' \in Seq(Datagram)
    BY <1>1, HeadTailProperties DEF TypeOK
<1> HIDE DEF d
<1>3. \A e \in EisEvent : <<e>> \in Seq(EisEvent)
    OBVIOUS
<1>4. /\ outgoing' \in Seq(EisEvent) /\ active' \subseteq Slot /\ mods' \subseteq Modifier
      /\ seat' \in [Thing -> Held] /\ input' = input
    <2>0. /\ outgoing \in Seq(EisEvent) /\ active \subseteq Slot /\ mods \subseteq Modifier
          /\ seat \in [Thing -> Held] /\ <<>> \in Seq(EisEvent)
        BY DEF TypeOK
    <2>1. CASE HandleTouch
        <3>1. d.id \in Slot /\ d.val \in Pos
            BY <1>2, <2>1, DatagramType DEF HandleTouch, Dispatching, d
        <3>2. Event(d.id, IF d.id \in active THEN "Motion" ELSE "Down", d.val) \in EisEvent
            BY <3>1 DEF EisEvent
        <3> QED BY <2>0, <2>1, <3>1, <3>2, <1>3 DEF HandleTouch, d
    <2>2. CASE HandleRelease
        <3>1. d.id \in Slot
            BY <1>2, <2>2, DatagramType DEF HandleRelease, Dispatching, d
        <3>2. Event(d.id, "Up", Idle) \in EisEvent
            BY <3>1 DEF EisEvent
        <3> QED BY <2>0, <2>2, <3>1, <3>2, <1>3 DEF HandleRelease, d
    <2>3. CASE HandleKey
        <3>1. d.id \in Key \cup {NoKey} /\ d.val \in SUBSET Modifier
            BY <1>2, <2>3, DatagramType DEF HandleKey, Dispatching, d
        <3>2. Sync(mods, d.val) \in Seq(EisEvent)
            BY <2>0, <3>1, SyncType
        <3> DEFINE tap == IF d.id = NoKey THEN <<>> ELSE <<PressKey(d.id), ReleaseKey(d.id)>>
        <3>3. tap \in Seq(EisEvent)
            <4>1. CASE d.id = NoKey
                BY <2>0, <4>1
            <4>2. CASE d.id # NoKey
                <5>1. PressKey(d.id) \in EisEvent /\ ReleaseKey(d.id) \in EisEvent
                    BY <4>2, <3>1 DEF EisEvent
                <5> QED BY <4>2, <5>1
            <4> QED BY <4>1, <4>2
        <3>4. outgoing' = Sync(mods, d.val) \o tap /\ mods' = d.val /\ UNCHANGED <<input, active, seat>>
            BY <2>3 DEF HandleKey, d
        <3> HIDE DEF tap
        <3> QED BY <2>0, <3>1, <3>2, <3>3, <3>4, ConcatProperties
    <2>4. CASE HandleMotion
        <3>1. d.id \in Axis /\ d.val \in -MaxDelta..MaxDelta
            BY <1>2, <2>4, DatagramType DEF HandleMotion, Dispatching, d
        <3>2. Event(d.id, "Set", d.val) \in EisEvent
            BY <3>1 DEF EisEvent
        <3> QED BY <2>0, <2>4, <3>2, <1>3 DEF HandleMotion, d
    <2>5. CASE HandleButton
        <3>1. d.id \in Button /\ d.val \in {Idle, Pressed}
            BY <1>2, <2>5, DatagramType DEF HandleButton, Dispatching, d
        <3>2. Event(d.id, "Set", d.val) \in EisEvent
            BY <3>1 DEF EisEvent
        <3> QED BY <2>0, <2>5, <3>2, <1>3 DEF HandleButton, d
    <2>6. CASE HandlePad
        <3>1. d.val \in Held
            BY <1>2, <2>6, DatagramType DEF HandlePad, Dispatching, d, Held
        <3> QED BY <2>0, <2>6, <3>1 DEF HandlePad, d
    <2>7. CASE HandlePadGone
        BY <2>0, <2>7 DEF HandlePadGone, Held
    <2> QED BY <2>1, <2>2, <2>3, <2>4, <2>5, <2>6, <2>7 DEF Dispatch
<1> QED BY <1>1, <1>2, <1>4 DEF TypeOK

\* The task is gone, having sent what the channel had room for.
LEMMA GoneType ==
    ASSUME TypeOK, NEW sent \in Seq(EisEvent), Len(channel) + Len(sent) <= ChannelCap,
           InputGone(sent)
    PROVE  TypeOK'
<1> USE DEF buffers, device, client
<1>1. channel' \in Seq(EisEvent) /\ Len(channel') <= ChannelCap
    BY ConcatProperties DEF InputGone, TypeOK
<1>2. seat' \in [Thing -> Held]
    BY DEF InputGone, TypeOK, Held
<1>3. /\ bus' \in Seq(Datagram) /\ Len(bus') <= BusCap
      /\ pending' \in Seq(Datagram) /\ drained' \in Seq(Datagram) /\ outgoing' \in Seq(EisEvent)
    <2>1. Len(<<>>) = 0 /\ 0 <= BusCap /\ \A S : <<>> \in Seq(S)
        BY CapAssumption, EmptySeq
    <2> QED BY <2>1, Zenon DEF InputGone
<1>4. input' = "ended" /\ UNCHANGED <<offered, said, active, mods, device, cancelled>>
    BY DEF InputGone
<1> QED BY <1>1, <1>2, <1>3, <1>4 DEF TypeOK

LEMMA CancelType ==
    ASSUME TypeOK, InputCancelled
    PROVE  TypeOK'
<1> DEFINE fingers == SetToSeq(active)
           room == ChannelCap - Len(channel)
           n == IF Len(fingers) < room THEN Len(fingers) ELSE room
           sent == [i \in 1..n |-> Event(fingers[i], "Up", Idle)]
<1>1. IsFiniteSet(active) /\ active \subseteq Slot
    BY FiniteAssumption, FS_Subset DEF TypeOK
<1>2. /\ Len(fingers) \in Nat
      /\ \A i \in 1..Len(fingers) : fingers[i] \in Slot
    BY <1>1, SetToSeqType
<1>3. Len(channel) \in Nat /\ Len(channel) <= ChannelCap /\ ChannelCap \in Nat
    BY CapAssumption DEF TypeOK
<1>4. n \in Nat /\ n <= Len(fingers) /\ Len(channel) + n <= ChannelCap
    <2> HIDE DEF fingers
    <2> QED BY <1>2, <1>3
<1>5. InputGone(sent)
    BY DEF InputCancelled
<1> HIDE DEF fingers, n
<1>6. sent \in [1..n -> EisEvent]
    <2>1. \A i \in 1..n : Event(fingers[i], "Up", Idle) \in EisEvent
        BY <1>2, <1>4 DEF EisEvent
    <2> QED BY <2>1
<1>7. sent \in Seq(EisEvent) /\ Len(sent) = n
    <2> HIDE DEF sent
    <2> QED BY <1>4, <1>6, FunctionIsSeq
<1> HIDE DEF sent
<1> QED BY <1>4, <1>5, <1>7, GoneType

LEMMA InputStepType ==
    ASSUME TypeOK, PendingOrdered, InputStep
    PROVE  TypeOK'
<1> USE DEF buffers, device, client
<1>1. CASE Recv
    <2>1. /\ bus \in Seq(Datagram) /\ bus # <<>> /\ Len(bus) <= BusCap /\ BusCap \in Nat
          /\ pending' = Push(pending, Head(bus)) /\ bus' = Tail(bus)
        BY <1>1, CapAssumption DEF Recv, TypeOK
    <2>2. Head(bus) \in Datagram /\ bus' \in Seq(Datagram) /\ Len(bus') <= BusCap
        BY <2>1, HeadTailProperties
    <2>3. pending' \in Seq(Datagram)
        BY <2>1, <2>2, PushOrdered DEF TypeOK, PendingOrdered, Ordered
    <2> QED BY <1>1, <2>2, <2>3 DEF Recv, TypeOK
<1>2. CASE Drain
    <2>1. PICK n \in 1..Len(pending) :
            /\ drained' = SubSeq(pending, 1, n)
            /\ pending' = SubSeq(pending, n + 1, Len(pending))
        BY <1>2 DEF Drain
    <2>2. n \in 0..Len(pending)
        OBVIOUS
    <2>3. drained' \in Seq(Datagram) /\ pending' \in Seq(Datagram)
        BY <2>1, <2>2, SplitType DEF TypeOK
    <2> QED BY <1>2, <2>3 DEF Drain, TypeOK
<1>3. CASE ModifierTimeout
    <2>1. outgoing' \in Seq(EisEvent)
        BY <1>3, SyncType DEF ModifierTimeout, TypeOK
    <2> QED BY <1>3, <2>1 DEF ModifierTimeout, TypeOK
<1>4. CASE Dispatch
    BY <1>4, DispatchType
<1>5. CASE SendEvent
    <2>1. /\ outgoing \in Seq(EisEvent) /\ outgoing # <<>> /\ outgoing' = Tail(outgoing)
          /\ channel \in Seq(EisEvent) /\ Len(channel) \in Nat /\ ChannelCap \in Nat
          /\ Len(channel) <= ChannelCap
        BY <1>5, CapAssumption DEF SendEvent, TypeOK
    <2>2. Head(outgoing) \in EisEvent /\ outgoing' \in Seq(EisEvent)
        BY <2>1, HeadTailProperties
    <2>3. channel' \in Seq(EisEvent) /\ Len(channel') <= ChannelCap
        <3>1. CASE Len(channel) < ChannelCap /\ channel' = Append(channel, Head(outgoing))
            BY <2>1, <2>2, <3>1, AppendProperties
        <3>2. CASE UNCHANGED channel
            BY <2>1, <3>2
        <3> QED BY <1>5, <3>1, <3>2 DEF SendEvent
    <2> QED BY <1>5, <2>2, <2>3 DEF SendEvent, TypeOK
<1>6. CASE InputCancelled
    BY <1>6, CancelType
<1>7. CASE InputGone(<<>>)
    <2>1. <<>> \in Seq(EisEvent) /\ Len(channel) + Len(<<>>) <= ChannelCap
        BY DEF TypeOK
    <2> QED BY <1>7, <2>1, GoneType
<1>8. CASE BusClosed \/ InputAborted \/ PadPanics
    BY <1>7, <1>8 DEF BusClosed, InputAborted, PadPanics
<1> QED BY <1>1, <1>2, <1>3, <1>4, <1>5, <1>6, <1>8 DEF InputStep

LEMMA EisStepType ==
    ASSUME TypeOK, EisStep
    PROVE  TypeOK'
<1> USE DEF buffers, device, client
<1>1. CASE EisGone /\ handle' \in {"live", "removed"} /\ restart' \in BOOLEAN
    <2>1. seat' \in [Thing -> Held]
        BY <1>1 DEF EisGone, TypeOK, Held
    <2>2. channel' \in Seq(EisEvent) /\ Len(channel') <= ChannelCap
        <3>1. Len(<<>>) = 0 /\ 0 <= ChannelCap /\ <<>> \in Seq(EisEvent)
            BY CapAssumption
        <3> QED BY <3>1, <1>1, Zenon DEF EisGone
    <2> QED BY <1>1, <2>1, <2>2 DEF EisGone, EisUnchanged, TypeOK
<1>2. CASE DevicesReady \/ DevicePaused \/ WaitOver
    BY <1>2 DEF DevicesReady, DevicePaused, WaitOver, EisUnchanged, TypeOK
<1>3. CASE DeviceRemoved
    <2>1. CASE eis = "running" /\ restart' = TRUE /\ EisGone
        BY <1>1, <1>3, <2>1 DEF DeviceRemoved
    <2>2. CASE EisUnchanged /\ UNCHANGED <<eis, restart, channel, seat>>
        BY <1>3, <2>2 DEF DeviceRemoved, EisUnchanged, TypeOK
    <2> QED BY <1>3, <2>1, <2>2 DEF DeviceRemoved
<1>4. CASE ConnectionLost \/ EisCancelled \/ ChannelClosed
    <2>1. EisGone /\ UNCHANGED <<handle, restart>>
        BY <1>4 DEF ConnectionLost, EisCancelled, ChannelClosed
    <2> QED BY <1>1, <2>1 DEF TypeOK
<1>5. CASE TakeBatch
    <2> DEFINE n == IF Len(channel) < MaxBatch THEN Len(channel) ELSE MaxBatch
               batch == SubSeq(channel, 1, n)
    <2>1. channel \in Seq(EisEvent) /\ Len(channel) <= ChannelCap /\ seat \in [Thing -> Held]
          /\ Len(channel) \in Nat /\ MaxBatch \in Nat /\ ChannelCap \in Nat
        BY CapAssumption DEF TypeOK
    <2>2. n \in 0..Len(channel)
        BY <2>1
    <2>3. /\ channel' = SubSeq(channel, n + 1, Len(channel))
          /\ seat' = IF handle = "removed" THEN seat
                     ELSE [t \in Thing |-> After(batch, t, seat[t])]
        BY <1>5 DEF TakeBatch
    <2> HIDE DEF n
    <2>4. /\ batch \in Seq(EisEvent)
          /\ channel' \in Seq(EisEvent) /\ Len(channel') = Len(channel) - n
        BY <2>1, <2>2, <2>3, SplitType
    <2> HIDE DEF batch
    <2>5. \A t \in Thing : After(batch, t, seat[t]) \in Held
        BY <2>1, <2>4, AfterType
    <2>6. seat' \in [Thing -> Held]
        BY <2>1, <2>3, <2>5
    <2>7. Len(channel') <= ChannelCap
        BY <2>1, <2>2, <2>4
    <2> QED BY <1>5, <2>4, <2>6, <2>7 DEF TakeBatch, TypeOK
<1> QED BY <1>2, <1>3, <1>4, <1>5 DEF EisStep

\* The buffer changes when a datagram is folded in, when a tick drains its front
\* and when the task goes.
LEMMA OrderedStep ==
    ASSUME TypeOK, PendingOrdered, [Next]_vars
    PROVE  PendingOrdered'
<1> USE DEF buffers, device, client
<1>1. CASE UNCHANGED pending
    BY <1>1 DEF PendingOrdered
<1>2. CASE Recv
    <2>1. /\ bus \in Seq(Datagram) /\ bus # <<>> /\ pending' = Push(pending, Head(bus))
        BY <1>2 DEF Recv, TypeOK
    <2>2. Head(bus) \in Datagram
        BY <2>1, HeadTailProperties
    <2>3. Ordered(pending')
        BY <2>1, <2>2, PushOrdered DEF TypeOK, PendingOrdered, Ordered
    <2> QED BY <2>3 DEF PendingOrdered, Ordered
<1>3. CASE Drain
    <2>1. PICK n \in 1..Len(pending) : pending' = SubSeq(pending, n + 1, Len(pending))
        BY <1>3 DEF Drain
    <2>2. n \in 0..Len(pending) /\ pending \in Seq(Datagram)
        BY DEF TypeOK
    <2>3. /\ pending' \in Seq(Datagram) /\ Len(pending') = Len(pending) - n
          /\ \A j \in 1..Len(pending) - n : pending'[j] = pending[n + j]
        BY <2>1, <2>2, SplitType
    <2>4. Len(pending) \in Nat /\ DOMAIN pending = 1..Len(pending)
          /\ DOMAIN pending' = 1..Len(pending) - n
        BY <2>2, <2>3, LenProperties
    <2>5. ASSUME NEW i \in DOMAIN pending', NEW j \in DOMAIN pending', i < j
          PROVE  /\ InputKey(pending'[i]) # InputKey(pending'[j])
                 /\ InputKey(pending'[i]) \notin Terminates(pending'[j])
        <3>1. /\ n + i \in DOMAIN pending /\ n + j \in DOMAIN pending /\ n + i < n + j
              /\ pending'[i] = pending[n + i] /\ pending'[j] = pending[n + j]
            BY <2>3, <2>4, <2>5
        <3> QED BY <3>1 DEF PendingOrdered
    <2> QED BY <2>5 DEF PendingOrdered
<1>4. CASE pending' = <<>>
    BY <1>4 DEF PendingOrdered
<1>5. CASE InputCancelled \/ BusClosed \/ InputAborted \/ PadPanics
    BY <1>4, <1>5 DEF InputCancelled, BusClosed, InputAborted, PadPanics, InputGone
<1>6. CASE ModifierTimeout \/ Dispatch \/ SendEvent
    <2>1. UNCHANGED pending
        BY <1>6 DEF ModifierTimeout, SendEvent, Dispatch, HandleTouch, HandleRelease, HandleKey,
                    HandleMotion, HandleButton, HandlePad, HandlePadGone, Dispatching
    <2> QED BY <1>1, <2>1
<1>7. CASE EisStep
    <2>1. UNCHANGED pending
        BY <1>7 DEF EisStep, DevicesReady, DevicePaused, WaitOver, DeviceRemoved, ConnectionLost,
                    EisCancelled, ChannelClosed, TakeBatch, EisGone, EisUnchanged
    <2> QED BY <1>1, <2>1
<1>8. CASE \E d \in Datagram : Send(d)
    BY <1>1, <1>8 DEF Send
<1>9. CASE Cancel
    BY <1>1, <1>9 DEF Cancel
<1>10. CASE UNCHANGED vars
    BY <1>1, <1>10 DEF vars
<1> QED BY <1>2, <1>3, <1>5, <1>6, <1>7, <1>8, <1>9, <1>10 DEF Next, InputStep

\* What InputPath is proved to keep.
IInv == TypeOK /\ PendingOrdered

THEOREM Inductive == Spec => []IInv
<1>1. Init => IInv
    <2>1. Init => PendingOrdered
        BY DEF Init, PendingOrdered
    <2> QED BY <2>1, InitType DEF IInv
<1>2. IInv /\ [Next]_vars => IInv'
    <2> SUFFICES ASSUME TypeOK, PendingOrdered, [Next]_vars PROVE TypeOK' /\ PendingOrdered'
        BY DEF IInv
    <2>1. TypeOK'
        <3>1. CASE \E d \in Datagram : Send(d)
            BY <3>1, SendType
        <3>2. CASE InputStep
            BY <3>2, InputStepType
        <3>3. CASE EisStep
            BY <3>3, EisStepType
        <3>4. CASE Cancel \/ UNCHANGED vars
            BY <3>4 DEF Cancel, vars, buffers, device, client, TypeOK
        <3> QED BY <3>1, <3>2, <3>3, <3>4 DEF Next
    <2> QED BY <2>1, OrderedStep
<1> QED BY <1>1, <1>2, PTL DEF Spec

\* Every queue between the client and the compositor stays within its bound and
\* holds what its receiver can take (input_task, dispatch_input, eis_main).
THEOREM TypeCorrect == Spec => []TypeOK
BY Inductive, PTL DEF IInv

\* The buffer holds one entry per identity, and never a lift or a disconnect
\* behind the state it ends (InputCoalesce::push).
THEOREM CoalesceOrdered == Spec => []PendingOrdered
BY Inductive, PTL DEF IInv

----------------------------------------------------------------------------
\* What a sequence leaves behind is what its last word of a thing says.
Silent(s, t) == \A i \in 1..Len(s) : s[i].id # t
Says(s, t, v) ==
    \E i \in 1..Len(s) :
        s[i].id = t /\ s[i].val = v /\ \A j \in 1..Len(s) : i < j => s[j].id # t

LEMMA AfterSilent ==
    ASSUME NEW S, NEW s \in Seq(S), NEW t, NEW x, Silent(s, t)
    PROVE  After(s, t, x) = x
<1>1. DOMAIN s = 1..Len(s)
    OBVIOUS
<1>2. {i \in DOMAIN s : s[i].id = t} = {}
    BY <1>1 DEF Silent
<1> QED BY <1>2 DEF After

LEMMA AfterSays ==
    ASSUME NEW S, NEW s \in Seq(S), NEW t, NEW x, NEW v, Says(s, t, v)
    PROVE  After(s, t, x) = v
<1> DEFINE about == {j \in DOMAIN s : s[j].id = t}
           last == CHOOSE k \in about : \A j \in about : j <= k
<1>1. DOMAIN s = 1..Len(s) /\ Len(s) \in Nat
    OBVIOUS
<1>2. PICK i \in 1..Len(s) :
          s[i].id = t /\ s[i].val = v /\ \A j \in 1..Len(s) : i < j => s[j].id # t
    BY DEF Says
<1>3. i \in about /\ \A j \in about : j <= i
    BY <1>1, <1>2
<1>4. \A k \in about : (\A j \in about : j <= k) => k = i
    BY <1>1, <1>3
<1> HIDE DEF about
<1>5. last = i
    BY <1>3, <1>4
<1>6. After(s, t, x) = s[last].val
    BY <1>3 DEF After, about
<1> QED BY <1>2, <1>5, <1>6

LEMMA SilentOrSays ==
    ASSUME NEW S, NEW s \in Seq(S), NEW t
    PROVE  Silent(s, t) \/ \E v : Says(s, t, v)
<1> SUFFICES ASSUME ~Silent(s, t) PROVE \E v : Says(s, t, v)
    OBVIOUS
<1> DEFINE about == {i \in 1..Len(s) : s[i].id = t}
<1>1. Len(s) \in Nat /\ about \in SUBSET (1..Len(s)) /\ about # {}
    BY DEF Silent
<1>2. \E i \in about : \A j \in about : j <= i
    <2> HIDE DEF about
    <2> QED BY <1>1, HasLast
<1>3. PICK i \in about : \A j \in about : j <= i
    BY <1>2
<1>4. \A j \in 1..Len(s) : i < j => s[j].id # t
    BY <1>1, <1>3
<1>5. Says(s, t, s[i].val)
    BY <1>3, <1>4 DEF Says
<1> QED BY <1>5

LEMMA ConcatParts ==
    ASSUME NEW S, NEW a \in Seq(S), NEW b \in Seq(S), NEW c, c = a \o b
    PROVE  /\ c \in Seq(S) /\ Len(c) = Len(a) + Len(b)
           /\ \A i \in 1..Len(a) : i \in 1..Len(c) /\ c[i] = a[i]
           /\ \A i \in 1..Len(b) : Len(a) + i \in 1..Len(c) /\ c[Len(a) + i] = b[i]
           /\ \A k \in 1..Len(c) : k \in 1..Len(a) \/ \E i \in 1..Len(b) : k = Len(a) + i
<1>1. Len(a) \in Nat /\ Len(b) \in Nat
    OBVIOUS
<1>2. /\ c \in Seq(S) /\ Len(c) = Len(a) + Len(b)
      /\ \A i \in 1..Len(a) + Len(b) :
            c[i] = IF i <= Len(a) THEN a[i] ELSE b[i - Len(a)]
    BY ConcatProperties
<1>3. \A i \in 1..Len(a) : i \in 1..Len(c) /\ c[i] = a[i]
    BY <1>1, <1>2
<1>4. ASSUME NEW i \in 1..Len(b)
      PROVE  Len(a) + i \in 1..Len(c) /\ c[Len(a) + i] = b[i]
    <2>1. /\ Len(a) + i \in 1..Len(a) + Len(b) /\ ~(Len(a) + i <= Len(a))
          /\ Len(a) + i - Len(a) = i
        BY <1>1
    <2> QED BY <2>1, <1>2
<1>5. ASSUME NEW k \in 1..Len(c)
      PROVE  k \in 1..Len(a) \/ \E i \in 1..Len(b) : k = Len(a) + i
    <2>1. CASE k > Len(a)
        <3>1. k - Len(a) \in 1..Len(b) /\ k = Len(a) + (k - Len(a))
            BY <2>1, <1>1, <1>2
        <3> QED BY <3>1
    <2>2. CASE ~(k > Len(a))
        BY <2>2, <1>1, <1>2
    <2> QED BY <2>1, <2>2
<1> QED BY <1>2, <1>3, <1>4, <1>5

LEMMA SaysSecond ==
    ASSUME NEW S, NEW a \in Seq(S), NEW b \in Seq(S), NEW t, NEW v, Says(b, t, v),
           NEW c, c = a \o b
    PROVE  Says(c, t, v)
<1>1. PICK i \in 1..Len(b) :
          b[i].id = t /\ b[i].val = v /\ \A j \in 1..Len(b) : i < j => b[j].id # t
    BY DEF Says
<1>2. Len(a) \in Nat /\ Len(b) \in Nat
    OBVIOUS
<1>3. ASSUME NEW k \in 1..Len(c), Len(a) + i < k
      PROVE  c[k].id # t
    <2>1. k \in 1..Len(a) \/ \E j \in 1..Len(b) : k = Len(a) + j
        BY ConcatParts
    <2>2. ~(k \in 1..Len(a))
        BY <1>2, <1>3
    <2>3. PICK j \in 1..Len(b) : k = Len(a) + j
        BY <2>1, <2>2
    <2>4. c[k] = b[j]
        BY <2>3, ConcatParts
    <2>5. i < j
        BY <1>2, <1>3, <2>3
    <2> QED BY <2>4, <2>5, <1>1
<1>4. Len(a) + i \in 1..Len(c) /\ c[Len(a) + i] = b[i]
    BY ConcatParts
<1> QED BY <1>1, <1>3, <1>4 DEF Says

LEMMA SaysFirst ==
    ASSUME NEW S, NEW a \in Seq(S), NEW b \in Seq(S), NEW t, NEW v,
           Says(a, t, v), Silent(b, t),
           NEW c, c = a \o b
    PROVE  Says(c, t, v)
<1>1. PICK i \in 1..Len(a) :
          a[i].id = t /\ a[i].val = v /\ \A j \in 1..Len(a) : i < j => a[j].id # t
    BY DEF Says
<1>2. i \in 1..Len(c) /\ c[i] = a[i]
    BY ConcatParts
<1>3. ASSUME NEW k \in 1..Len(c), i < k
      PROVE  c[k].id # t
    <2>1. k \in 1..Len(a) \/ \E j \in 1..Len(b) : k = Len(a) + j
        BY ConcatParts
    <2>2. CASE k \in 1..Len(a)
        <3>1. c[k] = a[k]
            BY <2>2, ConcatParts
        <3> QED BY <3>1, <2>2, <1>1, <1>3
    <2>3. CASE \E j \in 1..Len(b) : k = Len(a) + j
        <3>1. PICK j \in 1..Len(b) : k = Len(a) + j
            BY <2>3
        <3>2. c[k] = b[j]
            BY <3>1, ConcatParts
        <3> QED BY <3>2 DEF Silent
    <2> QED BY <2>1, <2>2, <2>3
<1> QED BY <1>1, <1>2, <1>3 DEF Says

LEMMA SilentBoth ==
    ASSUME NEW S, NEW a \in Seq(S), NEW b \in Seq(S), NEW t, Silent(a, t), Silent(b, t),
           NEW c, c = a \o b
    PROVE  Silent(c, t)
<1>1. ASSUME NEW k \in 1..Len(c) PROVE c[k].id # t
    <2>1. k \in 1..Len(a) \/ \E j \in 1..Len(b) : k = Len(a) + j
        BY ConcatParts
    <2>2. \A i \in 1..Len(a) : c[i] = a[i]
        BY ConcatParts
    <2>3. \A j \in 1..Len(b) : c[Len(a) + j] = b[j]
        BY ConcatParts
    <2> QED BY <2>1, <2>2, <2>3 DEF Silent
<1> QED BY <1>1 DEF Silent

\* Replaying one sequence after another.
LEMMA AfterConcat ==
    ASSUME NEW S, NEW a \in Seq(S), NEW b \in Seq(S), NEW t, NEW x
    PROVE  After(a \o b, t, x) = After(b, t, After(a, t, x))
<1> SUFFICES ASSUME NEW c, c = a \o b
             PROVE  After(c, t, x) = After(b, t, After(a, t, x))
    OBVIOUS
<1>1. c \in Seq(S)
    BY ConcatProperties
<1>2. CASE \E v : Says(b, t, v)
    <2>1. PICK v : Says(b, t, v)
        BY <1>2
    <2>2. Says(c, t, v)
        BY <2>1, SaysSecond
    <2>3. After(c, t, x) = v
        BY <1>1, <2>2, AfterSays
    <2>4. After(b, t, After(a, t, x)) = v
        BY <2>1, AfterSays
    <2> QED BY <2>3, <2>4
<1>3. CASE Silent(b, t)
    <2>1. After(b, t, After(a, t, x)) = After(a, t, x)
        BY <1>3, AfterSilent
    <2>2. CASE \E v : Says(a, t, v)
        <3>1. PICK v : Says(a, t, v)
            BY <2>2
        <3>2. Says(c, t, v)
            BY <3>1, <1>3, SaysFirst
        <3>3. After(c, t, x) = v
            BY <1>1, <3>2, AfterSays
        <3>4. After(a, t, x) = v
            BY <3>1, AfterSays
        <3> QED BY <2>1, <3>3, <3>4
    <2>3. CASE Silent(a, t)
        <3>1. Silent(c, t)
            BY <2>3, <1>3, SilentBoth
        <3>2. After(c, t, x) = x
            BY <1>1, <3>1, AfterSilent
        <3>3. After(a, t, x) = x
            BY <2>3, AfterSilent
        <3> QED BY <2>1, <3>2, <3>3
    <2> QED BY <2>2, <2>3, SilentOrSays
<1> QED BY <1>2, <1>3, SilentOrSays

LEMMA AfterOne ==
    ASSUME NEW S, NEW e \in S, NEW t, NEW x, NEW s, s = <<e>>
    PROVE  s \in Seq(S) /\ After(s, t, x) = IF e.id = t THEN e.val ELSE x
<1>1. s \in Seq(S) /\ Len(s) = 1 /\ s[1] = e
    OBVIOUS
<1>2. CASE e.id = t
    <2>1. Says(s, t, e.val)
        BY <1>1, <1>2 DEF Says
    <2> QED BY <1>1, <1>2, <2>1, AfterSays
<1>3. CASE e.id # t
    <2>1. Silent(s, t)
        BY <1>1, <1>3 DEF Silent
    <2> QED BY <1>1, <1>3, <2>1, AfterSilent
<1> QED BY <1>2, <1>3

LEMMA AfterTold ==
    ASSUME NEW k, NEW op, NEW v, NEW t, NEW x
    PROVE  After(<<Event(k, op, v)>>, t, x) = IF k = t THEN v ELSE x
<1> DEFINE e == Event(k, op, v)
           S == {e}
           s == <<e>>
<1>1. e \in S /\ e.id = k /\ e.val = v
    BY DEF Event
<1> HIDE DEF e, S
<1>2. After(s, t, x) = IF e.id = t THEN e.val ELSE x
    BY <1>1, AfterOne
<1> QED BY <1>1, <1>2 DEF e

LEMMA AfterEmpty ==
    ASSUME NEW t, NEW x
    PROVE  After(<<>>, t, x) = x
<1>1. DOMAIN <<>> = {}
    BY EmptySeq
<1> QED BY <1>1 DEF After

LEMMA AfterAppend ==
    ASSUME NEW S, NEW s \in Seq(S), NEW e \in S, NEW t, NEW x
    PROVE  After(Append(s, e), t, x) = IF e.id = t THEN e.val ELSE After(s, t, x)
<1> DEFINE h == <<e>>
           c == Append(s, e)
<1>1. h \in Seq(S) /\ After(h, t, After(s, t, x)) = IF e.id = t THEN e.val ELSE After(s, t, x)
    BY AfterOne
<1>2. c = s \o h
    BY AppendIsConcat
<1> HIDE DEF h, c
<1>3. After(c, t, x) = After(h, t, After(s, t, x))
    BY <1>1, <1>2, AfterConcat
<1> QED BY <1>1, <1>3 DEF c

LEMMA HeadConcat ==
    ASSUME NEW S, NEW s \in Seq(S), s # <<>>
    PROVE  s = <<Head(s)>> \o Tail(s)
<1> DEFINE h == <<Head(s)>>
           r == Tail(s)
<1>1. Head(s) \in S /\ r \in Seq(S) /\ Len(r) = Len(s) - 1 /\ Len(s) \in Nat \ {0}
    BY HeadTailProperties
<1>2. h \in Seq(S) /\ Len(h) = 1 /\ h[1] = s[1]
    BY <1>1, HeadTailProperties
<1>3. \A i \in 1..Len(s) - 1 : r[i] = s[i + 1]
    BY HeadTailProperties
<1> HIDE DEF h, r
<1> DEFINE c == h \o r
<1>4. /\ c \in Seq(S) /\ Len(c) = Len(s)
      /\ \A i \in 1..Len(s) : c[i] = IF i <= 1 THEN h[i] ELSE r[i - 1]
    <2>1. Len(h) + Len(r) = Len(s)
        BY <1>1, <1>2
    <2>2. /\ c \in Seq(S) /\ Len(c) = Len(h) + Len(r)
          /\ \A i \in 1..Len(h) + Len(r) : c[i] = IF i <= Len(h) THEN h[i] ELSE r[i - Len(h)]
        BY <1>1, <1>2, ConcatProperties
    <2> QED BY <2>1, <2>2, <1>2
<1> HIDE DEF c
<1>5. \A i \in 1..Len(s) : c[i] = s[i]
    <2> TAKE i \in 1..Len(s)
    <2>1. CASE i = 1
        BY <2>1, <1>2, <1>4
    <2>2. CASE i # 1
        <3>1. i - 1 \in 1..Len(s) - 1 /\ i - 1 + 1 = i /\ ~(i <= 1)
            BY <2>2, <1>1
        <3> QED BY <3>1, <1>3, <1>4
    <2> QED BY <2>1, <2>2
<1>6. c = s
    BY <1>4, <1>5, SeqEqual
<1> QED BY <1>6 DEF c, h, r

LEMMA AfterHead ==
    ASSUME NEW S, NEW s \in Seq(S), s # <<>>, NEW t, NEW x
    PROVE  After(s, t, x) = After(Tail(s), t, IF Head(s).id = t THEN Head(s).val ELSE x)
<1> DEFINE h == <<Head(s)>>
           r == Tail(s)
<1>1. Head(s) \in S /\ r \in Seq(S) /\ h \in Seq(S)
    BY HeadTailProperties
<1>2. s = h \o r
    BY HeadConcat
<1>3. After(h, t, x) = IF Head(s).id = t THEN Head(s).val ELSE x
    BY <1>1, AfterOne
<1> HIDE DEF h, r
<1>4. After(h \o r, t, x) = After(r, t, After(h, t, x))
    BY <1>1, AfterConcat, SMTT(40)
<1> QED BY <1>2, <1>3, <1>4 DEF r

LEMMA SplitConcat ==
    ASSUME NEW S, NEW s \in Seq(S), NEW n \in 0..Len(s)
    PROVE  s = SubSeq(s, 1, n) \o SubSeq(s, n + 1, Len(s))
<1>1. SubSeq(s, 1, Len(s)) = s
    BY SubSeqFull
<1>2. 1 \in 1..Len(s) + 1 /\ n \in 1 - 1..Len(s) /\ Len(s) \in n..Len(s)
    OBVIOUS
<1>3. SubSeq(s, 1, n) \o SubSeq(s, n + 1, Len(s)) = SubSeq(s, 1, Len(s))
    BY <1>2, ConcatAdjacentSubSeq
<1> QED BY <1>1, <1>3, Zenon

LEMMA AfterSplit ==
    ASSUME NEW S, NEW s \in Seq(S), NEW n \in 0..Len(s), NEW t, NEW x
    PROVE  After(s, t, x) = After(SubSeq(s, n + 1, Len(s)), t, After(SubSeq(s, 1, n), t, x))
<1> DEFINE a == SubSeq(s, 1, n)
           b == SubSeq(s, n + 1, Len(s))
<1>1. a \in Seq(S) /\ b \in Seq(S)
    BY SplitType
<1>2. s = a \o b
    BY SplitConcat
<1> HIDE DEF a, b
<1>3. After(s, t, x) = After(b, t, After(a, t, x))
    BY <1>1, <1>2, AfterConcat
<1> QED BY <1>3 DEF a, b

LEMMA AfterSame ==
    ASSUME NEW S, NEW a \in Seq(S), NEW b \in Seq(S), NEW t, NEW x, Len(a) = Len(b),
           \A i \in 1..Len(a) : /\ a[i].id = t <=> b[i].id = t
                                /\ a[i].id = t => a[i].val = b[i].val
    PROVE  After(b, t, x) = After(a, t, x)
<1>1. CASE Silent(a, t)
    <2>1. Silent(b, t)
        BY <1>1 DEF Silent
    <2> QED BY <1>1, <2>1, AfterSilent
<1>2. CASE \E v : Says(a, t, v)
    <2>1. PICK v : Says(a, t, v)
        BY <1>2
    <2>2. Says(b, t, v)
        BY <2>1 DEF Says
    <2> QED BY <2>1, <2>2, AfterSays
<1> QED BY <1>1, <1>2, SilentOrSays

\* What removing an entry leaves on either side of it.
LEMMA RemoveParts ==
    ASSUME NEW S, NEW s \in Seq(S), NEW r \in 1..Len(s)
    PROVE  LET a == SubSeq(s, 1, r - 1)
           IN  /\ a \in Seq(S) /\ SubSeq(s, 1, r) \in Seq(S)
               /\ SubSeq(s, r + 1, Len(s)) \in Seq(S)
               /\ SubSeq(s, 1, r) = Append(a, s[r])
<1> DEFINE a == SubSeq(s, 1, r - 1)
           b == SubSeq(s, r + 1, Len(s))
           c == SubSeq(s, 1, r)
<1>1. Len(s) \in Nat /\ r - 1 \in 0..Len(s) /\ r \in 0..Len(s) /\ s[r] \in S
    OBVIOUS
<1>2. a \in Seq(S) /\ Len(a) = r - 1 /\ \A j \in 1..r - 1 : a[j] = s[j]
    BY <1>1, SubSeqProperties, ElementOfSeq
<1>3. c \in Seq(S) /\ Len(c) = r /\ \A j \in 1..r : c[j] = s[j]
    BY <1>1, SubSeqProperties, ElementOfSeq
<1>4. b \in Seq(S)
    BY <1>1, SplitType
<1> HIDE DEF a, b, c
<1>5. Append(a, s[r]) = c
    <2>1. /\ Append(a, s[r]) \in Seq(S) /\ Len(Append(a, s[r])) = r
          /\ \A j \in 1..r : Append(a, s[r])[j] = c[j]
        BY <1>1, <1>2, <1>3, AppendProperties
    <2> QED BY <2>1, <1>3, SeqEqual
<1> QED BY <1>2, <1>3, <1>4, <1>5 DEF a, b, c

LEMMA AfterRemove ==
    ASSUME NEW S, NEW s \in Seq(S), NEW r \in 1..Len(s), NEW t, NEW x, s[r].id # t
    PROVE  After(RemoveAt(s, r), t, x) = After(s, t, x)
<1> DEFINE a == SubSeq(s, 1, r - 1)
           b == SubSeq(s, r + 1, Len(s))
           c == SubSeq(s, 1, r)
<1>1. r \in 0..Len(s) /\ s[r] \in S
    OBVIOUS
<1>2. a \in Seq(S) /\ b \in Seq(S) /\ c = Append(a, s[r])
    BY RemoveParts
<1>3. After(s, t, x) = After(b, t, After(c, t, x))
    BY <1>1, AfterSplit
<1>4. RemoveAt(s, r) = a \o b
    BY DEF RemoveAt
<1> HIDE DEF a, b, c
<1>5. After(Append(a, s[r]), t, x) = After(a, t, x)
    BY <1>1, <1>2, AfterAppend
<1>6. After(a \o b, t, x) = After(b, t, After(a, t, x))
    BY <1>2, AfterConcat
<1> QED BY <1>2, <1>3, <1>4, <1>5, <1>6

\* SetToSeq leaves nothing out.
LEMMA SetToSeqOnto ==
    ASSUME NEW S, IsFiniteSet(S)
    PROVE  \A x \in S : \E i \in 1..Cardinality(S) : SetToSeq(S)[i] = x
<1> DEFINE n == Cardinality(S)
           f == SetToSeq(S)
<1>1. n \in Nat /\ ExistsBijection(1..n, S)
    BY FS_CardinalityType
<1>2. \E g \in [1..n -> S] : IsInjective(g)
    BY <1>1 DEF ExistsBijection, Bijection, Injection, IsInjective
<1>3. f \in [1..n -> S] /\ IsInjective(f)
    BY <1>2 DEF SetToSeq
<1> HIDE DEF f
<1>4. f \in Injection(1..n, S)
    BY <1>3 DEF Injection, IsInjective
<1>5. Cardinality(1..n) = Cardinality(S)
    <2>1. Cardinality(1..n) = IF 1 > n THEN 0 ELSE n - 1 + 1
        BY <1>1, FS_Interval
    <2> QED BY <2>1, <1>1
<1>6. f \in Surjection(1..n, S)
    BY <1>4, <1>5, FS_Injection
<1> QED BY <1>6 DEF Surjection, f

\* One event for each key of a set.
EachTold(s, K, v) ==
    /\ Len(s) = Cardinality(K)
    /\ \A i \in 1..Cardinality(K) : s[i].id = SetToSeq(K)[i] /\ s[i].val = v

LEMMA AfterKeys ==
    ASSUME NEW K, IsFiniteSet(K), NEW v, NEW m, NEW x,
           NEW S, NEW s \in Seq(S), EachTold(s, K, v)
    PROVE  After(s, m, x) = IF m \in K THEN v ELSE x
<1> DEFINE n == Cardinality(K)
           f == SetToSeq(K)
<1>1. n \in Nat /\ \A i \in 1..n : f[i] \in K
    BY SetToSeqType
<1>2. \A k \in K : \E i \in 1..n : f[i] = k
    BY SetToSeqOnto
<1>3. \A i \in 1..n : s[i].id = f[i] /\ s[i].val = v
    BY DEF EachTold
<1>4. Len(s) = n
    BY DEF EachTold
<1> HIDE DEF f, n
<1>6. CASE m \in K
    <2>1. ~Silent(s, m)
        BY <1>2, <1>3, <1>4, <1>6 DEF Silent
    <2>2. PICK w : Says(s, m, w)
        BY <2>1, SilentOrSays
    <2>3. w = v
        BY <2>2, <1>3, <1>4 DEF Says
    <2> QED BY <1>6, <2>2, <2>3, AfterSays
<1>7. CASE m \notin K
    <2>1. Silent(s, m)
        BY <1>1, <1>3, <1>4, <1>7 DEF Silent
    <2> QED BY <1>7, <2>1, AfterSilent
<1> QED BY <1>6, <1>7

\* ModifierState::sync takes the compositor from the old modifiers to the new.
LEMMA AfterSync ==
    ASSUME NEW old \in SUBSET Modifier, NEW new \in SUBSET Modifier, NEW m, NEW x
    PROVE  After(Sync(old, new), m, x) =
             IF m \in new \ old THEN Pressed ELSE IF m \in old \ new THEN Idle ELSE x
<1> DEFINE up == [i \in 1..Cardinality(old \ new) |-> ReleaseKey(SetToSeq(old \ new)[i])]
           down == [i \in 1..Cardinality(new \ old) |-> PressKey(SetToSeq(new \ old)[i])]
<1>1. IsFiniteSet(old \ new) /\ IsFiniteSet(new \ old)
    <2>1. old \ new \subseteq Modifier /\ new \ old \subseteq Modifier
        OBVIOUS
    <2> QED BY <2>1, FiniteAssumption, FS_Subset
<1>2. Cardinality(old \ new) \in Nat /\ Cardinality(new \ old) \in Nat
    BY <1>1, SetToSeqType
<1>3. /\ up \in Seq(EisEvent) /\ Len(up) = Cardinality(old \ new)
      /\ down \in Seq(EisEvent) /\ Len(down) = Cardinality(new \ old)
    BY SyncParts, Zenon
<1>4. /\ \A i \in 1..Cardinality(old \ new) :
            up[i].id = SetToSeq(old \ new)[i] /\ up[i].val = Idle
      /\ \A i \in 1..Cardinality(new \ old) :
            down[i].id = SetToSeq(new \ old)[i] /\ down[i].val = Pressed
    BY DEF ReleaseKey, PressKey, Event
<1>5. Sync(old, new) = up \o down
    BY DEF Sync
<1> HIDE DEF up, down
<1>6. After(up \o down, m, x) = After(down, m, After(up, m, x))
    BY <1>3, AfterConcat
<1>7. EachTold(up, old \ new, Idle) /\ EachTold(down, new \ old, Pressed)
    BY <1>3, <1>4 DEF EachTold
<1>8. \A y : After(up, m, y) = IF m \in old \ new THEN Idle ELSE y
    BY <1>1, <1>3, <1>7, AfterKeys
<1>9. \A y : After(down, m, y) = IF m \in new \ old THEN Pressed ELSE y
    BY <1>1, <1>3, <1>7, AfterKeys
<1> QED BY <1>5, <1>6, <1>8, <1>9

----------------------------------------------------------------------------
\* What the client's datagrams are about.
Watched == OwnSlot \cup Button \cup Pad

LEMMA IdsApart ==
    /\ Slot \cap Pad = {} /\ Slot \cap Button = {} /\ Pad \cap Button = {}
    /\ \A t \in Slot \cup Button \cup Pad :
         t \notin Key /\ t # NoKey /\ t \notin Modifier /\ t \notin Axis
    /\ Key \cap Modifier = {} /\ Key \cap Axis = {} /\ Modifier \cap Axis = {}
    /\ NoKey \notin Key /\ NoKey \notin Modifier /\ NoKey \notin Axis
<1> DEFINE ids == <<Slot, Pad, Button, Key, {NoKey}, Modifier, Axis>>
<1>1. \A i, j \in 1..7 : i # j => ids[i] \cap ids[j] = {}
    BY IdAssumption
<1>2. /\ ids[1] = Slot /\ ids[2] = Pad /\ ids[3] = Button /\ ids[4] = Key
      /\ ids[5] = {NoKey} /\ ids[6] = Modifier /\ ids[7] = Axis
    OBVIOUS
<1> HIDE DEF ids
<1>3. /\ ids[1] \cap ids[2] = {} /\ ids[1] \cap ids[3] = {} /\ ids[2] \cap ids[3] = {}
      /\ ids[1] \cap ids[4] = {} /\ ids[1] \cap ids[5] = {} /\ ids[1] \cap ids[6] = {}
      /\ ids[1] \cap ids[7] = {}
    BY <1>1
<1>4. /\ ids[2] \cap ids[4] = {} /\ ids[2] \cap ids[5] = {} /\ ids[2] \cap ids[6] = {}
      /\ ids[2] \cap ids[7] = {}
      /\ ids[3] \cap ids[4] = {} /\ ids[3] \cap ids[5] = {} /\ ids[3] \cap ids[6] = {}
      /\ ids[3] \cap ids[7] = {}
    BY <1>1
<1>5. /\ ids[4] \cap ids[5] = {} /\ ids[4] \cap ids[6] = {} /\ ids[4] \cap ids[7] = {}
      /\ ids[5] \cap ids[6] = {} /\ ids[5] \cap ids[7] = {} /\ ids[6] \cap ids[7] = {}
    BY <1>1
<1> QED BY <1>2, <1>3, <1>4, <1>5

\* Two kinds of one finger or gamepad are a state and its end; a button has one.
LEMMA KindsOfOne ==
    ASSUME NEW d \in Datagram, NEW e \in Datagram, d.id = e.id, d.id \in Watched
    PROVE  /\ d.kind \notin Axis
           /\ \/ InputKey(d) = InputKey(e)
              \/ InputKey(d) \in Terminates(e) \/ InputKey(e) \in Terminates(d)
<1> USE IdsApart, SlotAssumption DEF Watched
<1>1. ASSUME NEW f \in Datagram, f.id \in Watched
      PROVE  \/ f.id \in Slot /\ f.kind \in {"Touchscreen", "TouchscreenRelease"}
             \/ f.id \in Pad /\ f.kind \in {"Gamepad", "GamepadDisconnect"}
             \/ f.id \in Button /\ f.kind = "MouseButton"
    BY <1>1 DEF Datagram, Touch, TouchRelease, PadState, PadGone, MouseButton, Keyboard, Motion
<1>2. d.kind \notin Axis
    BY <1>1 DEF Axis
<1>3. CASE d.id \in Slot
    <2>1. /\ d.kind \in {"Touchscreen", "TouchscreenRelease"}
          /\ e.kind \in {"Touchscreen", "TouchscreenRelease"}
        BY <1>1, <1>3
    <2>2. CASE d.kind = e.kind
        BY <2>2, <1>2 DEF InputKey
    <2>3. CASE d.kind # e.kind
        <3>1. \A f : f.kind = "TouchscreenRelease" => Terminates(f) = {<<"Touchscreen", f.id>>}
            BY DEF Terminates
        <3> QED BY <2>1, <2>3, <3>1, <1>2 DEF InputKey
    <2> QED BY <2>2, <2>3
<1>4. CASE d.id \in Pad
    <2>1. /\ d.kind \in {"Gamepad", "GamepadDisconnect"}
          /\ e.kind \in {"Gamepad", "GamepadDisconnect"}
        BY <1>1, <1>4
    <2>2. CASE d.kind = e.kind
        BY <2>2, <1>2 DEF InputKey
    <2>3. CASE d.kind # e.kind
        <3>1. \A f : f.kind = "GamepadDisconnect" => Terminates(f) = {<<"Gamepad", f.id>>}
            BY DEF Terminates
        <3> QED BY <2>1, <2>3, <3>1, <1>2 DEF InputKey
    <2> QED BY <2>2, <2>3
<1>5. CASE d.id \in Button
    BY <1>1, <1>2, <1>5 DEF InputKey
<1> QED BY <1>3, <1>4, <1>5, SlotAssumption

LEMMA TerminatesOwn ==
    ASSUME NEW d, NEW e, InputKey(e) \in Terminates(d)
    PROVE  e.id = d.id
BY DEF Terminates, InputKey

LEMMA AfterWithout ==
    ASSUME NEW buf \in Seq(Datagram), NEW d \in Datagram, NEW t, t # d.id, NEW x
    PROVE  After(Without(buf, Terminates(d)), t, x) = After(buf, t, x)
<1> DEFINE there == {i \in DOMAIN buf : InputKey(buf[i]) \in Terminates(d)}
           r == CHOOSE i \in there : TRUE
<1>1. CASE there = {}
    BY <1>1 DEF Without
<1>2. CASE there # {}
    <2>1. r \in there
        BY <1>2
    <2>2. Without(buf, Terminates(d)) = RemoveAt(buf, r)
        BY <1>2 DEF Without
    <2>3. r \in 1..Len(buf) /\ InputKey(buf[r]) \in Terminates(d)
        BY <2>1
    <2> HIDE DEF r
    <2>4. buf[r].id # t
        BY <2>3, TerminatesOwn
    <2>5. After(RemoveAt(buf, r), t, x) = After(buf, t, x)
        BY <2>3, <2>4, AfterRemove
    <2> QED BY <2>2, <2>5
<1> QED BY <1>1, <1>2

\* Folding a datagram into the buffer leaves what appending it would: an entry it
\* replaces in place has nothing behind it that speaks of the same thing.
LEMMA AfterPush ==
    ASSUME NEW buf \in Seq(Datagram), Ordered(buf), NEW d \in Datagram,
           NEW t \in Watched, NEW x
    PROVE  After(Push(buf, d), t, x) = IF d.id = t THEN d.val ELSE After(buf, t, x)
<1> DEFINE kept == Without(buf, Terminates(d))
           there == At(kept, InputKey(d))
           new == [i \in DOMAIN kept |-> IF i \in there THEN Merge(kept[i], d) ELSE kept[i]]
<1>1. /\ kept \in Seq(Datagram) /\ Ordered(kept)
      /\ \A i \in DOMAIN kept : InputKey(kept[i]) \notin Terminates(d)
    BY WithoutOrdered
<1>2. Push(buf, d) = IF there = {} THEN Append(kept, d) ELSE new
    BY DEF Push
<1>3. d.id # t => After(kept, t, x) = After(buf, t, x)
    BY AfterWithout
<1> HIDE DEF kept
<1>4. CASE there = {}
    <2>1. After(Append(kept, d), t, x) = IF d.id = t THEN d.val ELSE After(kept, t, x)
        BY <1>1, AfterAppend
    <2> QED BY <1>2, <1>3, <1>4, <2>1
<1>5. CASE there # {}
    <2>1. \A i \in DOMAIN kept :
            new[i] \in Datagram /\ InputKey(new[i]) = InputKey(kept[i])
        BY <1>1, MergeType DEF At
    <2>2. DOMAIN kept = 1..Len(kept) /\ Len(kept) \in Nat
        BY <1>1
    <2>3. new \in [1..Len(kept) -> Datagram]
        BY <2>1, <2>2
    <2>4. \A i \in 1..Len(kept) : new[i] = IF i \in there THEN Merge(kept[i], d) ELSE kept[i]
        BY <2>2
    <2>5. there \subseteq 1..Len(kept) /\ \A i \in there : InputKey(kept[i]) = InputKey(d)
        BY <2>2 DEF At
    <2> HIDE DEF new, there
    <2>6. new \in Seq(Datagram) /\ Len(new) = Len(kept)
        BY <2>2, <2>3, FunctionIsSeq
    <2>7. \A i \in 1..Len(kept) : new[i].id = kept[i].id
        BY <2>1, <2>2 DEF InputKey
    <2>8. CASE d.id # t
        <3>1. \A i \in 1..Len(kept) : kept[i].id = t => new[i] = kept[i]
            BY <2>4, <2>5, <2>8 DEF InputKey
        <3>2. After(new, t, x) = After(kept, t, x)
            BY <3>1, <2>6, <2>7, <1>1, AfterSame
        <3> QED BY <3>2, <2>8, <1>2, <1>3, <1>5
    <2>9. CASE d.id = t
        <3>1. PICK i \in there : TRUE
            BY <1>5
        <3>2. i \in 1..Len(kept) /\ InputKey(kept[i]) = InputKey(d) /\ kept[i] \in Datagram
            BY <3>1, <2>5, <1>1
        <3>3. kept[i].kind \notin Axis
            BY <3>2, <2>9, KindsOfOne DEF InputKey
        <3>4. new[i] = d
            BY <3>1, <3>2, <3>3, <2>4 DEF Merge
        <3>5. ASSUME NEW j \in 1..Len(kept), i < j, kept[j].id = t
              PROVE  FALSE
            <4>1. kept[j] \in Datagram /\ i \in DOMAIN kept /\ j \in DOMAIN kept
                BY <3>2, <2>2, <1>1
            <4>2. InputKey(kept[i]) # InputKey(kept[j]) /\ InputKey(kept[i]) \notin Terminates(kept[j])
                BY <4>1, <3>5, <1>1 DEF Ordered
            <4>3. InputKey(kept[j]) \notin Terminates(d)
                BY <4>1, <1>1
            <4>4. \/ InputKey(d) = InputKey(kept[j])
                  \/ InputKey(d) \in Terminates(kept[j]) \/ InputKey(kept[j]) \in Terminates(d)
                BY <4>1, <3>5, <2>9, KindsOfOne
            <4> QED BY <4>2, <4>3, <4>4, <3>2
        <3>6. Says(new, t, d.val)
            BY <3>2, <3>4, <3>5, <2>6, <2>7, <2>9 DEF Says
        <3>7. After(new, t, x) = d.val
            BY <3>6, <2>6, AfterSays
        <3> QED BY <3>7, <2>9, <1>2, <1>5
    <2> QED BY <2>8, <2>9
<1> QED BY <1>4, <1>5

\* Everything on its way, replayed stage by stage.
LEMMA AfterStages ==
    ASSUME NEW c \in Seq(EisEvent), NEW o \in Seq(EisEvent), NEW d \in Seq(Datagram),
           NEW p \in Seq(Datagram), NEW b \in Seq(Datagram), NEW t, NEW x
    PROVE  After(c \o o \o d \o p \o b, t, x) =
             After(b, t, After(p, t, After(d, t, After(o, t, After(c, t, x)))))
<1> DEFINE S == EisEvent \cup Datagram
<1>1. c \in Seq(S) /\ o \in Seq(S) /\ d \in Seq(S) /\ p \in Seq(S) /\ b \in Seq(S)
    BY SeqMonotonic
<1> HIDE DEF S
<1>2. ASSUME NEW u \in Seq(S), NEW v \in Seq(S)
      PROVE  u \o v \in Seq(S) /\ After(u \o v, t, x) = After(v, t, After(u, t, x))
    BY AfterConcat, ConcatProperties
<1> DEFINE co == c \o o
           cod == co \o d
           codp == cod \o p
<1>3. co \in Seq(S) /\ After(co, t, x) = After(o, t, After(c, t, x))
    BY <1>1, <1>2
<1> HIDE DEF co
<1>4. cod \in Seq(S) /\ After(cod, t, x) = After(d, t, After(co, t, x))
    BY <1>1, <1>2, <1>3
<1> HIDE DEF cod
<1>5. codp \in Seq(S) /\ After(codp, t, x) = After(p, t, After(cod, t, x))
    BY <1>1, <1>2, <1>4
<1> HIDE DEF codp
<1>6. After(codp \o b, t, x) = After(b, t, After(codp, t, x))
    BY <1>1, <1>2, <1>5
<1> QED BY <1>3, <1>4, <1>5, <1>6 DEF co, cod, codp

----------------------------------------------------------------------------
\* What the events on their way to the compositor leave a thing at, and what the
\* datagrams behind them make of it.
Ahead(t) == After(outgoing, t, After(channel, t, seat[t]))
Behind(t, x) == After(bus, t, After(pending, t, After(drained, t, x)))

SeatKept == \A t \in Watched : said[t] \in {Lost, Behind(t, Ahead(t))}

\* A finger the task does not count as down will be up: its next position is
\* rightly told as a press, and a lift of it rightly not at all.
FingersKnown == \A s \in OwnSlot \ active : Ahead(s) = Idle

KeysKept ==
    /\ \A m \in Modifier : Ahead(m) = IF m \in mods THEN Pressed ELSE Idle
    /\ \A k \in Key : Ahead(k) = Idle

ReplayInv == Flowing => SeatKept /\ FingersKnown /\ KeysKept

\* A step that leaves the input flowing moves it on or does not touch it.
Untouched ==
    UNCHANGED <<bus, pending, drained, outgoing, channel, seat, said, active, mods, owed>>

LEMMA FlowingStep ==
    ASSUME [Next]_vars, Flowing'
    PROVE  /\ Flowing
           /\ \/ Untouched \/ (\E d \in Datagram : Send(d)) \/ Recv \/ Drain
              \/ ModifierTimeout \/ Dispatch
              \/ SendEvent /\ eis # "ended"
              \/ TakeBatch /\ handle # "removed"
<1> USE DEF Flowing, Untouched, buffers, device, client
<1>1. CASE \E d \in Datagram : Send(d)
    BY <1>1 DEF Send
<1>2. CASE Recv \/ Drain \/ ModifierTimeout
    BY <1>2 DEF Recv, Drain, ModifierTimeout
<1>3. CASE Dispatch
    BY <1>3 DEF Dispatch, HandleTouch, HandleRelease, HandleKey, HandleMotion, HandleButton,
                HandlePad, HandlePadGone, Dispatching
<1>4. CASE SendEvent
    BY <1>4 DEF SendEvent
<1>5. CASE InputCancelled \/ BusClosed \/ InputAborted \/ PadPanics
    BY <1>5 DEF InputCancelled, BusClosed, InputAborted, PadPanics, InputGone
<1>6. CASE DevicesReady \/ DevicePaused \/ WaitOver
    BY <1>6 DEF DevicesReady, DevicePaused, WaitOver, EisUnchanged
<1>7. CASE DeviceRemoved \/ ConnectionLost \/ EisCancelled \/ ChannelClosed
    BY <1>7 DEF DeviceRemoved, ConnectionLost, EisCancelled, ChannelClosed, EisGone
<1>8. CASE TakeBatch
    BY <1>8 DEF TakeBatch
<1>9. CASE Cancel \/ UNCHANGED vars
    BY <1>9 DEF Cancel, vars
<1> QED BY <1>1, <1>2, <1>3, <1>4, <1>5, <1>6, <1>7, <1>8, <1>9 DEF Next, InputStep, EisStep

\* An event that changes hands, and a batch that is applied, leave what the
\* compositor will hold.
LEMMA SendEventAhead ==
    ASSUME TypeOK, SendEvent, eis # "ended", NEW t
    PROVE  Ahead(t)' = Ahead(t)
<1>1. /\ outgoing \in Seq(EisEvent) /\ outgoing # <<>> /\ channel \in Seq(EisEvent)
      /\ channel' = Append(channel, Head(outgoing)) /\ outgoing' = Tail(outgoing)
      /\ seat' = seat
    BY DEF SendEvent, TypeOK
<1>2. Head(outgoing) \in EisEvent
    BY <1>1, HeadTailProperties
<1> DEFINE y == After(channel, t, seat[t])
           h == Head(outgoing)
<1>3. After(channel', t, seat'[t]) = IF h.id = t THEN h.val ELSE y
    BY <1>1, <1>2, AfterAppend
<1>4. After(outgoing, t, y) = After(Tail(outgoing), t, IF h.id = t THEN h.val ELSE y)
    BY <1>1, AfterHead
<1> QED BY <1>1, <1>3, <1>4 DEF Ahead

LEMMA TakeBatchAhead ==
    ASSUME TypeOK, TakeBatch, handle # "removed", NEW t \in Thing
    PROVE  Ahead(t)' = Ahead(t)
<1> DEFINE n == IF Len(channel) < MaxBatch THEN Len(channel) ELSE MaxBatch
           batch == SubSeq(channel, 1, n)
           rest == SubSeq(channel, n + 1, Len(channel))
<1>1. n \in 0..Len(channel) /\ channel \in Seq(EisEvent)
    BY CapAssumption DEF TypeOK
<1>2. channel' = rest /\ seat'[t] = After(batch, t, seat[t]) /\ outgoing' = outgoing
    BY DEF TakeBatch, buffers
<1>3. After(channel, t, seat[t]) = After(rest, t, After(batch, t, seat[t]))
    <2> HIDE DEF n
    <2> QED BY <1>1, AfterSplit
<1> HIDE DEF rest, batch
<1> QED BY <1>2, <1>3 DEF Ahead

\* input_task reads the bus and drains its buffer without changing what they say.
LEMMA RecvBehind ==
    ASSUME IInv, Recv, NEW t \in Watched, NEW x
    PROVE  Behind(t, x)' = Behind(t, x)
<1>1. /\ bus \in Seq(Datagram) /\ bus # <<>> /\ pending \in Seq(Datagram) /\ Ordered(pending)
      /\ pending' = Push(pending, Head(bus)) /\ bus' = Tail(bus) /\ drained' = drained
    BY DEF IInv, TypeOK, PendingOrdered, Ordered, Recv
<1>2. Head(bus) \in Datagram
    BY <1>1, HeadTailProperties
<1> DEFINE h == Head(bus)
           y == After(drained, t, x)
           z == After(pending, t, y)
<1>3. After(Push(pending, h), t, y) = IF h.id = t THEN h.val ELSE z
    BY <1>1, <1>2, AfterPush
<1>4. After(bus, t, z) = After(Tail(bus), t, IF h.id = t THEN h.val ELSE z)
    BY <1>1, AfterHead
<1> QED BY <1>1, <1>3, <1>4 DEF Behind

LEMMA DrainBehind ==
    ASSUME TypeOK, Drain, NEW t, NEW x
    PROVE  Behind(t, x)' = Behind(t, x)
<1>1. PICK n \in 1..Len(pending) :
        /\ drained' = SubSeq(pending, 1, n)
        /\ pending' = SubSeq(pending, n + 1, Len(pending))
    BY DEF Drain
<1>2. n \in 0..Len(pending) /\ pending \in Seq(Datagram) /\ drained = <<>> /\ bus' = bus
    BY DEF Drain, Selecting, TypeOK, client
<1>3. After(pending, t, x) = After(pending', t, After(drained', t, x))
    BY <1>1, <1>2, AfterSplit
<1>4. After(drained, t, x) = x
    BY <1>2, AfterEmpty
<1> QED BY <1>2, <1>3, <1>4 DEF Behind

\* A client that is a bus behind has lost what the oldest datagram said.
LEMMA SendKept ==
    ASSUME TypeOK, SeatKept, NEW d \in Datagram, Send(d)
    PROVE  SeatKept'
<1> DEFINE full == Len(bus) = BusCap
           dropped == IF full THEN <<Head(bus)>> ELSE <<>>
           kept == IF full THEN Tail(bus) ELSE bus
<1>1. /\ bus' = Append(kept, d)
      /\ said' = [t \in DOMAIN said |->
                     IF \E i \in DOMAIN dropped : dropped[i].id = t THEN Lost
                     ELSE IF t = d.id THEN d.val ELSE said[t]]
      /\ UNCHANGED <<pending, drained, outgoing, channel, seat>>
    BY DEF Send, buffers
<1>2. bus \in Seq(Datagram) /\ (full => bus # <<>>) /\ DOMAIN said = Watched
    BY CapAssumption DEF TypeOK, Watched
<1>3. kept \in Seq(Datagram)
    BY <1>2, HeadTailProperties
<1> SUFFICES ASSUME NEW t \in Watched
             PROVE  said'[t] \in {Lost, Behind(t, Ahead(t))'}
    BY DEF SeatKept
<1> DEFINE y == After(pending, t, After(drained, t, Ahead(t)))
<1>4. Behind(t, Ahead(t))' = After(bus', t, y)
    BY <1>1 DEF Behind, Ahead
<1>5. said[t] \in {Lost, After(bus, t, y)}
    BY DEF SeatKept, Behind
<1> HIDE DEF y
<1>6. After(bus', t, y) = IF d.id = t THEN d.val ELSE After(kept, t, y)
    <2> HIDE DEF kept
    <2> QED BY <1>1, <1>3, AfterAppend
<1>7. full /\ Head(bus).id = t => said'[t] = Lost
    BY <1>1, <1>2
<1>8. ~(full /\ Head(bus).id = t) =>
        said'[t] = IF t = d.id THEN d.val ELSE said[t]
    BY <1>1, <1>2
<1>9. ~(full /\ Head(bus).id = t) => After(kept, t, y) = After(bus, t, y)
    BY <1>2, AfterHead
<1> HIDE DEF kept, full
<1> QED BY <1>4, <1>5, <1>6, <1>7, <1>8, <1>9

\* dispatch_input hands a datagram on as events that say the same, or applies it:
\* it looks up in active_slots which event a touch is and whether a lift is one.
LEMMA DispatchAhead ==
    ASSUME TypeOK, FingersKnown, Dispatch, NEW t \in Watched
    PROVE  /\ drained # <<>> /\ drained' = Tail(drained)
           /\ Ahead(t)' = IF Head(drained).id = t THEN Head(drained).val ELSE Ahead(t)
<1> DEFINE d == Head(drained)
           y == After(channel, t, seat[t])
<1> USE IdsApart, SlotAssumption
<1>1. /\ drained # <<>> /\ drained' = Tail(drained) /\ outgoing = <<>> /\ channel' = channel
    BY DEF Dispatch, HandleTouch, HandleRelease, HandleKey, HandleMotion, HandleButton,
           HandlePad, HandlePadGone, Dispatching
<1>2. d \in Datagram /\ channel \in Seq(EisEvent) /\ seat \in [Thing -> Held]
      /\ mods \in SUBSET Modifier /\ t \in Thing
    BY <1>1, HeadTailProperties DEF TypeOK, Watched, Thing
<1>3. Ahead(t) = y
    BY <1>1, AfterEmpty DEF Ahead
<1>4. ASSUME NEW op, outgoing' = <<Event(d.id, op, d.val)>>, seat' = seat
      PROVE  Ahead(t)' = IF d.id = t THEN d.val ELSE y
    <2> DEFINE e == Event(d.id, op, d.val)
    <2>1. e \in {e} /\ e.id = d.id /\ e.val = d.val
        BY DEF Event
    <2>2. Ahead(t)' = After(<<e>>, t, y)
        BY <1>1, <1>4 DEF Ahead
    <2>3. After(<<e>>, t, y) = IF e.id = t THEN e.val ELSE y
        BY AfterTold DEF Event
    <2> QED BY <2>1, <2>2, <2>3
<1>5. ASSUME NEW v, d.id \in Pad, d.val = v, outgoing' = outgoing,
             seat' = [seat EXCEPT ![d.id] = v]
      PROVE  Ahead(t)' = IF d.id = t THEN d.val ELSE y
    <2>1. Ahead(t)' = After(channel, t, seat'[t])
        BY <1>1, <1>5, AfterEmpty DEF Ahead
    <2>2. CASE t = d.id
        <3>1. \A e \in EisEvent : e.id # t
            BY <2>2, <1>5 DEF EisEvent, Event, PressKey, ReleaseKey
        <3>2. Silent(channel, t)
            BY <3>1, <1>2 DEF Silent
        <3>3. After(channel, t, seat'[t]) = seat'[t]
            BY <3>2, <1>2, AfterSilent
        <3>4. seat'[t] = v
            BY <2>2, <1>2, <1>5
        <3> QED BY <2>1, <2>2, <3>3, <3>4, <1>5
    <2>3. CASE t # d.id
        <3>1. seat'[t] = seat[t]
            BY <2>3, <1>2, <1>5
        <3> QED BY <2>1, <2>3, <3>1
    <2> QED BY <2>2, <2>3
<1> HIDE DEF y
<1>6. CASE HandleTouch
    BY <1>3, <1>4, <1>6, <1>1 DEF HandleTouch
<1>7. CASE HandleRelease
    <2>1. d.kind = "TouchscreenRelease" /\ d.id \in Slot /\ d.val = Idle /\ seat' = seat
        BY <1>2, <1>7, DatagramType DEF HandleRelease, Dispatching
    <2>2. CASE d.id \in active
        <3>1. outgoing' = <<Event(d.id, "Up", d.val)>>
            BY <2>1, <2>2, <1>7 DEF HandleRelease
        <3> QED BY <2>1, <3>1, <1>1, <1>3, <1>4
    <2>3. CASE d.id \notin active
        <3>1. Ahead(t)' = Ahead(t)
            BY <2>1, <2>3, <1>1, <1>7 DEF HandleRelease, Ahead
        <3>2. d.id = t => t \in OwnSlot \ active
            BY <2>1, <2>3 DEF Watched
        <3>3. d.id = t => Ahead(t) = d.val
            BY <2>1, <3>2 DEF FingersKnown
        <3> QED BY <3>1, <3>3, <1>1
    <2> QED BY <2>2, <2>3
<1>8. CASE HandleKey
    <2>1. d.id \in Key \cup {NoKey} /\ d.val \in SUBSET Modifier /\ seat' = seat
        BY <1>2, <1>8, DatagramType DEF HandleKey, Dispatching
    <2> DEFINE tap == IF d.id = NoKey THEN <<>> ELSE <<PressKey(d.id), ReleaseKey(d.id)>>
    <2>2. outgoing' = Sync(mods, d.val) \o tap
        BY <1>8 DEF HandleKey
    <2>3. t \notin Modifier /\ t \notin Key /\ t # NoKey
        BY DEF Watched
    <2>4. /\ tap \in Seq(EisEvent) /\ \A z : After(tap, t, z) = z
        <3>1. CASE d.id = NoKey
            BY <3>1, AfterEmpty
        <3>2. CASE d.id # NoKey
            <4>1. PressKey(d.id) \in EisEvent /\ ReleaseKey(d.id) \in EisEvent
                BY <3>2, <2>1 DEF EisEvent
            <4>2. tap \in Seq(EisEvent) /\ Len(tap) = 2
                  /\ tap[1] = PressKey(d.id) /\ tap[2] = ReleaseKey(d.id)
                BY <4>1, <3>2
            <4> HIDE DEF tap
            <4>3. Silent(tap, t)
                BY <4>2, <3>2, <2>1, <2>3 DEF Silent, PressKey, ReleaseKey, Event
            <4> QED BY <4>2, <4>3, AfterSilent
        <3> QED BY <3>1, <3>2
    <2> HIDE DEF tap
    <2>5. Sync(mods, d.val) \in Seq(EisEvent) /\ \A z : After(Sync(mods, d.val), t, z) = z
        BY <1>2, <2>1, <2>3, SyncType, AfterSync
    <2>6. After(Sync(mods, d.val) \o tap, t, y) = After(tap, t, After(Sync(mods, d.val), t, y))
        BY <2>4, <2>5, AfterConcat
    <2>7. Ahead(t)' = After(outgoing', t, y)
        BY <2>1, <1>1 DEF Ahead, y
    <2> QED BY <2>1, <2>2, <2>3, <2>4, <2>5, <2>6, <2>7, <1>1, <1>3
<1>9. CASE HandleMotion \/ HandleButton
    BY <1>3, <1>4, <1>9, <1>1 DEF HandleMotion, HandleButton
<1>10. CASE HandlePad
    <2>1. d.id \in Pad /\ seat' = [seat EXCEPT ![d.id] = d.val] /\ outgoing' = outgoing
        BY <1>2, <1>10, DatagramType DEF HandlePad, Dispatching
    <2> QED BY <2>1, <1>1, <1>3, <1>5
<1>11. CASE HandlePadGone
    <2>1. /\ d.id \in Pad /\ d.val = Idle /\ seat' = [seat EXCEPT ![d.id] = Idle]
          /\ outgoing' = outgoing
        BY <1>2, <1>11, DatagramType DEF HandlePadGone, Dispatching
    <2> QED BY <2>1, <1>1, <1>3, <1>5
<1> QED BY <1>6, <1>7, <1>8, <1>9, <1>10, <1>11 DEF Dispatch

\* The keyboard: a timeout releases what is held, a key event first brings the
\* modifiers to what the client holds; other datagrams say nothing of keys.
LEMMA TapAfter ==
    ASSUME NEW k, NEW t, NEW x
    PROVE  /\ k \in Key => <<PressKey(k), ReleaseKey(k)>> \in Seq(EisEvent)
           /\ k # t => After(<<PressKey(k), ReleaseKey(k)>>, t, x) = x
           /\ After(<<PressKey(k), ReleaseKey(k)>>, k, x) = Idle
<1> DEFINE S == {PressKey(k), ReleaseKey(k)}
           tap == <<PressKey(k), ReleaseKey(k)>>
<1>1. tap \in Seq(S) /\ Len(tap) = 2 /\ tap[1].id = k /\ tap[2].id = k /\ tap[2].val = Idle
    BY DEF PressKey, ReleaseKey, Event
<1>2. k \in Key => PressKey(k) \in EisEvent /\ ReleaseKey(k) \in EisEvent
    BY DEF EisEvent
<1>3. k \in Key => tap \in Seq(EisEvent)
    BY <1>2
<1> HIDE DEF tap, S
<1>4. k # t => Silent(tap, t)
    BY <1>1 DEF Silent
<1>5. Says(tap, k, Idle)
    BY <1>1 DEF Says
<1>6. k # t => After(tap, t, x) = x
    BY <1>1, <1>4, AfterSilent
<1>7. After(tap, k, x) = Idle
    BY <1>1, <1>5, AfterSays
<1> QED BY <1>3, <1>6, <1>7 DEF tap

LEMMA TimeoutAhead ==
    ASSUME TypeOK, ModifierTimeout, NEW t
    PROVE  Ahead(t)' = IF t \in mods THEN Idle ELSE Ahead(t)
<1>1. /\ outgoing = <<>> /\ outgoing' = Sync(mods, {}) /\ UNCHANGED <<channel, seat>>
      /\ mods \in SUBSET Modifier /\ {} \in SUBSET Modifier
    BY DEF ModifierTimeout, Selecting, TypeOK
<1>2. \A x : After(Sync(mods, {}), t, x) = IF t \in mods THEN Idle ELSE x
    BY <1>1, AfterSync
<1> QED BY <1>1, <1>2, AfterEmpty DEF Ahead

LEMMA DispatchKeys ==
    ASSUME TypeOK, KeysKept, Dispatch
    PROVE  KeysKept'
<1> DEFINE d == Head(drained)
           y(t) == After(channel, t, seat[t])
<1> USE IdsApart, SlotAssumption
<1>1. /\ drained # <<>> /\ outgoing = <<>> /\ channel' = channel
    BY DEF Dispatch, HandleTouch, HandleRelease, HandleKey, HandleMotion, HandleButton,
           HandlePad, HandlePadGone, Dispatching
<1>2. d \in Datagram /\ channel \in Seq(EisEvent) /\ seat \in [Thing -> Held]
      /\ mods \in SUBSET Modifier
    BY <1>1, HeadTailProperties DEF TypeOK
<1>3. \A t : Ahead(t) = y(t)
    BY <1>1, AfterEmpty DEF Ahead
<1>4. ASSUME NEW t \in Key \cup Modifier, ~HandleKey
      PROVE  Ahead(t)' = y(t) /\ mods' = mods
    <2>2. CASE HandlePad \/ HandlePadGone
        <3>1. d.id \in Pad
            BY <1>2, <2>2, DatagramType DEF HandlePad, HandlePadGone, Dispatching
        <3>2. seat'[t] = seat[t] /\ outgoing' = <<>> /\ mods' = mods
            BY <2>2, <3>1, <1>1, <1>2, <1>4 DEF HandlePad, HandlePadGone, Thing
        <3> QED BY <3>2, <1>1, AfterEmpty DEF Ahead
    <2>3. CASE HandleTouch \/ HandleRelease \/ HandleMotion \/ HandleButton
        <3>1. d.id \in Slot \cup Button \cup Axis /\ d.id # t
            BY <1>2, <2>3, <1>4, DatagramType
               DEF HandleTouch, HandleRelease, HandleMotion, HandleButton, Dispatching
        <3>2. seat' = seat /\ mods' = mods
            BY <2>3 DEF HandleTouch, HandleRelease, HandleMotion, HandleButton
        <3>3. outgoing' = <<>> \/ \E op, v : outgoing' = <<Event(d.id, op, v)>>
            BY <2>3 DEF HandleTouch, HandleRelease, HandleMotion, HandleButton
        <3>4. \A x : After(outgoing', t, x) = x
            BY <3>1, <3>3, AfterEmpty, AfterTold
        <3> QED BY <3>2, <3>4, <1>1 DEF Ahead
    <2> QED BY <2>2, <2>3, <1>4 DEF Dispatch
<1>5. CASE HandleKey
    <2>1. d.id \in Key \cup {NoKey} /\ d.val \in SUBSET Modifier /\ seat' = seat /\ mods' = d.val
        BY <1>2, <1>5, DatagramType DEF HandleKey, Dispatching
    <2> DEFINE tap == IF d.id = NoKey THEN <<>> ELSE <<PressKey(d.id), ReleaseKey(d.id)>>
    <2>2. outgoing' = Sync(mods, d.val) \o tap
        BY <1>5 DEF HandleKey
    <2>3. /\ tap \in Seq(EisEvent)
          /\ \A t \in Modifier : \A x : After(tap, t, x) = x
          /\ \A t \in Key : After(tap, t, Idle) = Idle
        BY <2>1, TapAfter, AfterEmpty
    <2> HIDE DEF tap
    <2>4. Sync(mods, d.val) \in Seq(EisEvent)
        BY <1>2, <2>1, SyncType
    <2>5. \A t : Ahead(t)' = After(tap, t, After(Sync(mods, d.val), t, y(t)))
        <3> TAKE t
        <3>1. Ahead(t)' = After(outgoing', t, y(t))
            BY <2>1, <1>1 DEF Ahead
        <3>2. After(Sync(mods, d.val) \o tap, t, y(t))
                = After(tap, t, After(Sync(mods, d.val), t, y(t)))
            BY <2>3, <2>4, AfterConcat
        <3> QED BY <3>1, <3>2, <2>2
    <2>6. \A t, x : After(Sync(mods, d.val), t, x) =
                      IF t \in d.val \ mods THEN Pressed
                      ELSE IF t \in mods \ d.val THEN Idle ELSE x
        BY <1>2, <2>1, AfterSync
    <2> HIDE DEF y, d
    <2>7. ASSUME NEW m \in Modifier
          PROVE  Ahead(m)' = IF m \in mods' THEN Pressed ELSE Idle
        <3>1. y(m) = IF m \in mods THEN Pressed ELSE Idle
            BY <1>3 DEF KeysKept
        <3> QED BY <3>1, <2>1, <2>3, <2>5, <2>6
    <2>8. ASSUME NEW k \in Key
          PROVE  Ahead(k)' = Idle
        <3>1. y(k) = Idle
            BY <1>3 DEF KeysKept
        <3>2. k \notin mods /\ k \notin d.val
            BY <1>2, <2>1
        <3> QED BY <3>1, <3>2, <2>3, <2>5, <2>6
    <2> QED BY <2>7, <2>8 DEF KeysKept
<1>6. CASE ~HandleKey
    <2>1. ASSUME NEW m \in Modifier
          PROVE  Ahead(m)' = IF m \in mods' THEN Pressed ELSE Idle
        <3>1. Ahead(m)' = Ahead(m) /\ mods' = mods
            BY <1>3, <1>4, <1>6
        <3> QED BY <3>1 DEF KeysKept
    <2>2. ASSUME NEW k \in Key
          PROVE  Ahead(k)' = Idle
        <3>1. Ahead(k)' = Ahead(k)
            BY <1>3, <1>4, <1>6
        <3> QED BY <3>1 DEF KeysKept
    <2> QED BY <2>1, <2>2 DEF KeysKept
<1> QED BY <1>5, <1>6

----------------------------------------------------------------------------
LEMMA ReplayInit == Init => ReplayInv
<1> SUFFICES ASSUME Init PROVE SeatKept /\ FingersKnown /\ KeysKept
    BY DEF ReplayInv
<1>1. \A t : Ahead(t) = seat[t] /\ Behind(t, Ahead(t)) = seat[t]
    BY AfterEmpty DEF Init, Ahead, Behind
<1>2. \A t \in Thing : seat[t] = Idle
    BY DEF Init
<1>3. \A t \in Watched : t \in Thing /\ said[t] = Idle
    BY DEF Init, Watched, Thing
<1> QED BY <1>1, <1>2, <1>3 DEF SeatKept, FingersKnown, KeysKept, Init, Thing

\* A step that changes neither what is ahead nor what is behind.
LEMMA SameReplay ==
    ASSUME SeatKept, FingersKnown, KeysKept, UNCHANGED <<said, active, mods>>,
           \A t \in Thing : Ahead(t)' = Ahead(t),
           \A t \in Watched : Behind(t, Ahead(t))' = Behind(t, Ahead(t))
    PROVE  SeatKept' /\ FingersKnown' /\ KeysKept'
BY DEF SeatKept, FingersKnown, KeysKept, Thing

LEMMA ReplayStep ==
    ASSUME IInv, ReplayInv, [Next]_vars
    PROVE  ReplayInv'
<1> SUFFICES ASSUME Flowing' PROVE SeatKept' /\ FingersKnown' /\ KeysKept'
    BY DEF ReplayInv
<1> USE DEF buffers, device, client
<1>1. TypeOK /\ SeatKept /\ FingersKnown /\ KeysKept
    BY FlowingStep DEF IInv, ReplayInv
<1>2. \A t \in Watched : t \in Thing
    BY DEF Watched, Thing
<1>3. CASE Untouched
    BY <1>1, <1>3, SameReplay DEF Untouched, Ahead, Behind
<1>4. CASE \E d \in Datagram : Send(d)
    <2>1. UNCHANGED <<channel, outgoing, seat, active, mods>>
        BY <1>4 DEF Send
    <2>2. SeatKept'
        BY <1>1, <1>4, SendKept
    <2> QED BY <1>1, <2>1, <2>2 DEF FingersKnown, KeysKept, Ahead
<1>5. CASE Recv
    <2>1. UNCHANGED <<said, channel, outgoing, seat, active, mods>>
        BY <1>5 DEF Recv
    <2>2. \A t \in Thing : Ahead(t)' = Ahead(t)
        BY <2>1 DEF Ahead
    <2>3. \A t \in Watched : Behind(t, Ahead(t))' = Behind(t, Ahead(t))
        <3> TAKE t \in Watched
        <3>1. ASSUME NEW x PROVE Behind(t, x)' = Behind(t, x)
            BY <1>5, RecvBehind
        <3> QED BY <3>1, <2>2, <1>2 DEF Behind
    <2> QED BY <1>1, <2>1, <2>2, <2>3, SameReplay
<1>6. CASE Drain
    <2>1. UNCHANGED <<said, channel, outgoing, seat, active, mods>>
        BY <1>6 DEF Drain
    <2>2. \A t \in Thing : Ahead(t)' = Ahead(t)
        BY <2>1 DEF Ahead
    <2>3. \A t \in Watched : Behind(t, Ahead(t))' = Behind(t, Ahead(t))
        <3> TAKE t \in Watched
        <3>1. ASSUME NEW x PROVE Behind(t, x)' = Behind(t, x)
            BY <1>1, <1>6, DrainBehind
        <3> QED BY <3>1, <2>2, <1>2 DEF Behind
    <2> QED BY <1>1, <2>1, <2>2, <2>3, SameReplay
<1>7. CASE SendEvent /\ eis # "ended"
    <2>1. UNCHANGED <<said, bus, pending, drained, active, mods>>
        BY <1>7 DEF SendEvent
    <2>2. \A t \in Thing : Ahead(t)' = Ahead(t)
        BY <1>1, <1>7, SendEventAhead
    <2>3. \A t \in Watched : Behind(t, Ahead(t))' = Behind(t, Ahead(t))
        BY <1>2, <2>1, <2>2 DEF Behind
    <2> QED BY <1>1, <2>1, <2>2, <2>3, SameReplay
<1>8. CASE TakeBatch /\ handle # "removed"
    <2>1. UNCHANGED <<said, bus, pending, drained, active, mods>>
        BY <1>8 DEF TakeBatch
    <2>2. \A t \in Thing : Ahead(t)' = Ahead(t)
        BY <1>1, <1>8, TakeBatchAhead
    <2>3. \A t \in Watched : Behind(t, Ahead(t))' = Behind(t, Ahead(t))
        BY <1>2, <2>1, <2>2 DEF Behind
    <2> QED BY <1>1, <2>1, <2>2, <2>3, SameReplay
<1>9. CASE ModifierTimeout
    <2>1. UNCHANGED <<said, bus, pending, drained, active>> /\ mods' = {}
        BY <1>9 DEF ModifierTimeout
    <2>2. \A t : Ahead(t)' = IF t \in mods THEN Idle ELSE Ahead(t)
        BY <1>1, <1>9, TimeoutAhead
    <2>3. mods \subseteq Modifier
        BY <1>1 DEF TypeOK
    <2>4. KeysKept'
        <3>1. \A m \in Modifier : Ahead(m)' = Idle
            BY <1>1, <2>2 DEF KeysKept
        <3>2. \A k \in Key : Ahead(k)' = Idle
            BY <1>1, <2>2 DEF KeysKept
        <3> QED BY <3>1, <3>2, <2>1 DEF KeysKept
    <2>5. \A t \in Watched : Ahead(t)' = Ahead(t)
        BY <2>2, <2>3, IdsApart, SlotAssumption DEF Watched
    <2>6. FingersKnown'
        BY <1>1, <2>1, <2>5 DEF FingersKnown, Watched
    <2>7. SeatKept'
        BY <1>1, <2>1, <2>5 DEF SeatKept, Behind
    <2> QED BY <2>4, <2>6, <2>7
<1>10. CASE Dispatch
    <2> DEFINE d == Head(drained)
    <2>1. UNCHANGED <<said, bus, pending>>
        BY <1>10 DEF Dispatch, HandleTouch, HandleRelease, HandleKey, HandleMotion, HandleButton,
                     HandlePad, HandlePadGone, Dispatching
    <2>2. drained # <<>> /\ drained' = Tail(drained) /\ drained \in Seq(Datagram)
        BY <1>10 DEF Dispatch, HandleTouch, HandleRelease, HandleKey, HandleMotion, HandleButton,
                     HandlePad, HandlePadGone, Dispatching, IInv, TypeOK
    <2>3. \A t \in Watched : Ahead(t)' = IF d.id = t THEN d.val ELSE Ahead(t)
        BY <1>1, <1>10, DispatchAhead
    <2>4. SeatKept'
        <3> SUFFICES ASSUME NEW t \in Watched PROVE said'[t] \in {Lost, Behind(t, Ahead(t))'}
            BY DEF SeatKept
        <3>1. After(drained, t, Ahead(t))
                = After(Tail(drained), t, IF d.id = t THEN d.val ELSE Ahead(t))
            BY <2>2, AfterHead
        <3>2. Behind(t, Ahead(t))' = Behind(t, Ahead(t))
            BY <2>1, <2>2, <2>3, <3>1 DEF Behind
        <3> QED BY <1>1, <2>1, <3>2 DEF SeatKept
    <2>5. FingersKnown'
        <3>1. ASSUME NEW s \in OwnSlot, s \notin active'
              PROVE  Ahead(s)' = Idle
            <4>1. s \in Watched /\ s \in Slot
                BY SlotAssumption DEF Watched
            <4>2. Ahead(s)' = IF d.id = s THEN d.val ELSE Ahead(s)
                BY <2>3, <4>1
            <4>3. CASE d.id # s
                <5>1. s \notin active
                    BY <1>10, <3>1, <4>3 DEF Dispatch, HandleTouch, HandleRelease, HandleKey,
                        HandleMotion, HandleButton, HandlePad, HandlePadGone
                <5> QED BY <1>1, <4>2, <4>3, <5>1 DEF FingersKnown
            <4>4. CASE d.id = s
                <5>1. d \in Datagram
                    BY <2>2, HeadTailProperties
                <5>2. HandleTouch \/ HandleRelease
                    BY <1>10, <4>1, <4>4, <5>1, DatagramType, IdsApart
                       DEF Dispatch, HandleKey, HandleMotion, HandleButton, HandlePad,
                           HandlePadGone, Dispatching
                <5>3. HandleRelease
                    BY <5>2, <3>1, <4>4 DEF HandleTouch
                <5>4. d.val = Idle
                    BY <5>1, <5>3, DatagramType DEF HandleRelease, Dispatching
                <5> QED BY <4>2, <4>4, <5>4
            <4> QED BY <4>3, <4>4
        <3> QED BY <3>1 DEF FingersKnown
    <2> QED BY <1>1, <1>10, <2>4, <2>5, DispatchKeys
<1> QED BY <1>3, <1>4, <1>5, <1>6, <1>7, <1>8, <1>9, <1>10, FlowingStep

THEOREM ReplayInductive == Spec => []ReplayInv
<1>1. IInv /\ ReplayInv /\ [Next]_vars => ReplayInv'
    BY ReplayStep
<1> QED BY Inductive, ReplayInit, <1>1, PTL DEF Spec

\* Whatever is on its way, replayed over what the compositor holds, gives what the
\* client said last of each finger, button and gamepad (InputCoalesce::push,
\* dispatch_input, eis_main): nothing is folded over, doubled or taken out of order.
THEOREM SeatFollowsClient == Spec => []SeatAgrees
<1>1. IInv /\ ReplayInv => SeatAgrees
    <2> SUFFICES ASSUME IInv, ReplayInv, Flowing, NEW t \in DOMAIN said
                 PROVE  said[t] \in {Lost, After(InFlight, t, seat[t])}
        BY DEF SeatAgrees
    <2>1. t \in Watched
        BY DEF IInv, TypeOK, Watched
    <2>2. After(InFlight, t, seat[t]) = Behind(t, Ahead(t))
        BY AfterStages DEF InFlight, Behind, Ahead, IInv, TypeOK
    <2> QED BY <2>1, <2>2 DEF ReplayInv, SeatKept
<1> QED BY Inductive, ReplayInductive, <1>1, PTL

\* The compositor will hold the modifiers ModifierState tracks and no other key,
\* whatever was pressed, released or timed out, and however it was batched
\* (eis_keyboard.rs).
THEOREM KeyboardFollowsTracker == Spec => []KeyboardAgrees
<1>1. IInv /\ ReplayInv => KeyboardAgrees
    <2> SUFFICES ASSUME IInv, ReplayInv, Flowing
                 PROVE  LET sent == channel \o outgoing
                        IN  /\ \A m \in Modifier :
                                 After(sent, m, seat[m]) = IF m \in mods THEN Pressed ELSE Idle
                            /\ \A k \in Key : After(sent, k, seat[k]) = Idle
        BY DEF KeyboardAgrees
    <2>1. \A t : After(channel \o outgoing, t, seat[t]) = Ahead(t)
        BY AfterConcat DEF Ahead, IInv, TypeOK
    <2> QED BY <2>1 DEF ReplayInv, KeysKept
<1> QED BY Inductive, ReplayInductive, <1>1, PTL

----------------------------------------------------------------------------
\* Induction over the numbers, as a fact about sets.
LEMMA Induction ==
    ASSUME NEW P \in SUBSET Nat, 0 \in P, \A n \in P : n + 1 \in P
    PROVE  P = Nat
<1> DEFINE T == Nat \ P
           R == OpToRel(<, Nat)
<1> SUFFICES ASSUME T # {} PROVE FALSE
    OBVIOUS
<1>1. T \subseteq Nat
    OBVIOUS
<1>2. IsWellFoundedOn(R, Nat)
    BY NatLessThanWellFounded
<1>3. \E x \in T : \A y \in T : <<y, x>> \notin R
    <2> HIDE DEF T, R
    <2> QED BY <1>1, <1>2, WFMin
<1>4. PICK x \in T : \A y \in T : <<y, x>> \notin R
    BY <1>3
<1>5. \A y \in T : ~(y < x)
    BY <1>1, <1>4 DEF OpToRel
<1>6. x \in Nat \ {0} /\ x - 1 \in Nat /\ x - 1 < x /\ (x - 1) + 1 = x
    <2>1. x \in Nat /\ x # 0
        BY <1>4
    <2> QED BY <2>1
<1>7. x - 1 \in P
    BY <1>5, <1>6
<1>8. (x - 1) + 1 \in P
    BY <1>7
<1> QED BY <1>4, <1>6, <1>8

\* The running sums of what a sequence moves along an axis.
Sums(f, s, a, n) ==
    /\ f \in [0..n -> Int]
    /\ f[0] = 0
    /\ \A i \in 1..n : f[i] = f[i - 1] + Share(s[i], a)

Moves(S, a) == \A e \in S : Share(e, a) \in Int

LEMMA SumsExist ==
    ASSUME NEW S, NEW a, Moves(S, a), NEW s \in Seq(S)
    PROVE  \E f : Sums(f, s, a, Len(s))
<1> DEFINE P == {n \in Nat : n <= Len(s) => \E f : Sums(f, s, a, n)}
<1>1. Len(s) \in Nat /\ \A i \in 1..Len(s) : Share(s[i], a) \in Int
    BY DEF Moves
<1>2. 0 \in P
    <2>1. Sums([i \in 0..0 |-> 0], s, a, 0)
        BY DEF Sums
    <2> QED BY <2>1
<1>3. ASSUME NEW n \in P
      PROVE  n + 1 \in P
    <2>1. CASE n + 1 <= Len(s)
        <3>1. n \in Nat /\ n <= Len(s)
            BY <2>1, <1>1
        <3>2. PICK f : Sums(f, s, a, n)
            BY <3>1
        <3> DEFINE g == [i \in 0..n + 1 |-> IF i = n + 1 THEN f[n] + Share(s[n + 1], a) ELSE f[i]]
        <3>3. n + 1 \in 1..Len(s) /\ Share(s[n + 1], a) \in Int /\ f[n] \in Int
            BY <3>1, <3>2, <2>1, <1>1 DEF Sums
        <3>4. g \in [0..n + 1 -> Int] /\ g[0] = 0
            BY <3>1, <3>2, <3>3 DEF Sums
        <3>5. ASSUME NEW i \in 1..n + 1
              PROVE  g[i] = g[i - 1] + Share(s[i], a)
            <4>1. CASE i = n + 1
                <5>1. i - 1 = n /\ n \in 0..n + 1 /\ n # n + 1
                    BY <4>1, <3>1
                <5> QED BY <4>1, <5>1
            <4>2. CASE i # n + 1
                <5>1. i \in 1..n /\ i - 1 \in 0..n + 1 /\ i - 1 # n + 1 /\ i \in 0..n + 1
                    BY <4>2, <3>1
                <5> QED BY <4>2, <5>1, <3>2 DEF Sums
            <4> QED BY <4>1, <4>2
        <3> HIDE DEF g
        <3>6. Sums(g, s, a, n + 1)
            BY <3>4, <3>5 DEF Sums
        <3> QED BY <3>1, <3>6
    <2>2. CASE ~(n + 1 <= Len(s))
        BY <2>2
    <2> QED BY <2>1, <2>2
<1>4. P = Nat
    <2>1. P \in SUBSET Nat
        OBVIOUS
    <2> HIDE DEF P
    <2> QED BY <2>1, <1>2, <1>3, Induction
<1>5. Len(s) \in P
    BY <1>1, <1>4
<1> QED BY <1>1, <1>5

LEMMA TotalOf ==
    ASSUME NEW S, NEW a, Moves(S, a), NEW s \in Seq(S), NEW f, Sums(f, s, a, Len(s))
    PROVE  Total(s, a) = f[Len(s)] /\ Total(s, a) \in Int
<1> DEFINE n == Len(s)
           step(g) == [i \in 0..n |-> IF i = 0 THEN 0 ELSE g[i - 1] + Share(s[i], a)]
           sum == CHOOSE g : g = step(g)
<1>1. n \in Nat
    OBVIOUS
<1>2. f = step(f)
    <2>1. ASSUME NEW i \in 0..n
          PROVE  f[i] = IF i = 0 THEN 0 ELSE f[i - 1] + Share(s[i], a)
        <3>1. i # 0 => i \in 1..n
            BY <1>1
        <3> QED BY <3>1 DEF Sums
    <2>2. f = [i \in 0..n |-> f[i]]
        BY DEF Sums
    <2> QED BY <2>1, <2>2
<1>3. sum = step(sum)
    BY <1>2
<1>4. Total(s, a) = sum[n]
    BY DEF Total
<1> HIDE DEF sum
<1>5. sum[0] = 0 /\ \A i \in 1..n : sum[i] = sum[i - 1] + Share(s[i], a)
    <2>1. \A i \in 0..n : sum[i] = IF i = 0 THEN 0 ELSE sum[i - 1] + Share(s[i], a)
        BY <1>3
    <2>2. 0 \in 0..n /\ \A i \in 1..n : i \in 0..n /\ i # 0
        BY <1>1
    <2> HIDE DEF n
    <2> QED BY <2>1, <2>2
<1> DEFINE P == {i \in Nat : i <= n => sum[i] = f[i]}
<1>6. 0 \in P
    BY <1>5 DEF Sums
<1>7. ASSUME NEW i \in P
      PROVE  i + 1 \in P
    <2>1. CASE i + 1 <= n
        <3>1. i <= n /\ i + 1 \in 1..n /\ i + 1 - 1 = i /\ i \in Nat
            BY <2>1, <1>1
        <3>2. sum[i] = f[i]
            BY <3>1
        <3>3. sum[i + 1] = sum[i] + Share(s[i + 1], a)
            BY <3>1, <1>5
        <3>4. f[i + 1] = f[i] + Share(s[i + 1], a)
            BY <3>1 DEF Sums
        <3> QED BY <3>1, <3>2, <3>3, <3>4
    <2>2. CASE ~(i + 1 <= n)
        BY <2>2
    <2> QED BY <2>1, <2>2
<1>8. P = Nat
    <2>1. P \in SUBSET Nat
        OBVIOUS
    <2> HIDE DEF P
    <2> QED BY <2>1, <1>6, <1>7, Induction
<1>9. sum[n] = f[n]
    BY <1>1, <1>8
<1>10. f[n] \in Int
    BY <1>1 DEF Sums
<1> QED BY <1>4, <1>9, <1>10

LEMMA TotalEmpty ==
    ASSUME NEW a
    PROVE  Total(<<>>, a) = 0
<1>1. Sums([i \in 0..0 |-> 0], <<>>, a, 0)
    BY DEF Sums
<1>2. <<>> \in Seq({}) /\ Len(<<>>) = 0 /\ Moves({}, a)
    BY DEF Moves
<1> QED BY <1>1, <1>2, TotalOf

LEMMA TotalConcat ==
    ASSUME NEW S, NEW a, Moves(S, a), NEW s \in Seq(S), NEW t \in Seq(S)
    PROVE  /\ Total(s, a) \in Int /\ Total(t, a) \in Int
           /\ Total(s \o t, a) = Total(s, a) + Total(t, a)
<1> DEFINE m == Len(s)
           n == Len(t)
           c == s \o t
<1>1. PICK f : Sums(f, s, a, m)
    BY SumsExist
<1>2. PICK g : Sums(g, t, a, n)
    BY SumsExist
<1>3. /\ m \in Nat /\ n \in Nat /\ c \in Seq(S) /\ Len(c) = m + n
      /\ \A i \in 1..m : c[i] = s[i]
      /\ \A i \in 1..n : c[m + i] = t[i]
    BY ConcatParts
<1>4. Total(s, a) = f[m] /\ Total(t, a) = g[n] /\ f[m] \in Int /\ g[n] \in Int
    BY <1>1, <1>2, TotalOf
<1> HIDE DEF c
<1> DEFINE h == [i \in 0..m + n |-> IF i <= m THEN f[i] ELSE f[m] + g[i - m]]
<1>5. h \in [0..m + n -> Int]
    <2>1. ASSUME NEW i \in 0..m + n
          PROVE  (IF i <= m THEN f[i] ELSE f[m] + g[i - m]) \in Int
        <3>1. CASE i <= m
            <4>1. i \in 0..m
                BY <3>1, <1>3
            <4> QED BY <4>1, <3>1, <1>1 DEF Sums
        <3>2. CASE ~(i <= m)
            <4>1. i - m \in 0..n
                BY <3>2, <1>3
            <4>2. g[i - m] \in Int
                BY <4>1, <1>2 DEF Sums
            <4> QED BY <4>2, <3>2, <1>4
        <3> QED BY <3>1, <3>2
    <2> QED BY <2>1
<1>6. h[0] = 0
    BY <1>1, <1>3 DEF Sums
<1>7. ASSUME NEW i \in 1..m + n
      PROVE  h[i] = h[i - 1] + Share(c[i], a)
    <2>1. CASE i <= m
        <3>1. i \in 1..m /\ i - 1 \in 0..m + n /\ i \in 0..m + n /\ i - 1 <= m
            BY <2>1, <1>3
        <3> QED BY <2>1, <3>1, <1>1, <1>3 DEF Sums
    <2>2. CASE ~(i <= m)
        <3> DEFINE j == i - m
        <3>1. j \in 1..n /\ m + j = i /\ i \in 0..m + n /\ i - 1 \in 0..m + n
              /\ j - 1 \in 0..n /\ i - 1 - m = j - 1 /\ ~(i <= m)
            BY <2>2, <1>3
        <3>2. h[i] = f[m] + g[j]
            BY <3>1
        <3>3. h[i - 1] = f[m] + g[j - 1]
            <4>1. CASE i - 1 <= m
                <5>1. i - 1 = m /\ j - 1 = 0
                    BY <4>1, <2>2, <1>3
                <5>2. h[i - 1] = f[m] /\ g[j - 1] = 0
                    BY <5>1, <3>1, <1>2 DEF Sums
                <5> QED BY <5>2, <1>4
            <4>2. CASE ~(i - 1 <= m)
                BY <3>1, <4>2
            <4> QED BY <4>1, <4>2
        <3>4. g[j] = g[j - 1] + Share(t[j], a) /\ c[i] = t[j]
            BY <3>1, <1>2, <1>3 DEF Sums
        <3>5. g[j] \in Int /\ g[j - 1] \in Int /\ Share(t[j], a) \in Int
            <4>1. j \in 0..n /\ j - 1 \in 0..n /\ t[j] \in S
                BY <3>1, <1>3
            <4>2. g \in [0..n -> Int]
                BY <1>2 DEF Sums
            <4> HIDE DEF j
            <4>3. g[j] \in Int /\ g[j - 1] \in Int
                BY <4>1, <4>2
            <4> QED BY <4>1, <4>3 DEF Moves
        <3> HIDE DEF h, j
        <3> QED BY <3>2, <3>3, <3>4, <3>5, <1>4
    <2> QED BY <2>1, <2>2
<1>8. h[m + n] = f[m] + g[n]
    <2>1. CASE n = 0
        <3>1. g[n] = 0 /\ m + n = m /\ m \in 0..m + n
            BY <2>1, <1>2, <1>3 DEF Sums
        <3> QED BY <3>1, <1>4
    <2>2. CASE n # 0
        <3>1. ~(m + n <= m) /\ m + n - m = n /\ m + n \in 0..m + n
            BY <2>2, <1>3
        <3> QED BY <3>1
    <2> QED BY <2>1, <2>2
<1> HIDE DEF h
<1>9. Sums(h, c, a, Len(c))
    BY <1>3, <1>5, <1>6, <1>7 DEF Sums
<1>10. Total(c, a) = h[m + n]
    <2>1. c \in Seq(S)
        BY <1>3
    <2>2. Total(c, a) = h[Len(c)]
        BY <2>1, <1>9, TotalOf
    <2> QED BY <2>2, <1>3
<1> QED BY <1>4, <1>8, <1>10 DEF c


LEMMA TotalTold ==
    ASSUME NEW e, NEW a, Share(e, a) \in Int
    PROVE  Total(<<e>>, a) = Share(e, a)
<1> DEFINE s == <<e>>
           f == [i \in 0..1 |-> IF i = 0 THEN 0 ELSE Share(e, a)]
<1>1. s \in Seq({e}) /\ Len(s) = 1 /\ s[1] = e /\ Moves({e}, a)
    BY DEF Moves
<1> HIDE DEF s
<1>2. f \in [0..1 -> Int] /\ f[0] = 0 /\ f[1] = Share(e, a)
    OBVIOUS
<1> HIDE DEF f
<1>3. Sums(f, s, a, 1)
    BY <1>1, <1>2 DEF Sums
<1>4. Total(s, a) = f[Len(s)]
    <2>1. Sums(f, s, a, Len(s)) /\ s \in Seq({e}) /\ Moves({e}, a)
        BY <1>1, <1>3
    <2> QED BY <2>1, TotalOf
<1> QED BY <1>1, <1>2, <1>4 DEF s

LEMMA TotalAppend ==
    ASSUME NEW S, NEW a, Moves(S, a), NEW s \in Seq(S), NEW e \in S
    PROVE  Total(Append(s, e), a) = Total(s, a) + Share(e, a)
<1> DEFINE h == <<e>>
<1>1. Append(s, e) = s \o h /\ h \in Seq(S)
    BY AppendIsConcat
<1>2. Total(h, a) = Share(e, a)
    BY TotalTold DEF Moves
<1> HIDE DEF h
<1>3. Total(s \o h, a) = Total(s, a) + Total(h, a)
    BY <1>1, TotalConcat
<1> QED BY <1>1, <1>2, <1>3

LEMMA TotalSplit ==
    ASSUME NEW S, NEW a, Moves(S, a), NEW s \in Seq(S), NEW n \in 0..Len(s)
    PROVE  LET front == SubSeq(s, 1, n)
               rest  == SubSeq(s, n + 1, Len(s))
           IN  /\ Total(front, a) \in Int /\ Total(rest, a) \in Int
               /\ Total(s, a) = Total(front, a) + Total(rest, a)
<1> DEFINE front == SubSeq(s, 1, n)
           rest  == SubSeq(s, n + 1, Len(s))
<1>1. front \in Seq(S) /\ rest \in Seq(S)
    BY SplitType
<1>2. s = front \o rest
    BY SplitConcat
<1> HIDE DEF front, rest
<1>3. /\ Total(front, a) \in Int /\ Total(rest, a) \in Int
      /\ Total(front \o rest, a) = Total(front, a) + Total(rest, a)
    BY <1>1, TotalConcat
<1> QED BY <1>2, <1>3 DEF front, rest

LEMMA TotalHead ==
    ASSUME NEW S, NEW a, Moves(S, a), NEW s \in Seq(S), s # <<>>
    PROVE  /\ Share(Head(s), a) \in Int /\ Total(Tail(s), a) \in Int
           /\ Total(s, a) = Share(Head(s), a) + Total(Tail(s), a)
<1> DEFINE h == <<Head(s)>>
           r == Tail(s)
<1>1. Head(s) \in S /\ h \in Seq(S) /\ r \in Seq(S) /\ Share(Head(s), a) \in Int
    BY HeadTailProperties DEF Moves
<1>2. s = h \o r
    BY HeadConcat
<1>3. Total(h, a) = Share(Head(s), a)
    BY <1>1, TotalTold
<1> HIDE DEF h, r
<1>4. Total(r, a) \in Int /\ Total(h \o r, a) = Total(h, a) + Total(r, a)
    BY <1>1, TotalConcat
<1> QED BY <1>1, <1>2, <1>3, <1>4 DEF r

\* A sequence of which one entry has changed.
LEMMA TotalChanged ==
    ASSUME NEW S, NEW a, Moves(S, a), NEW s \in Seq(S), NEW t \in Seq(S),
           Len(s) = Len(t), NEW k \in 1..Len(s), \A i \in 1..Len(s) : i # k => t[i] = s[i]
    PROVE  /\ Total(s, a) \in Int
           /\ Total(t, a) = Total(s, a) - Share(s[k], a) + Share(t[k], a)
<1> DEFINE n == Len(s)
           add == Share(t[k], a) - Share(s[k], a)
<1>1. PICK f : Sums(f, s, a, n)
    BY SumsExist
<1>2. n \in Nat /\ Share(t[k], a) \in Int /\ Share(s[k], a) \in Int /\ add \in Int /\ k \in 1..n
    BY DEF Moves
<1> DEFINE h == [i \in 0..n |-> IF i < k THEN f[i] ELSE f[i] + add]
<1>3. f \in [0..n -> Int] /\ f[0] = 0 /\ \A i \in 1..n : f[i] = f[i - 1] + Share(s[i], a)
    BY <1>1 DEF Sums
<1> HIDE DEF add
<1>4. h \in [0..n -> Int] /\ h[0] = 0
    BY <1>2, <1>3
<1>5. ASSUME NEW i \in 1..n
      PROVE  h[i] = h[i - 1] + Share(t[i], a)
    <2>1. /\ i \in 0..n /\ i - 1 \in 0..n /\ f[i] = f[i - 1] + Share(s[i], a)
          /\ f[i] \in Int /\ f[i - 1] \in Int
        BY <1>2, <1>3
    <2>2. CASE i < k
        <3>1. t[i] = s[i] /\ i - 1 < k
            BY <2>2, <1>2
        <3> QED BY <2>1, <2>2, <3>1
    <2>3. CASE i = k
        <3>1. h[i] = f[i] + add /\ h[i - 1] = f[i - 1]
            BY <2>1, <2>3, <1>2
        <3> QED BY <2>1, <2>3, <3>1, <1>2 DEF add
    <2>4. CASE i > k
        <3>1. t[i] = s[i] /\ ~(i - 1 < k) /\ ~(i < k)
            BY <2>4, <1>2
        <3>2. h[i] = f[i] + add /\ h[i - 1] = f[i - 1] + add
            BY <2>1, <3>1
        <3>3. Share(s[i], a) \in Int
            <4>1. s[i] \in S
                BY <2>1
            <4> QED BY <4>1 DEF Moves
        <3> HIDE DEF h
        <3> QED BY <2>1, <3>1, <3>2, <3>3, <1>2, SMTT(40)
    <2> QED BY <2>2, <2>3, <2>4, <1>2
<1>6. h[n] = f[n] + add /\ f[n] \in Int
    BY <1>2, <1>3
<1> HIDE DEF h, n
<1>7. Sums(f, s, a, Len(s)) /\ Sums(h, t, a, Len(t))
    BY <1>1, <1>4, <1>5 DEF Sums, n
<1>8. Total(s, a) = f[Len(s)] /\ Total(t, a) = h[Len(t)]
    BY <1>7, TotalOf
<1> QED BY <1>2, <1>6, <1>8 DEF n, add

LEMMA TotalRemove ==
    ASSUME NEW S, NEW a, Moves(S, a), NEW s \in Seq(S), NEW r \in 1..Len(s),
           Share(s[r], a) = 0
    PROVE  Total(RemoveAt(s, r), a) = Total(s, a)
<1> DEFINE u == SubSeq(s, 1, r - 1)
           v == SubSeq(s, r + 1, Len(s))
           w == SubSeq(s, 1, r)
<1>1. Len(s) \in Nat /\ r \in 0..Len(s) /\ s[r] \in S
    OBVIOUS
<1>2. u \in Seq(S) /\ w \in Seq(S) /\ v \in Seq(S) /\ w = Append(u, s[r])
    BY RemoveParts
<1>3. RemoveAt(s, r) = u \o v
    BY DEF RemoveAt
<1>4. /\ Total(w, a) \in Int /\ Total(v, a) \in Int
      /\ Total(s, a) = Total(w, a) + Total(v, a)
    BY <1>1, TotalSplit
<1> HIDE DEF u, v, w
<1>5. Total(Append(u, s[r]), a) = Total(u, a) + Share(s[r], a)
    BY <1>1, <1>2, TotalAppend
<1>6. Total(u \o v, a) = Total(u, a) + Total(v, a) /\ Total(u, a) \in Int
    BY <1>2, TotalConcat
<1> QED BY <1>2, <1>3, <1>4, <1>5, <1>6

\* What moves along an axis carries a number; nothing else is named like an axis.
LEMMA DatagramMoves ==
    ASSUME NEW a \in Axis
    PROVE  /\ Moves(Datagram, a)
           /\ \A d \in Datagram : d.id = a => d.kind \in Axis /\ d.val \in Int
           /\ \A d \in Datagram : d.kind \notin Axis => Share(d, a) = 0
<1>1. -MaxDelta..MaxDelta \subseteq Int
    BY CapAssumption
<1>2. ASSUME NEW d \in Datagram
      PROVE  /\ d.kind \in Axis => d.id \in Axis /\ d.val \in Int
             /\ d.id \in Axis => d.kind \in Axis
    <2>1. d.kind \in Axis => d.id \in Axis /\ d.val \in -MaxDelta..MaxDelta
        BY DatagramType
    <2>2. d.id \in Axis => d.kind \in Axis
        BY IdsApart DEF Datagram, Touch, TouchRelease, PadState, PadGone, MouseButton, Keyboard,
                        Motion
    <2> QED BY <1>1, <2>1, <2>2
<1>3. \A d \in Datagram : d.id = a => d.kind \in Axis /\ d.val \in Int
    BY <1>2
<1> QED BY <1>3 DEF Moves, Share

LEMMA EventMoves ==
    ASSUME NEW a \in Axis
    PROVE  Moves(EisEvent, a)
<1>1. -MaxDelta..MaxDelta \subseteq Int
    BY CapAssumption
<1>2. ASSUME NEW e \in EisEvent, e.id = a
      PROVE  e.val \in Int
    BY <1>1, <1>2, IdsApart DEF EisEvent, Event, PressKey, ReleaseKey
<1> QED BY <1>2 DEF Moves, Share

\* Events about keys move nothing.
LEMMA TotalNone ==
    ASSUME NEW S, NEW a, \A e \in S : Share(e, a) = 0, NEW s \in Seq(S)
    PROVE  Total(s, a) = 0
<1> DEFINE f == [i \in 0..Len(s) |-> 0]
<1>1. Moves(S, a)
    BY DEF Moves
<1>2. Len(s) \in Nat /\ \A i \in 1..Len(s) : s[i] \in S
    OBVIOUS
<1>3. Sums(f, s, a, Len(s)) /\ f[Len(s)] = 0
    BY <1>2 DEF Sums
<1> HIDE DEF f
<1> QED BY <1>1, <1>3, TotalOf

LEMMA TotalWithout ==
    ASSUME NEW a \in Axis, NEW buf \in Seq(Datagram), NEW d \in Datagram
    PROVE  Total(Without(buf, Terminates(d)), a) = Total(buf, a)
<1> DEFINE there == {i \in DOMAIN buf : InputKey(buf[i]) \in Terminates(d)}
           r == CHOOSE i \in there : TRUE
<1>1. CASE there = {}
    BY <1>1 DEF Without
<1>2. CASE there # {}
    <2>1. r \in there
        BY <1>2
    <2>2. Without(buf, Terminates(d)) = RemoveAt(buf, r)
        BY <1>2 DEF Without
    <2>3. r \in 1..Len(buf) /\ InputKey(buf[r]) \in Terminates(d)
        BY <2>1
    <2> HIDE DEF r
    <2>4. buf[r] \in Datagram /\ buf[r].kind \in {"Touchscreen", "Gamepad"}
        BY <2>3 DEF Terminates, InputKey
    <2>5. Share(buf[r], a) = 0
        BY <2>4, DatagramMoves DEF Axis
    <2>6. Total(RemoveAt(buf, r), a) = Total(buf, a)
        BY <2>3, <2>5, DatagramMoves, TotalRemove
    <2> QED BY <2>2, <2>6
<1> QED BY <1>1, <1>2

\* Folding adds up: the buffer moves by what is folded in, but for what is clipped.
LEMMA TotalPush ==
    ASSUME NEW a \in Axis, NEW buf \in Seq(Datagram), Ordered(buf), NEW d \in Datagram
    PROVE  /\ Total(buf, a) \in Int /\ Share(d, a) \in Int /\ Clipped(buf, d, a) \in Int
           /\ Total(Push(buf, d), a) = Total(buf, a) + Share(d, a) - Clipped(buf, d, a)
<1> DEFINE kept == Without(buf, Terminates(d))
           there == At(kept, InputKey(d))
           new == [i \in DOMAIN kept |-> IF i \in there THEN Merge(kept[i], d) ELSE kept[i]]
           clip == Clipped(buf, d, a)
<1>1. kept \in Seq(Datagram) /\ Ordered(kept)
    BY WithoutOrdered
<1>2. Push(buf, d) = IF there = {} THEN Append(kept, d) ELSE new
    BY DEF Push
<1>3. Total(kept, a) = Total(buf, a)
    BY TotalWithout
<1>4. Moves(Datagram, a) /\ Share(d, a) \in Int /\ (d.id = a => d.kind \in Axis /\ d.val \in Int)
    BY DatagramMoves DEF Moves
<1>5. Total(buf, a) \in Int
    BY <1>4, TotalConcat
<1>6. d.id = a => kept = buf
    <2>1. d.id = a => Terminates(d) = {}
        BY <1>4 DEF Terminates, Axis
    <2> QED BY <2>1 DEF Without
<1>7. d.id # a => clip = 0 /\ Share(d, a) = 0
    BY DEF Clipped, Share
<1> HIDE DEF kept
<1>8. CASE there = {}
    <2>1. clip = 0
        BY <1>6, <1>7, <1>8 DEF Clipped
    <2>2. Total(Append(kept, d), a) = Total(kept, a) + Share(d, a)
        BY <1>1, <1>4, TotalAppend
    <2> QED BY <1>2, <1>3, <1>4, <1>5, <1>8, <2>1, <2>2
<1>9. CASE there # {}
    <2> DEFINE k == CHOOSE i \in there : TRUE
               sum == kept[k].val + d.val
    <2>1. k \in there
        BY <1>9
    <2>2. DOMAIN kept = 1..Len(kept) /\ Len(kept) \in Nat
        BY <1>1
    <2>3. \A i \in DOMAIN kept :
            new[i] \in Datagram /\ InputKey(new[i]) = InputKey(kept[i])
        BY <1>1, MergeType DEF At
    <2>4. new \in [1..Len(kept) -> Datagram]
        BY <2>2, <2>3
    <2>5. \A i \in 1..Len(kept) : new[i] = IF i \in there THEN Merge(kept[i], d) ELSE kept[i]
        BY <2>2
    <2>6. /\ there \subseteq 1..Len(kept)
          /\ \A i \in there : InputKey(kept[i]) = InputKey(d)
        BY <2>2 DEF At
    <2>7. d.id = a => clip = sum - Saturate(sum)
        BY <1>6, <1>9 DEF Clipped
    <2> HIDE DEF new, there, k
    <2>8. k \in 1..Len(kept) /\ InputKey(kept[k]) = InputKey(d) /\ kept[k] \in Datagram
        BY <2>1, <2>6, <1>1
    <2>9. \A i \in 1..Len(kept) : i # k => new[i] = kept[i]
        <3> SUFFICES ASSUME NEW i \in 1..Len(kept), i # k, i \in there PROVE FALSE
            BY <2>5
        <3>1. InputKey(kept[i]) = InputKey(kept[k])
            BY <2>6, <2>8
        <3>2. i \in DOMAIN kept /\ k \in DOMAIN kept /\ (i < k \/ k < i)
            BY <2>2, <2>8
        <3> QED BY <3>1, <3>2, <1>1 DEF Ordered
    <2>10. new \in Seq(Datagram) /\ Len(new) = Len(kept)
        BY <2>2, <2>4, FunctionIsSeq
    <2>11. Total(new, a) = Total(kept, a) - Share(kept[k], a) + Share(new[k], a)
        BY <1>1, <1>4, <2>8, <2>9, <2>10, TotalChanged
    <2>12. kept[k].id = d.id /\ kept[k].kind = d.kind /\ new[k].id = d.id
        BY <2>2, <2>3, <2>8 DEF InputKey
    <2>13. CASE d.id # a
        <3>1. Share(kept[k], a) = 0 /\ Share(new[k], a) = 0
            BY <2>12, <2>13 DEF Share
        <3> QED BY <1>2, <1>3, <1>5, <1>7, <1>9, <2>11, <2>13, <3>1
    <2>14. CASE d.id = a
        <3>1. /\ kept[k].val \in Int /\ d.val \in Int /\ d.kind \in Axis
            BY <1>4, <2>8, <2>12, <2>14, DatagramMoves
        <3>2. new[k] = [kept[k] EXCEPT !.val = Saturate(@ + d.val)]
            BY <2>1, <2>5, <2>8, <2>12, <3>1 DEF Merge
        <3>3. new[k].val = Saturate(sum)
            <4>1. \A x \in Datagram : \A v : [x EXCEPT !.val = v].val = v
                BY DEF Datagram, Touch, TouchRelease, PadState, PadGone, MouseButton, Keyboard,
                       Motion
            <4> QED BY <3>2, <4>1, <2>8
        <3>4. sum \in Int /\ Saturate(sum) \in Int
            BY <3>1, CapAssumption DEF Saturate
        <3>5. /\ Share(kept[k], a) = kept[k].val /\ Share(new[k], a) = Saturate(sum)
              /\ Share(d, a) = d.val
            BY <2>12, <2>14, <3>3 DEF Share
        <3>6. clip = sum - Saturate(sum)
            BY <2>7, <2>14
        <3> DEFINE x == kept[k].val
                   y == Saturate(sum)
        <3>7. x \in Int /\ y \in Int /\ d.val \in Int /\ clip = (x + d.val) - y
            BY <3>1, <3>4, <3>6
        <3> HIDE DEF clip, sum
        <3>8. Total(new, a) = Total(buf, a) - x + y
            BY <2>11, <3>5, <1>3
        <3> HIDE DEF x, y
        <3>9. Push(buf, d) = new
            BY <1>2, <1>9
        <3>10. Total(new, a) = Total(buf, a) + d.val - clip /\ clip \in Int
            BY <1>5, <3>7, <3>8, SMTT(40)
        <3> QED BY <3>5, <3>7, <3>9, <3>10, <1>5 DEF clip
    <2> QED BY <2>13, <2>14
<1> QED BY <1>8, <1>9

----------------------------------------------------------------------------
\* The motion on its way, stage by stage.
Stages(a) ==
    Total(channel, a) + Total(outgoing, a) + Total(drained, a) + Total(pending, a)
    + Total(bus, a)

OwedKept == \A a \in Axis : owed[a] = Stages(a)

MotionInv == Flowing => OwedKept

LEMMA TotalsType ==
    ASSUME TypeOK, NEW a \in Axis
    PROVE  /\ Total(channel, a) \in Int /\ Total(outgoing, a) \in Int
           /\ Total(drained, a) \in Int /\ Total(pending, a) \in Int /\ Total(bus, a) \in Int
<1>1. Moves(EisEvent, a) /\ Moves(Datagram, a)
    BY EventMoves, DatagramMoves
<1>2. \A s \in Seq(EisEvent) : Total(s, a) \in Int
    BY <1>1, TotalConcat
<1>3. \A s \in Seq(Datagram) : Total(s, a) \in Int
    BY <1>1, TotalConcat
<1> QED BY <1>2, <1>3 DEF TypeOK

LEMMA StagesTotal ==
    ASSUME TypeOK, NEW a \in Axis
    PROVE  Total(InFlight, a) = Stages(a)
<1> DEFINE S == EisEvent \cup Datagram
           co == channel \o outgoing
           cod == co \o drained
           codp == cod \o pending
<1>1. Moves(S, a)
    BY EventMoves, DatagramMoves DEF Moves
<1>2. /\ channel \in Seq(S) /\ outgoing \in Seq(S) /\ drained \in Seq(S)
      /\ pending \in Seq(S) /\ bus \in Seq(S)
    BY SeqMonotonic DEF TypeOK
<1> HIDE DEF S
<1>3. ASSUME NEW u \in Seq(S), NEW v \in Seq(S)
      PROVE  u \o v \in Seq(S) /\ Total(u \o v, a) = Total(u, a) + Total(v, a)
    BY <1>1, TotalConcat, ConcatProperties
<1>4. co \in Seq(S) /\ Total(co, a) = Total(channel, a) + Total(outgoing, a)
    BY <1>2, <1>3
<1> HIDE DEF co
<1>5. cod \in Seq(S) /\ Total(cod, a) = Total(co, a) + Total(drained, a)
    BY <1>2, <1>3, <1>4
<1> HIDE DEF cod
<1>6. codp \in Seq(S) /\ Total(codp, a) = Total(cod, a) + Total(pending, a)
    BY <1>2, <1>3, <1>5
<1> HIDE DEF codp
<1>7. Total(codp \o bus, a) = Total(codp, a) + Total(bus, a)
    BY <1>2, <1>3, <1>6
<1>8. InFlight = codp \o bus
    BY DEF InFlight, codp, cod, co
<1> QED BY <1>4, <1>5, <1>6, <1>7, <1>8 DEF Stages

\* What each step does with the motion on its way.
LEMMA SendOwed ==
    ASSUME TypeOK, NEW d \in Datagram, Send(d), OwedKept
    PROVE  OwedKept'
<1> DEFINE full == Len(bus) = BusCap
           dropped == IF full THEN <<Head(bus)>> ELSE <<>>
           kept == IF full THEN Tail(bus) ELSE bus
<1> SUFFICES ASSUME NEW a \in Axis PROVE owed'[a] = Stages(a)'
    BY DEF OwedKept
<1>1. /\ bus' = Append(kept, d)
      /\ owed'[a] = owed[a] - Total(dropped, a) + Total(<<d>>, a)
      /\ UNCHANGED <<pending, drained, outgoing, channel>>
    BY DEF Send, buffers
<1>2. bus \in Seq(Datagram) /\ (full => bus # <<>>)
    BY CapAssumption DEF TypeOK
<1>3. Moves(Datagram, a) /\ Share(d, a) \in Int
    BY DatagramMoves DEF Moves
<1>4. kept \in Seq(Datagram)
    BY <1>2, HeadTailProperties
<1>5. /\ Total(dropped, a) \in Int /\ Total(kept, a) \in Int
      /\ Total(bus, a) = Total(dropped, a) + Total(kept, a)
    <2>1. CASE full
        <3>1. /\ Share(Head(bus), a) \in Int /\ Total(Tail(bus), a) \in Int
              /\ Total(bus, a) = Share(Head(bus), a) + Total(Tail(bus), a)
            BY <1>2, <1>3, <2>1, TotalHead
        <3>2. Total(<<Head(bus)>>, a) = Share(Head(bus), a)
            BY <3>1, TotalTold
        <3> QED BY <2>1, <3>1, <3>2
    <2>2. CASE ~full
        BY <2>2, TotalsType, TotalEmpty
    <2> QED BY <2>1, <2>2
<1> HIDE DEF kept, dropped, full
<1>6. Total(<<d>>, a) = Share(d, a)
    BY <1>3, TotalTold
<1>7. Total(bus', a) = Total(kept, a) + Share(d, a)
    BY <1>1, <1>3, <1>4, TotalAppend
<1>8. owed[a] = Stages(a)
    BY DEF OwedKept
<1> QED BY <1>1, <1>3, <1>5, <1>6, <1>7, <1>8, TotalsType, SMTT(40) DEF Stages

LEMMA RecvOwed ==
    ASSUME IInv, Recv, OwedKept
    PROVE  OwedKept'
<1> SUFFICES ASSUME NEW a \in Axis PROVE owed'[a] = Stages(a)'
    BY DEF OwedKept
<1> DEFINE h == Head(bus)
<1>1. /\ bus \in Seq(Datagram) /\ bus # <<>> /\ pending \in Seq(Datagram) /\ Ordered(pending)
      /\ pending' = Push(pending, h) /\ bus' = Tail(bus)
      /\ owed'[a] = owed[a] - Clipped(pending, h, a)
      /\ UNCHANGED <<drained, outgoing, channel>>
    BY DEF IInv, TypeOK, PendingOrdered, Ordered, Recv
<1>2. h \in Datagram
    BY <1>1, HeadTailProperties
<1> HIDE DEF h
<1>3. /\ Share(h, a) \in Int /\ Clipped(pending, h, a) \in Int
      /\ Total(Push(pending, h), a) = Total(pending, a) + Share(h, a) - Clipped(pending, h, a)
    BY <1>1, <1>2, TotalPush
<1>4. Total(Tail(bus), a) \in Int /\ Total(bus, a) = Share(h, a) + Total(Tail(bus), a)
    BY <1>1, DatagramMoves, TotalHead DEF h
<1>5. owed[a] = Stages(a) /\ TypeOK
    BY DEF OwedKept, IInv
<1> QED BY <1>1, <1>3, <1>4, <1>5, TotalsType, SMTT(40) DEF Stages

LEMMA DrainOwed ==
    ASSUME TypeOK, Drain, OwedKept
    PROVE  OwedKept'
<1> SUFFICES ASSUME NEW a \in Axis PROVE owed'[a] = Stages(a)'
    BY DEF OwedKept
<1>1. PICK n \in 1..Len(pending) :
        /\ drained' = SubSeq(pending, 1, n)
        /\ pending' = SubSeq(pending, n + 1, Len(pending))
    BY DEF Drain
<1>2. /\ n \in 0..Len(pending) /\ pending \in Seq(Datagram) /\ drained = <<>>
      /\ UNCHANGED <<bus, outgoing, channel, owed>>
    BY DEF Drain, Selecting, TypeOK, client
<1>3. /\ Total(drained', a) \in Int /\ Total(pending', a) \in Int
      /\ Total(pending, a) = Total(drained', a) + Total(pending', a)
    BY <1>1, <1>2, DatagramMoves, TotalSplit
<1>4. owed[a] = Stages(a) /\ Total(drained, a) = 0
    BY <1>2, TotalEmpty DEF OwedKept
<1> QED BY <1>2, <1>3, <1>4, TotalsType DEF Stages

LEMMA SendEventOwed ==
    ASSUME TypeOK, SendEvent, eis # "ended", OwedKept
    PROVE  OwedKept'
<1> SUFFICES ASSUME NEW a \in Axis PROVE owed'[a] = Stages(a)'
    BY DEF OwedKept
<1> DEFINE h == Head(outgoing)
<1>1. /\ outgoing \in Seq(EisEvent) /\ outgoing # <<>> /\ channel \in Seq(EisEvent)
      /\ channel' = Append(channel, h) /\ outgoing' = Tail(outgoing)
      /\ UNCHANGED <<bus, drained, pending, owed>>
    BY DEF SendEvent, TypeOK, client
<1>2. h \in EisEvent
    BY <1>1, HeadTailProperties
<1>3. /\ Share(h, a) \in Int /\ Total(Tail(outgoing), a) \in Int
      /\ Total(outgoing, a) = Share(h, a) + Total(Tail(outgoing), a)
    BY <1>1, EventMoves, TotalHead
<1> HIDE DEF h
<1>4. Total(Append(channel, h), a) = Total(channel, a) + Share(h, a)
    BY <1>1, <1>2, EventMoves, TotalAppend
<1>5. owed[a] = Stages(a)
    BY DEF OwedKept
<1> QED BY <1>1, <1>3, <1>4, <1>5, TotalsType DEF Stages

LEMMA TakeBatchOwed ==
    ASSUME TypeOK, TakeBatch, handle # "removed", OwedKept
    PROVE  OwedKept'
<1> DEFINE n == IF Len(channel) < MaxBatch THEN Len(channel) ELSE MaxBatch
           batch == SubSeq(channel, 1, n)
<1> SUFFICES ASSUME NEW a \in Axis PROVE owed'[a] = Stages(a)'
    BY DEF OwedKept
<1>1. n \in 0..Len(channel) /\ channel \in Seq(EisEvent)
    BY CapAssumption DEF TypeOK
<1>2. /\ channel' = SubSeq(channel, n + 1, Len(channel))
      /\ owed'[a] = owed[a] - Total(batch, a)
      /\ UNCHANGED <<bus, outgoing, drained, pending>>
    BY DEF TakeBatch, buffers, client
<1> HIDE DEF n
<1>3. /\ Total(batch, a) \in Int /\ Total(channel', a) \in Int
      /\ Total(channel, a) = Total(batch, a) + Total(channel', a)
    BY <1>1, <1>2, EventMoves, TotalSplit
<1>4. owed[a] = Stages(a)
    BY DEF OwedKept
<1> HIDE DEF batch
<1> QED BY <1>2, <1>3, <1>4, TotalsType, SMTT(40) DEF Stages

\* Releasing and pressing modifiers, and tapping a key, move nothing.
LEMMA SyncMoves ==
    ASSUME NEW a \in Axis, NEW old \in SUBSET Modifier, NEW new \in SUBSET Modifier
    PROVE  Total(Sync(old, new), a) = 0
<1> DEFINE up == [i \in 1..Cardinality(old \ new) |-> ReleaseKey(SetToSeq(old \ new)[i])]
           down == [i \in 1..Cardinality(new \ old) |-> PressKey(SetToSeq(new \ old)[i])]
           S == {PressKey(k) : k \in Modifier} \cup {ReleaseKey(k) : k \in Modifier}
<1>1. IsFiniteSet(old \ new) /\ IsFiniteSet(new \ old)
    <2>1. old \ new \subseteq Modifier /\ new \ old \subseteq Modifier
        OBVIOUS
    <2> QED BY <2>1, FiniteAssumption, FS_Subset
<1>2. up \in Seq(S)
    <2>1. /\ Cardinality(old \ new) \in Nat
          /\ \A i \in 1..Cardinality(old \ new) : SetToSeq(old \ new)[i] \in Modifier
        BY <1>1, SetToSeqType
    <2>2. up \in [1..Cardinality(old \ new) -> S]
        BY <2>1
    <2> HIDE DEF up, S
    <2> QED BY <2>1, <2>2, FunctionIsSeq
<1>3. down \in Seq(S)
    <2>1. /\ Cardinality(new \ old) \in Nat
          /\ \A i \in 1..Cardinality(new \ old) : SetToSeq(new \ old)[i] \in Modifier
        BY <1>1, SetToSeqType
    <2>2. down \in [1..Cardinality(new \ old) -> S]
        BY <2>1
    <2> HIDE DEF down, S
    <2> QED BY <2>1, <2>2, FunctionIsSeq
<1>4. \A e \in S : Share(e, a) = 0
    BY IdsApart DEF Share, PressKey, ReleaseKey, Event
<1>5. Sync(old, new) = up \o down
    BY DEF Sync
<1> HIDE DEF up, down, S
<1>6. up \o down \in Seq(S)
    BY <1>2, <1>3, ConcatProperties
<1> QED BY <1>4, <1>5, <1>6, TotalNone

LEMMA TimeoutOwed ==
    ASSUME TypeOK, ModifierTimeout, OwedKept
    PROVE  OwedKept'
<1> SUFFICES ASSUME NEW a \in Axis PROVE owed'[a] = Stages(a)'
    BY DEF OwedKept
<1>1. /\ outgoing = <<>> /\ outgoing' = Sync(mods, {})
      /\ mods \in SUBSET Modifier /\ {} \in SUBSET Modifier
      /\ UNCHANGED <<bus, channel, drained, pending, owed>>
    BY DEF ModifierTimeout, Selecting, TypeOK, client
<1>2. Total(outgoing', a) = 0 /\ Total(outgoing, a) = 0
    BY <1>1, SyncMoves, TotalEmpty
<1>3. owed[a] = Stages(a)
    BY DEF OwedKept
<1> QED BY <1>1, <1>2, <1>3 DEF Stages

\* A handler hands on the motion of its datagram, and no other.
LEMMA DispatchTotal ==
    ASSUME TypeOK, Dispatch, NEW a \in Axis
    PROVE  /\ Head(drained) \in Datagram
           /\ Total(outgoing', a) = Share(Head(drained), a)
<1> DEFINE d == Head(drained)
<1>1. /\ drained # <<>> /\ drained \in Seq(Datagram) /\ outgoing = <<>>
      /\ mods \in SUBSET Modifier
    BY DEF Dispatch, HandleTouch, HandleRelease, HandleKey, HandleMotion, HandleButton,
           HandlePad, HandlePadGone, Dispatching, TypeOK
<1>2. d \in Datagram
    BY <1>1, HeadTailProperties
<1>3. Total(<<>>, a) = 0 /\ Share(d, a) \in Int
    BY <1>2, TotalEmpty, DatagramMoves DEF Moves
<1>4. d.kind \notin Axis => Share(d, a) = 0
    BY <1>2, DatagramMoves
<1>5. Total(<<Event(d.id, "Set", d.val)>>, a) = Share(d, a)
    BY <1>3, TotalTold DEF Share, Event
<1>7. d.id = a => d.kind \in Axis
    BY <1>2, DatagramMoves
<1>8. CASE HandleMotion
    <2>1. outgoing' = <<Event(d.id, "Set", d.val)>>
        BY <1>8 DEF HandleMotion
    <2> QED BY <1>2, <1>5, <2>1
<1>9. CASE HandleTouch \/ HandleRelease \/ HandleButton
    <2>1. d.kind \notin Axis
        BY <1>9 DEF HandleTouch, HandleRelease, HandleButton, Dispatching, Axis
    <2>2. outgoing' = <<>> \/ \E e : outgoing' = <<e>> /\ e.id = d.id
        BY <1>9 DEF HandleTouch, HandleRelease, HandleButton, Event
    <2>3. ASSUME NEW e, outgoing' = <<e>>, e.id = d.id
          PROVE  Total(outgoing', a) = Share(d, a)
        <3>1. Share(e, a) = 0
            BY <1>7, <2>1, <2>3 DEF Share
        <3>2. Total(<<e>>, a) = Share(e, a)
            BY <3>1, TotalTold
        <3> QED BY <1>4, <2>1, <2>3, <3>1, <3>2
    <2> QED BY <1>2, <1>3, <1>4, <2>1, <2>2, <2>3
<1>10. CASE HandlePad \/ HandlePadGone
    BY <1>1, <1>3, <1>4, <1>10 DEF HandlePad, HandlePadGone, Dispatching, Axis
<1>11. CASE HandleKey
    <2> DEFINE tap == <<PressKey(d.id), ReleaseKey(d.id)>>
               tail == IF d.id = NoKey THEN <<>> ELSE tap
               sync == Sync(mods, d.val)
    <2>1. d.kind = "Keyboard" /\ outgoing' = sync \o tail
        BY <1>11 DEF HandleKey, Dispatching
    <2>2. d.val \in SUBSET Modifier /\ d.id \in Key \cup {NoKey} /\ d.kind \notin Axis
        BY <1>2, <2>1, DatagramType DEF Axis
    <2>3. sync \in Seq(EisEvent) /\ Total(sync, a) = 0
        BY <1>1, <2>2, SyncType, SyncMoves
    <2>4. tail \in Seq(EisEvent) /\ Total(tail, a) = 0
        <3>1. CASE d.id = NoKey
            BY <1>3, <3>1
        <3>2. CASE d.id # NoKey
            <4> DEFINE S == {PressKey(d.id), ReleaseKey(d.id)}
            <4>1. d.id \in Key /\ tap \in Seq(S)
                BY <2>2, <3>2
            <4>2. tap \in Seq(EisEvent)
                BY <4>1, TapAfter
            <4>3. \A e \in S : Share(e, a) = 0
                BY <4>1, IdsApart DEF Share, PressKey, ReleaseKey, Event
            <4> HIDE DEF S, tap
            <4>4. Total(tap, a) = 0
                BY <4>1, <4>3, TotalNone
            <4> QED BY <3>2, <4>2, <4>4
        <3> QED BY <3>1, <3>2
    <2> HIDE DEF sync, tail
    <2>5. Total(sync \o tail, a) = Total(sync, a) + Total(tail, a)
        BY <2>3, <2>4, EventMoves, TotalConcat
    <2> QED BY <1>2, <1>4, <2>1, <2>2, <2>3, <2>4, <2>5
<1> QED BY <1>2, <1>8, <1>9, <1>10, <1>11 DEF Dispatch

LEMMA DispatchOwed ==
    ASSUME TypeOK, Dispatch, OwedKept
    PROVE  OwedKept'
<1> SUFFICES ASSUME NEW a \in Axis PROVE owed'[a] = Stages(a)'
    BY DEF OwedKept
<1> DEFINE d == Head(drained)
<1>1. /\ drained # <<>> /\ drained' = Tail(drained) /\ outgoing = <<>>
      /\ drained \in Seq(Datagram) /\ UNCHANGED <<bus, pending, channel, owed>>
    BY DEF Dispatch, HandleTouch, HandleRelease, HandleKey, HandleMotion, HandleButton,
           HandlePad, HandlePadGone, Dispatching, TypeOK, client
<1>2. Total(outgoing', a) = Share(d, a) /\ Total(outgoing, a) = 0
    BY <1>1, DispatchTotal, TotalEmpty
<1>3. /\ Share(d, a) \in Int /\ Total(drained', a) \in Int
      /\ Total(drained, a) = Share(d, a) + Total(drained', a)
    BY <1>1, DatagramMoves, TotalHead
<1>4. owed[a] = Stages(a)
    BY DEF OwedKept
<1> HIDE DEF d
<1> QED BY <1>1, <1>2, <1>3, <1>4, TotalsType DEF Stages

LEMMA MotionStep ==
    ASSUME IInv, MotionInv, [Next]_vars
    PROVE  MotionInv'
<1> SUFFICES ASSUME Flowing' PROVE OwedKept'
    BY DEF MotionInv
<1>1. TypeOK /\ OwedKept
    BY FlowingStep DEF IInv, MotionInv
<1>2. CASE Untouched
    BY <1>1, <1>2 DEF Untouched, OwedKept, Stages
<1>3. CASE \E d \in Datagram : Send(d)
    BY <1>1, <1>3, SendOwed
<1>4. CASE Recv \/ Drain
    BY <1>1, <1>4, RecvOwed, DrainOwed
<1>5. CASE ModifierTimeout \/ Dispatch
    BY <1>1, <1>5, TimeoutOwed, DispatchOwed
<1>6. CASE SendEvent /\ eis # "ended"
    BY <1>1, <1>6, SendEventOwed
<1>7. CASE TakeBatch /\ handle # "removed"
    BY <1>1, <1>7, TakeBatchOwed
<1> QED BY <1>2, <1>3, <1>4, <1>5, <1>6, <1>7, FlowingStep

\* However deltas are folded, deferred, dispatched and batched, what the client
\* sent and the compositor has not yet been given is what is on its way, but for
\* what the bus dropped and the width of the field clipped (InputCoalesce::merge,
\* dispatch_input, eis_main).
THEOREM MotionIsConserved == Spec => []MotionConserved
<1>1. Init => MotionInv
    BY TotalEmpty DEF Init, MotionInv, OwedKept, Stages
<1>2. IInv /\ MotionInv /\ [Next]_vars => MotionInv'
    BY MotionStep
<1>3. IInv /\ MotionInv => MotionConserved
    BY StagesTotal DEF IInv, MotionInv, OwedKept, MotionConserved
<1> QED BY Inductive, <1>1, <1>2, <1>3, PTL DEF Spec

=============================================================================
