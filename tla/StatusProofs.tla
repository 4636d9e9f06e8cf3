---------------------------- MODULE StatusProofs ----------------------------
(***************************************************************************)
(* Proofs about StatusFanout. A message is under way until the consumer in *)
(* question has read it, and the last message under way that names a field *)
(* carries what Moonraker last said of it (LastSaid). A consumer is        *)
(* therefore right about every field that nothing under way names, once a  *)
(* snapshot of the live subscription has reached it (StoreOK, CockpitOK).  *)
(***************************************************************************)
EXTENDS StatusFanout, FiniteSetTheorems, SequenceTheorems, TLAPS

\* What Moonraker last put on the socket about f.
Raw(f) == IF f \in garbled THEN Bad ELSE base[f]

Names(w, f) == \E i \in 1 .. Len(w) : f \in DOMAIN w[i].d

\* The last message of w that names f says v.
Says(w, f, v) ==
  \A i \in 1 .. Len(w) :
    f \in DOMAIN w[i].d /\ (\A j \in 1 .. Len(w) : j > i => f \notin DOMAIN w[j].d)
      => w[i].d[f] = v

MsgOK(m) ==
  /\ m \in Message
  /\ DOMAIN m.d \subseteq Field
  /\ \A f \in DOMAIN m.d : m.d[f] \in Value[f] \cup {Bad}
  /\ m.k \in {"open", "lost", "refused", "idle"} => DOMAIN m.d = {}
  /\ m.k = "snap" => DOMAIN m.d = Field

\* The message in onmessage, and the consumers it has passed without a throw.
CurOK ==
  /\ MsgOK(cur)
  /\ at # 0 => cur.k \in {"snap", "delta"} /\ at <= Len(Route(cur))
  /\ cur.k = "delta" => \A f \in DOMAIN cur.d : cur.d[f] = Bad =>
       at <= 5 /\ (f = "job" => at <= 2) /\ (f = "fan" => at <= 3)
       /\ (f = "temp" => at <= 4)

WireOK ==
  /\ \A i \in 1 .. Len(wire) : MsgOK(wire[i]) /\ wire[i].k # "idle"
  /\ ~link => ~sub /\ Len(wire) <= 1

LastSaid ==
  \A f \in Field :
    /\ Says(wire, f, Raw(f))
    /\ sub /\ at # 0 /\ f \in DOMAIN cur.d /\ ~Names(wire, f) => cur.d[f] = Raw(f)

\* The store is first on every route: it has read cur when at is past 1.
StoreOK ==
  sub /\ seeded => \A f \in Field :
    Names(wire, f) \/ (at = 1 /\ f \in DOMAIN cur.d) \/ data[f] = Said(f)

\* The cockpit is last on every route.
Reached(f) == f \notin lost /\ ~Names(wire, f) /\ ~(at # 0 /\ f \in DOMAIN cur.d)

CockpitOK ==
  sub =>
    /\ Reached("job")   => home.job = base.job
    /\ Reached("temp")  => home.temp = base.temp
    /\ Reached("layer") /\ base.layer # Null => home.layer = base.layer
    /\ Reached("fan")   => label.fan = base.fan

\* The texts on the glass follow the cache and the render shadows.
GlassOK ==
  /\ rend.temp # None => label.home = rend.temp /\ label.temps = rend.temp
  /\ "temp" \notin lost => label.home = home.temp
  /\ "fan" \notin lost /\ rend.fan # None => label.fan = rend.fan
  /\ "layer" \notin lost /\ home.job = "printing" => label.layer = home.layer

\* Every handshake the screen starts was set off by the first connection or
\* by a fault.
Opens(w) == Cardinality({i \in 1 .. Len(w) : w[i].k = "open"})

CountOK ==
  /\ asked + Opens(wire) + budget.faults <= 1 + MaxFaults
  /\ ~link => asked + Opens(wire) + budget.faults <= MaxFaults

\* StatusTypeOK by owner.
KlipOK ==
  /\ klip \in [Field -> Anything] /\ base \in [Field -> Anything]
  /\ \A f \in Field : klip[f] \in Value[f] /\ base[f] \in Value[f]
  /\ garbled \subseteq Field

SocketOK ==
  /\ sub \in BOOLEAN /\ link \in BOOLEAN
  /\ asked \in 0 .. 1 + MaxFaults
  /\ wire \in Seq(Message) /\ Len(wire) <= MaxWire + 2

BudgetOK ==
  budget \in [changes : 0 .. MaxChanges, faults : 0 .. MaxFaults,
              garbled : 0 .. MaxGarbled]

CursorOK ==
  /\ cur \in Message /\ at \in 0 .. Len(notify_consumers)
  /\ (cur = Event("idle")) <=> (at = 0)

DataOK == data \in [Field -> Anything] /\ seeded \in BOOLEAN

CacheOK ==
  /\ home \in [job : Value.job, temp : Value.temp \cup {None},
               layer : Value.layer \cup {None}]
  /\ rend \in [temp : Value.temp \cup {None}, fan : Value.fan \cup {None}]
  /\ label \in [home : Value.temp \cup {None}, temps : Value.temp \cup {None},
                fan : Value.fan \cup {None}, layer : Value.layer \cup {None}]
  /\ lost \subseteq Field

IInv == /\ KlipOK /\ SocketOK /\ BudgetOK /\ CursorOK /\ DataOK /\ CacheOK
        /\ CurOK /\ WireOK /\ LastSaid /\ StoreOK /\ CockpitOK /\ GlassOK /\ CountOK
-----------------------------------------------------------------------------
(* Values and messages *)

LEMMA ValueFacts ==
  /\ Value["job"] = {"standby", "printing", "paused"}
  /\ Value["temp"] = {"cold", "hot"} /\ Value["fan"] = {"off", "on"}
  /\ Value["layer"] = {Null, "1"}
  BY DEF Value

LEMMA ValuesAreAnything ==
  /\ \A f \in Field : Value[f] \subseteq Anything
  /\ \A f \in Field : Bad \notin Value[f] /\ None \notin Value[f]
  /\ {Null, Bad, None} \subseteq Anything
<1>1. \A f \in Field : Value[f] \in {Value[g] : g \in Field}
  OBVIOUS
<1>2. \A f \in Field : Value[f] \subseteq Anything
  BY <1>1 DEF Anything
<1>3. \A f \in Field : Bad \notin Value[f] /\ None \notin Value[f]
  BY ValueFacts DEF Field, Null, Bad, None
<1>4. {Null, Bad, None} \subseteq Anything
  <2> DEFINE U == UNION {Value[f] : f \in Field}
  <2>1. Anything = U \cup {Null, Bad, None}
    BY DEF Anything
  <2> HIDE DEF U
  <2> QED BY <2>1
<1> QED BY <1>2, <1>3, <1>4

LEMMA RestingIs ==
  Resting \in [Field -> Anything] /\ \A f \in Field : Resting[f] \in Value[f]
<1>1. \A f \in Field : Resting[f] \in Value[f]
  BY ValueFacts DEF Resting, Field, Null
<1>2. DOMAIN Resting = Field
  BY DEF Resting, Field
<1> QED BY <1>1, <1>2, ValuesAreAnything DEF Resting

LEMMA EventOK ==
  ASSUME NEW k \in {"idle", "open", "lost", "refused"}
  PROVE  MsgOK(Event(k)) /\ Event(k).k = k /\ DOMAIN Event(k).d = {}
<1>1. DOMAIN <<>> = {} /\ <<>> \in [{} -> Anything]
  OBVIOUS
<1>2. <<>> \in Partial
  BY <1>1 DEF Partial
<1>3. Event(k).d = <<>> /\ Event(k).k = k /\ Event(k) \in Message
  BY <1>2 DEF Event, Message
<1> QED BY <1>1, <1>3 DEF MsgOK

LEMMA StatusOK ==
  ASSUME NEW k \in {"snap", "delta"}, NEW D \in SUBSET Field, NEW d,
         d \in [D -> Anything], \A f \in D : d[f] \in Value[f] \cup {Bad},
         k = "snap" => D = Field
  PROVE  MsgOK(Status(k, d)) /\ Status(k, d).k = k /\ Status(k, d).d = d
<1>1. d \in Partial
  BY DEF Partial
<1>2. Status(k, d).d = d /\ Status(k, d).k = k /\ Status(k, d) \in Message
  BY <1>1 DEF Status, Message
<1> QED BY <1>2 DEF MsgOK
-----------------------------------------------------------------------------
(* The messages on the socket *)

LEMMA AppendNames ==
  ASSUME NEW w \in Seq(Message), NEW m \in Message, NEW f
  PROVE  Names(Append(w, m), f) <=> Names(w, f) \/ f \in DOMAIN m.d
<1>1. /\ Len(Append(w, m)) = Len(w) + 1 /\ Len(w) \in Nat
      /\ Append(w, m)[Len(w) + 1] = m
      /\ \A i \in 1 .. Len(w) : Append(w, m)[i] = w[i]
  BY AppendProperties, LenProperties
<1> QED BY <1>1 DEF Names

LEMMA AppendSays ==
  ASSUME NEW w \in Seq(Message), NEW m \in Message, NEW f, NEW v,
         f \notin DOMAIN m.d => Says(w, f, v),
         f \in DOMAIN m.d => m.d[f] = v
  PROVE  Says(Append(w, m), f, v)
<1> DEFINE x == Append(w, m)
           n == Len(w)
<1>1. /\ Len(x) = n + 1 /\ n \in Nat /\ x[n + 1] = m
      /\ \A i \in 1 .. n : x[i] = w[i]
  BY AppendProperties, LenProperties
<1> HIDE DEF x, n
<1>2. SUFFICES ASSUME NEW i \in 1 .. n + 1, f \in DOMAIN x[i].d,
                      \A j \in 1 .. n + 1 : j > i => f \notin DOMAIN x[j].d
               PROVE  x[i].d[f] = v
  BY <1>1 DEF Says, x
<1>3. CASE i = n + 1
  BY <1>1, <1>2, <1>3
<1>4. CASE i \in 1 .. n
  <2>1. f \notin DOMAIN m.d
    BY <1>1, <1>2, <1>4
  <2>2. f \in DOMAIN w[i].d /\ \A j \in 1 .. n : j > i => f \notin DOMAIN w[j].d
    BY <1>1, <1>2, <1>4
  <2>3. w[i].d[f] = v
    BY <1>4, <2>1, <2>2 DEF Says, n
  <2> QED BY <1>1, <1>4, <2>3
<1> QED BY <1>1, <1>3, <1>4

LEMMA TailWire ==
  ASSUME NEW w \in Seq(Message), w # <<>>
  PROVE  /\ Len(w) \in Nat \ {0} /\ Head(w) = w[1] /\ Head(w) \in Message
         /\ Tail(w) \in Seq(Message) /\ Len(Tail(w)) = Len(w) - 1
         /\ \A i \in 1 .. Len(w) - 1 : Tail(w)[i] = w[i + 1]
  BY HeadTailProperties, LenProperties, EmptySeq

LEMMA TailNames ==
  ASSUME NEW w \in Seq(Message), w # <<>>, NEW f
  PROVE  Names(w, f) <=> Names(Tail(w), f) \/ f \in DOMAIN Head(w).d
<1> DEFINE t == Tail(w)
           n == Len(w)
<1>1. /\ n \in Nat \ {0} /\ Head(w) = w[1] /\ Len(t) = n - 1
      /\ \A i \in 1 .. n - 1 : t[i] = w[i + 1]
  BY TailWire
<1> HIDE DEF t, n
<1>2. \A i \in 1 .. n : i = 1 \/ (i - 1 \in 1 .. n - 1 /\ w[i] = t[i - 1])
  BY <1>1
<1>3. \A i \in 1 .. n - 1 : i + 1 \in 1 .. n
  BY <1>1
<1>4. Names(w, f) => Names(t, f) \/ f \in DOMAIN Head(w).d
  BY <1>1, <1>2 DEF Names, n
<1>5. Names(t, f) => Names(w, f)
  BY <1>1, <1>3 DEF Names, n
<1>6. f \in DOMAIN Head(w).d => Names(w, f)
  BY <1>1 DEF Names, n
<1> QED BY <1>4, <1>5, <1>6 DEF t

LEMMA TailSays ==
  ASSUME NEW w \in Seq(Message), w # <<>>, NEW f, NEW v, Says(w, f, v)
  PROVE  /\ Says(Tail(w), f, v)
         /\ f \in DOMAIN Head(w).d /\ ~Names(Tail(w), f) => Head(w).d[f] = v
<1> DEFINE t == Tail(w)
           n == Len(w)
<1>1. /\ n \in Nat \ {0} /\ Head(w) = w[1] /\ Len(t) = n - 1
      /\ \A i \in 1 .. n - 1 : t[i] = w[i + 1]
  BY TailWire
<1> HIDE DEF t, n
<1>2. \A j \in 1 .. n : j = 1 \/ (j - 1 \in 1 .. n - 1 /\ w[j] = t[j - 1])
  BY <1>1
<1>3. ASSUME NEW i \in 1 .. n - 1, f \in DOMAIN t[i].d,
             \A j \in 1 .. n - 1 : j > i => f \notin DOMAIN t[j].d
      PROVE  t[i].d[f] = v
  <2>1. i + 1 \in 1 .. n /\ t[i] = w[i + 1]
    BY <1>1
  <2>2. ASSUME NEW j \in 1 .. n, j > i + 1 PROVE f \notin DOMAIN w[j].d
    <3>1. j - 1 \in 1 .. n - 1 /\ w[j] = t[j - 1] /\ j - 1 > i
      BY <1>1, <1>2, <2>2
    <3> QED BY <1>3, <3>1
  <2>3. w[i + 1].d[f] = v
    BY <1>3, <2>1, <2>2 DEF Says, n
  <2> QED BY <2>1, <2>3
<1>4. ASSUME f \in DOMAIN w[1].d, ~Names(t, f) PROVE w[1].d[f] = v
  <2>1. \A j \in 1 .. n : j > 1 => f \notin DOMAIN w[j].d
    BY <1>1, <1>2, <1>4, SMTT(30) DEF Names
  <2>2. 1 \in 1 .. n
    BY <1>1
  <2> QED BY <1>4, <2>1, <2>2 DEF Says, n
<1>5. Says(t, f, v)
  BY <1>1, <1>3 DEF Says
<1> QED BY <1>1, <1>4, <1>5 DEF t

LEMMA OpensFinite ==
  ASSUME NEW w \in Seq(Message)
  PROVE  IsFiniteSet({i \in 1 .. Len(w) : w[i].k = "open"}) /\ Opens(w) \in Nat
<1> DEFINE S == {i \in 1 .. Len(w) : w[i].k = "open"}
<1>1. IsFiniteSet(1 .. Len(w))
  BY LenProperties, FS_Interval
<1>2. IsFiniteSet(S)
  BY <1>1, FS_Subset
<1> QED BY <1>2, FS_CardinalityType DEF Opens

LEMMA AppendOpens ==
  ASSUME NEW w \in Seq(Message), NEW m \in Message
  PROVE  Opens(Append(w, m)) = Opens(w) + (IF m.k = "open" THEN 1 ELSE 0)
<1> DEFINE x == Append(w, m)
           n == Len(w)
           S == {i \in 1 .. n : w[i].k = "open"}
           T == {i \in 1 .. Len(x) : x[i].k = "open"}
<1>1. /\ Len(x) = n + 1 /\ n \in Nat /\ x[n + 1] = m
      /\ \A i \in 1 .. n : x[i] = w[i]
  BY AppendProperties, LenProperties
<1>2. IsFiniteSet(S) /\ Cardinality(S) \in Nat
  BY OpensFinite DEF Opens
<1>3. n + 1 \notin S
  BY <1>1
<1>4. CASE m.k = "open"
  <2>1. T = S \cup {n + 1}
    BY <1>1, <1>4
  <2>2. Cardinality(S \cup {n + 1}) = Cardinality(S) + 1
    BY <1>2, <1>3, FS_AddElement
  <2> QED BY <1>4, <2>1, <2>2 DEF Opens
<1>5. CASE m.k # "open"
  <2>1. T = S
    BY <1>1, <1>5
  <2>2. Opens(x) = Cardinality(T) /\ Opens(w) = Cardinality(S)
    BY DEF Opens
  <2> HIDE DEF S, T, x
  <2>3. Opens(x) = Opens(w) + 0
    BY <1>2, <2>1, <2>2
  <2> QED BY <1>5, <2>3 DEF x
<1> QED BY <1>4, <1>5

LEMMA TailOpens ==
  ASSUME NEW w \in Seq(Message), w # <<>>
  PROVE  Opens(w) = Opens(Tail(w)) + (IF Head(w).k = "open" THEN 1 ELSE 0)
<1> DEFINE t == Tail(w)
           n == Len(w)
           S == {i \in 1 .. n : w[i].k = "open"}
           T == {i \in 1 .. Len(t) : t[i].k = "open"}
           f == [i \in T |-> i + 1]
<1>1. /\ n \in Nat \ {0} /\ Head(w) = w[1] /\ Len(t) = n - 1
      /\ \A i \in 1 .. n - 1 : t[i] = w[i + 1]
  BY TailWire
<1>2. IsFiniteSet(S) /\ Cardinality(S) \in Nat /\ IsFiniteSet(T)
      /\ Cardinality(T) \in Nat
  BY OpensFinite, TailWire DEF Opens
<1>3. \A i \in T : i \in 1 .. n - 1 /\ i + 1 \in S \ {1}
  BY <1>1
<1>4. \A j \in S \ {1} : j - 1 \in T
  BY <1>1
<1> HIDE DEF S, T
<1>5. f \in Bijection(T, S \ {1})
  <2>1. f \in [T -> S \ {1}]
    BY <1>3
  <2>2. \A i, j \in T : f[i] = f[j] => i = j
    BY <1>3
  <2>3. \A j \in S \ {1} : j \in Int
    BY DEF S
  <2>4. \A j \in S \ {1} : \E i \in T : f[i] = j
    BY <1>4, <2>3
  <2> QED BY <2>1, <2>2, <2>4 DEF Bijection, Injection, Surjection, IsInjective
<1>6. Cardinality(S \ {1}) = Cardinality(T)
  BY <1>2, <1>5, FS_Bijection DEF ExistsBijection
<1>7. Cardinality(S \ {1}) = IF 1 \in S THEN Cardinality(S) - 1 ELSE Cardinality(S)
  BY <1>2, FS_RemoveElement
<1>8. 1 \in S <=> Head(w).k = "open"
  BY <1>1 DEF S
<1>9. Opens(w) = Cardinality(S) /\ Opens(Tail(w)) = Cardinality(T)
  BY DEF Opens, S, T
<1> QED BY <1>2, <1>6, <1>7, <1>8, <1>9
-----------------------------------------------------------------------------
(* The steps of Klipper, Moonraker and the UI thread *)

LEMMA TypeParts ==
  StatusTypeOK <=> /\ KlipOK /\ SocketOK /\ BudgetOK /\ CursorOK
                   /\ DataOK /\ CacheOK
  BY DEF StatusTypeOK, KlipOK, SocketOK, BudgetOK, CursorOK, DataOK, CacheOK

\* Steps outside the screen leave its side of the invariant alone.
LEMMA ScreenKept ==
  ASSUME IInv, UNCHANGED <<cur, at, screen>>
  PROVE  CursorOK' /\ DataOK' /\ CacheOK' /\ CurOK' /\ GlassOK'
<1>1. CursorOK /\ DataOK /\ CacheOK /\ CurOK /\ GlassOK
  BY DEF IInv
<1>2. CursorOK' /\ DataOK' /\ CacheOK'
  BY <1>1 DEF CursorOK, DataOK, CacheOK, screen
<1>3. CurOK'
  BY <1>1 DEF CurOK
<1>4. GlassOK'
  BY <1>1 DEF GlassOK, screen
<1> QED BY <1>2, <1>3, <1>4

\* A message goes out on the socket. It says what Moonraker now stands for,
\* and of the fields it does not name Moonraker stands for the same as before.
LEMMA MessageSent ==
  ASSUME IInv, UNCHANGED <<cur, at, screen>>, NEW m, MsgOK(m), m.k # "idle",
         wire' = Append(wire, m), sub' => sub \/ m.k = "snap",
         \A f \in Field \ DOMAIN m.d : base'[f] = base[f] /\ (f \in garbled' <=> f \in garbled),
         \A f \in DOMAIN m.d : m.d[f] = Raw(f)'
  PROVE  /\ wire' \in Seq(Message) /\ Len(wire') = Len(wire) + 1
         /\ \A i \in 1 .. Len(wire') : MsgOK(wire'[i]) /\ wire'[i].k # "idle"
         /\ Opens(wire') = Opens(wire) + (IF m.k = "open" THEN 1 ELSE 0)
         /\ LastSaid' /\ StoreOK' /\ CockpitOK'
<1>0. /\ wire \in Seq(Message) /\ m \in Message /\ DOMAIN m.d \subseteq Field
      /\ m.k = "snap" => DOMAIN m.d = Field
  BY DEF IInv, SocketOK, MsgOK
<1>1. /\ Append(wire, m) \in Seq(Message) /\ Len(Append(wire, m)) = Len(wire) + 1
      /\ \A i \in 1 .. Len(wire) : Append(wire, m)[i] = wire[i]
      /\ Append(wire, m)[Len(wire) + 1] = m /\ Len(wire) \in Nat
  BY <1>0, AppendProperties, LenProperties
<1>2. \A i \in 1 .. Len(wire') : MsgOK(wire'[i]) /\ wire'[i].k # "idle"
  BY <1>1 DEF IInv, WireOK
<1>3. Opens(wire') = Opens(wire) + (IF m.k = "open" THEN 1 ELSE 0)
  BY <1>0, AppendOpens
<1>4. \A f \in Field : Names(wire, f)' <=> Names(wire, f) \/ f \in DOMAIN m.d
  <2>1. \A f \in Field : Names(Append(wire, m), f) <=> Names(wire, f) \/ f \in DOMAIN m.d
    BY <1>0, AppendNames
  <2> QED BY <2>1
<1>5. \A f \in Field \ DOMAIN m.d : Raw(f)' = Raw(f) /\ Said(f)' = Said(f)
  BY DEF Raw, Said
<1>6. LastSaid'
  <2> SUFFICES ASSUME NEW f \in Field
               PROVE  /\ Says(wire, f, Raw(f))'
                      /\ sub' /\ at' # 0 /\ f \in DOMAIN cur'.d /\ ~Names(wire, f)'
                           => cur'.d[f] = Raw(f)'
    BY DEF LastSaid
  <2>1. Says(wire, f, Raw(f))
    BY DEF IInv, LastSaid
  <2>2. f \notin DOMAIN m.d => Says(wire, f, Raw(f)')
    BY <1>5, <2>1
  <2>3. Says(Append(wire, m), f, Raw(f)')
    BY <1>0, <2>2, AppendSays
  <2>4. Says(wire, f, Raw(f))'
    BY <2>3
  <2>5. ASSUME sub', at' # 0, f \in DOMAIN cur'.d, ~Names(wire, f)'
        PROVE  cur'.d[f] = Raw(f)'
    <3>1. f \notin DOMAIN m.d /\ ~Names(wire, f) /\ sub
      BY <1>0, <1>4, <2>5
    <3> QED BY <1>5, <2>5, <3>1 DEF IInv, LastSaid
  <2> QED BY <2>4, <2>5
<1>7. StoreOK'
  <2> SUFFICES ASSUME sub', seeded', NEW f \in Field, ~Names(wire, f)',
                      ~(at' = 1 /\ f \in DOMAIN cur'.d)
               PROVE  data'[f] = Said(f)'
    BY DEF StoreOK
  <2>1. f \notin DOMAIN m.d /\ ~Names(wire, f) /\ sub
    BY <1>0, <1>4
  <2> QED BY <1>5, <2>1 DEF IInv, StoreOK, screen
<1>8. CockpitOK'
  <2>1. \A f \in Field : Reached(f)' => Reached(f) /\ f \notin DOMAIN m.d
    BY <1>4 DEF Reached, screen
  <2>2. \A f \in Field : sub' /\ Reached(f)' => sub /\ base'[f] = base[f]
    BY <1>0, <2>1
  <2>3. UNCHANGED <<home, label>>
    BY DEF screen
  <2> QED BY <2>1, <2>2, <2>3 DEF IInv, CockpitOK, Field
<1> QED BY <1>1, <1>2, <1>3, <1>6, <1>7, <1>8

\* The store and the cockpit need nothing of a step that ends the
\* subscription, or that changes nothing they look at.
LEMMA Unmoved ==
  ASSUME IInv, UNCHANGED <<base, garbled, sub, wire, cur, at, data, seeded, home>>,
         \A f \in Field : f \notin lost' => f \notin lost,
         "fan" \notin lost' => label'.fan = label.fan
  PROVE  LastSaid' /\ StoreOK' /\ CockpitOK' /\ CurOK'
<1>1. LastSaid'
  BY DEF IInv, LastSaid, Raw, Names, Says
<1>2. StoreOK'
  BY DEF IInv, StoreOK, Said, Names
<1>3. CockpitOK'
  <2>1. \A f \in Field : Reached(f)' => Reached(f)
    BY DEF Reached, Names
  <2>2. Reached("fan")' => "fan" \notin lost'
    BY DEF Reached
  <2> QED BY <2>1, <2>2 DEF IInv, CockpitOK, Field
<1>4. CurOK'
  BY DEF IInv, CurOK
<1> QED BY <1>1, <1>2, <1>3, <1>4

LEMMA Numbers ==
  ASSUME IInv
  PROVE  /\ budget.changes \in 0 .. MaxChanges /\ budget.faults \in 0 .. MaxFaults
         /\ budget.garbled \in 0 .. MaxGarbled /\ asked \in Nat
         /\ MaxFaults \in Nat /\ MaxWire \in Nat \ {0} /\ MaxChanges \in Nat
         /\ MaxGarbled \in Nat /\ Opens(wire) \in Nat /\ Len(wire) \in Nat
         /\ wire \in Seq(Message)
<1>1. wire \in Seq(Message) /\ BudgetOK /\ asked \in Nat
  BY StatusAssumption DEF IInv, SocketOK
<1> QED BY <1>1, OpensFinite, LenProperties, StatusAssumption DEF BudgetOK

\* CountOK from what a step does to its three terms.
LEMMA CountKept ==
  ASSUME IInv, NEW a \in Nat, NEW o \in Nat, NEW b \in Nat,
         asked' = a, Opens(wire)' = o, budget'.faults = b,
         a + o + b <= asked + Opens(wire) + budget.faults,
         ~link' => ~link \/ a + o + b <= MaxFaults
  PROVE  CountOK'
<1>1. /\ asked + Opens(wire) + budget.faults <= 1 + MaxFaults
      /\ ~link => asked + Opens(wire) + budget.faults <= MaxFaults
  BY DEF IInv, CountOK
<1>2. /\ asked \in Nat /\ Opens(wire) \in Nat /\ budget.faults \in Nat
      /\ MaxFaults \in Nat
  BY Numbers
<1>3. a + o + b <= 1 + MaxFaults /\ (~link' => a + o + b <= MaxFaults)
  BY <1>1, <1>2
<1> QED BY <1>3 DEF CountOK

LEMMA ChangeStep ==
  ASSUME IInv, NEW f \in Field, NEW v \in Value[f], Change(f, v)
  PROVE  IInv'
<1>0. /\ budget.changes > 0 /\ klip' = [klip EXCEPT ![f] = v]
      /\ budget' = [budget EXCEPT !.changes = @ - 1]
      /\ UNCHANGED <<base, garbled, sub, asked, link, wire, cur, at, screen>>
  BY DEF Change
<1>1. KlipOK /\ SocketOK /\ BudgetOK
  BY DEF IInv
<1>2. KlipOK'
  BY <1>0, <1>1, ValuesAreAnything DEF KlipOK
<1>3. SocketOK'
  BY <1>0, <1>1 DEF SocketOK
<1>4. BudgetOK' /\ budget'.faults = budget.faults
  BY <1>0, <1>1, Numbers DEF BudgetOK
<1>5. CursorOK' /\ DataOK' /\ CacheOK' /\ CurOK' /\ GlassOK'
  BY <1>0, ScreenKept
<1>6. LastSaid' /\ StoreOK' /\ CockpitOK'
  BY <1>0, Unmoved DEF screen
<1>7. WireOK' /\ CountOK'
  BY <1>0, <1>4 DEF IInv, WireOK, CountOK, Opens
<1> QED BY <1>2, <1>3, <1>4, <1>5, <1>6, <1>7 DEF IInv

LEMMA FanSliderStep ==
  ASSUME IInv, NEW v \in Value.fan, FanSlider(v)
  PROVE  IInv'
<1>0. /\ budget.changes > 0 /\ klip' = [klip EXCEPT !.fan = IF link THEN v ELSE @]
      /\ budget' = [budget EXCEPT !.changes = @ - 1]
      /\ label' = [label EXCEPT !.fan = v] /\ lost' = lost \cup {"fan"}
      /\ UNCHANGED <<base, garbled, sub, asked, link, wire, cur, at,
                     data, seeded, home, rend>>
  BY DEF FanSlider
<1>1. KlipOK /\ SocketOK /\ BudgetOK /\ CursorOK /\ DataOK /\ CacheOK /\ GlassOK
  BY DEF IInv
<1>2. KlipOK'
  <2>1. "fan" \in Field /\ v \in Value["fan"] /\ v \in Anything
    BY ValuesAreAnything DEF Field
  <2>2. klip'["fan"] \in {v, klip["fan"]} /\ klip' \in [Field -> Anything]
        /\ \A f \in Field \ {"fan"} : klip'[f] = klip[f]
    BY <1>0, <1>1, <2>1 DEF KlipOK
  <2>3. \A f \in Field : klip'[f] \in Value[f]
    BY <1>1, <2>1, <2>2 DEF KlipOK
  <2> QED BY <1>0, <1>1, <2>2, <2>3 DEF KlipOK
<1>3. SocketOK' /\ CursorOK' /\ DataOK'
  BY <1>0, <1>1 DEF SocketOK, CursorOK, DataOK
<1>4. BudgetOK' /\ budget'.faults = budget.faults
  BY <1>0, <1>1, Numbers DEF BudgetOK
<1>5. /\ label' \in [home : Value.temp \cup {None}, temps : Value.temp \cup {None},
                     fan : Value.fan \cup {None}, layer : Value.layer \cup {None}]
      /\ label'.home = label.home /\ label'.temps = label.temps
      /\ label'.layer = label.layer
  BY <1>0, <1>1 DEF CacheOK
<1>6. CacheOK'
  BY <1>0, <1>1, <1>5 DEF CacheOK, Field
<1>7. GlassOK'
  BY <1>0, <1>1, <1>5 DEF GlassOK
<1>8. LastSaid' /\ StoreOK' /\ CockpitOK' /\ CurOK'
  BY <1>0, Unmoved
<1>9. WireOK' /\ CountOK'
  BY <1>0, <1>4 DEF IInv, WireOK, CountOK, Opens
<1> QED BY <1>2, <1>3, <1>4, <1>6, <1>7, <1>8, <1>9 DEF IInv

\* A message with at most one malformed field is paid for.
LEMMA GarbledSpent ==
  ASSUME IInv, NEW bad \in {{}} \cup {{f} : f \in Field},
         Cardinality(bad) <= budget.garbled,
         budget' = [budget EXCEPT !.garbled = @ - Cardinality(bad)]
  PROVE  BudgetOK' /\ budget'.faults = budget.faults
<1>1. Cardinality(bad) \in Nat
  <2>1. CASE bad = {}
    <3>1. Cardinality({}) = 0
      BY FS_EmptySet, Zenon
    <3> QED BY <2>1, <3>1
  <2>2. ASSUME NEW f, bad = {f} PROVE Cardinality(bad) \in Nat
    <3>1. Cardinality({f}) = 1
      BY FS_Singleton, Zenon
    <3> QED BY <2>2, <3>1
  <2> QED BY <2>1, <2>2
<1>2. budget.garbled - Cardinality(bad) \in 0 .. MaxGarbled
  BY <1>1, Numbers
<1> QED BY <1>2 DEF IInv, BudgetOK

LEMMA NotifyStep ==
  ASSUME IInv, NEW bad \in {{}} \cup {{f} : f \in Field}, Notify(bad)
  PROVE  IInv'
<1> DEFINE d == [f \in Changed |-> IF f \in bad THEN Bad ELSE klip[f]]
           m == Status("delta", d)
<1>0. /\ sub /\ Len(wire) < MaxWire /\ bad \subseteq Changed
      /\ Cardinality(bad) <= budget.garbled
      /\ wire' = Append(wire, m) /\ base' = klip
      /\ garbled' = (garbled \ Changed) \cup bad
      /\ budget' = [budget EXCEPT !.garbled = @ - Cardinality(bad)]
      /\ UNCHANGED <<klip, sub, asked, link, cur, at, screen>>
  BY DEF Notify, Room
<1>1. KlipOK /\ SocketOK /\ BudgetOK
  BY DEF IInv
<1>2. Changed \in SUBSET Field /\ d \in [Changed -> Anything]
      /\ \A f \in Changed : d[f] \in Value[f] \cup {Bad}
  BY <1>1, ValuesAreAnything DEF Changed, KlipOK
<1>3. MsgOK(m) /\ m.k = "delta" /\ m.d = d
  <2> HIDE DEF d
  <2> QED BY <1>2, StatusOK
<1>4. \A f \in Field \ DOMAIN m.d : base'[f] = base[f] /\ (f \in garbled' <=> f \in garbled)
  BY <1>0, <1>3 DEF Changed
<1>5. \A f \in DOMAIN m.d : m.d[f] = Raw(f)'
  BY <1>0, <1>3 DEF Raw
<1> HIDE DEF d, m
<1>6. /\ wire' \in Seq(Message) /\ Len(wire') = Len(wire) + 1
      /\ \A i \in 1 .. Len(wire') : MsgOK(wire'[i]) /\ wire'[i].k # "idle"
      /\ Opens(wire') = Opens(wire) + 0
      /\ LastSaid' /\ StoreOK' /\ CockpitOK'
  BY <1>0, <1>3, <1>4, <1>5, MessageSent
<1>7. KlipOK'
  BY <1>0, <1>1 DEF KlipOK, Changed
<1>8. SocketOK'
  BY <1>0, <1>1, <1>6, Numbers DEF SocketOK
<1>9. BudgetOK' /\ budget'.faults = budget.faults
  BY <1>0, GarbledSpent
<1>10. WireOK' /\ CountOK'
  BY <1>0, <1>6, <1>9, Numbers, SMTT(30) DEF IInv, WireOK, CountOK
<1>11. CursorOK' /\ DataOK' /\ CacheOK' /\ CurOK' /\ GlassOK'
  BY <1>0, ScreenKept
<1> QED BY <1>6, <1>7, <1>8, <1>9, <1>10, <1>11 DEF IInv

LEMMA AnswerStep ==
  ASSUME IInv, NEW bad \in {{}} \cup {{f} : f \in Field}, AnswerSubscribe(bad)
  PROVE  IInv'
<1> DEFINE d == [f \in Field |-> IF f \in bad THEN Bad ELSE klip[f]]
           m == Status("snap", d)
<1>0. /\ asked > 0 /\ link /\ Len(wire) < MaxWire
      /\ Cardinality(bad) <= budget.garbled
      /\ asked' = asked - 1 /\ sub' = TRUE
      /\ wire' = Append(wire, m) /\ base' = klip /\ garbled' = bad
      /\ budget' = [budget EXCEPT !.garbled = @ - Cardinality(bad)]
      /\ UNCHANGED <<klip, link, cur, at, screen>>
  BY DEF AnswerSubscribe, Room
<1>1. KlipOK /\ SocketOK /\ bad \subseteq Field
  BY DEF IInv
<1>2. d \in [Field -> Anything] /\ \A f \in Field : d[f] \in Value[f] \cup {Bad}
  BY <1>1, ValuesAreAnything DEF KlipOK
<1>3. MsgOK(m) /\ m.k = "snap" /\ m.d = d
  <2> HIDE DEF d
  <2> QED BY <1>2, StatusOK
<1>4. DOMAIN m.d = Field /\ \A f \in DOMAIN m.d : m.d[f] = Raw(f)'
  BY <1>0, <1>3 DEF Raw
<1> HIDE DEF d, m
<1>5. /\ wire' \in Seq(Message) /\ Len(wire') = Len(wire) + 1
      /\ \A i \in 1 .. Len(wire') : MsgOK(wire'[i]) /\ wire'[i].k # "idle"
      /\ Opens(wire') = Opens(wire) + 0
      /\ LastSaid' /\ StoreOK' /\ CockpitOK'
  BY <1>0, <1>3, <1>4, MessageSent
<1>6. KlipOK' /\ BudgetOK' /\ budget'.faults = budget.faults
  <2>1. BudgetOK' /\ budget'.faults = budget.faults
    BY <1>0, GarbledSpent
  <2> QED BY <1>0, <1>1, <2>1 DEF KlipOK
<1>7. SocketOK'
  <2>1. sub' \in BOOLEAN /\ link' \in BOOLEAN
    BY <1>0, <1>1, Zenon DEF SocketOK
  <2> QED BY <1>0, <1>1, <1>5, <2>1, Numbers, SMTT(30) DEF SocketOK
<1>8. WireOK' /\ CountOK'
  <2>1. /\ asked - 1 \in Nat /\ Opens(wire) \in Nat /\ budget.faults \in Nat
        /\ asked \in Nat
    BY <1>0, Numbers
  <2>2. asked' = asked - 1 /\ budget'.faults = budget.faults /\ link' = link
    BY <1>0, <1>6
  <2>3. Opens(wire)' = Opens(wire)
    BY <1>5, <2>1
  <2>4. asked - 1 + Opens(wire) + budget.faults <= asked + Opens(wire) + budget.faults
    BY ONLY <2>1
  <2>5. CountOK'
    BY ONLY IInv, <2>1, <2>2, <2>3, <2>4, CountKept
  <2> QED BY <1>0, <1>5, <2>5 DEF WireOK
<1>9. CursorOK' /\ DataOK' /\ CacheOK' /\ CurOK' /\ GlassOK'
  BY <1>0, ScreenKept
<1> QED BY <1>5, <1>6, <1>7, <1>8, <1>9 DEF IInv

\* Only the link and the faults move: the rest of the world is as it was.
LEMMA FaultFacts ==
  ASSUME IInv, Fault
  PROVE  BudgetOK' /\ budget'.faults = budget.faults - 1 /\ budget.faults > 0
  BY Numbers DEF IInv, Fault, BudgetOK

LEMMA LinkDropStep ==
  ASSUME IInv, LinkDrop
  PROVE  IInv'
<1>0. /\ link /\ Fault /\ link' = FALSE /\ sub' = FALSE /\ asked' = 0
      /\ wire' = <<Event("lost")>>
      /\ UNCHANGED <<klip, base, garbled, cur, at, screen>>
  BY DEF LinkDrop
<1>1. MsgOK(Event("lost")) /\ Event("lost").k = "lost" /\ DOMAIN Event("lost").d = {}
  BY EventOK
<1>2. Event("lost") \in Message
  BY <1>1 DEF MsgOK
<1>3. wire' \in Seq(Message) /\ Len(wire') = 1 /\ wire'[1] = Event("lost")
  BY <1>0, <1>2
<1>4. KlipOK'
  BY <1>0 DEF IInv, KlipOK
<1>5. SocketOK'
  <2>1. sub' \in BOOLEAN /\ link' \in BOOLEAN
    BY <1>0, Zenon
  <2> QED BY <1>0, <1>3, <2>1, StatusAssumption DEF SocketOK
<1>6. BudgetOK' /\ budget'.faults = budget.faults - 1
  BY <1>0, FaultFacts
<1>7. WireOK'
  BY <1>0, <1>1, <1>3 DEF WireOK
<1>8. CountOK'
  <2>1. {i \in 1 .. Len(wire') : wire'[i].k = "open"} = {}
    BY <1>1, <1>3
  <2>2. Opens(wire') = 0
    BY <2>1, FS_EmptySet, Zenon DEF Opens
  <2>3. budget.faults \in 0 .. MaxFaults /\ MaxFaults \in Nat
    BY Numbers
  <2> QED BY <1>0, <1>6, <2>2, <2>3 DEF CountOK
<1>9. LastSaid' /\ StoreOK' /\ CockpitOK'
  BY <1>0, <1>1, <1>3 DEF LastSaid, Says, StoreOK, CockpitOK
<1>10. CursorOK' /\ DataOK' /\ CacheOK' /\ CurOK' /\ GlassOK'
  BY <1>0, ScreenKept
<1> QED BY <1>4, <1>5, <1>6, <1>7, <1>8, <1>9, <1>10 DEF IInv

\* libhv reports the new connection, or Klipper that it is ready.
LEMMA ReopenStep ==
  ASSUME IInv, Reconnect \/ KlippyReady
  PROVE  IInv'
<1> DEFINE m == Event("open")
<1>0. /\ wire' = Append(wire, m) /\ link' = TRUE
      /\ UNCHANGED <<klip, base, garbled, sub, asked, cur, at, screen>>
  BY DEF Reconnect, KlippyReady, IInv, SocketOK
<1>1. MsgOK(m) /\ m.k = "open" /\ DOMAIN m.d = {}
  BY EventOK
<1> HIDE DEF m
<1>2. /\ wire' \in Seq(Message) /\ Len(wire') = Len(wire) + 1
      /\ \A i \in 1 .. Len(wire') : MsgOK(wire'[i]) /\ wire'[i].k # "idle"
      /\ Opens(wire') = Opens(wire) + 1
      /\ LastSaid' /\ StoreOK' /\ CockpitOK'
  BY <1>0, <1>1, MessageSent
<1>3. BudgetOK' /\ Len(wire) <= MaxWire
      /\ asked + Opens(wire) + budget'.faults <= MaxFaults
  <2>1. CASE Reconnect
    <3>1. ~link /\ budget' = budget
      BY <2>1 DEF Reconnect
    <3> QED BY <3>1, Numbers DEF IInv, WireOK, CountOK, BudgetOK
  <2>2. CASE KlippyReady
    <3>1. link /\ Fault /\ Len(wire) < MaxWire
      BY <2>2 DEF KlippyReady, Room
    <3>2. BudgetOK' /\ budget'.faults = budget.faults - 1
      BY <3>1, FaultFacts
    <3>3. asked + Opens(wire) + budget.faults <= 1 + MaxFaults
      BY <3>1, Numbers DEF IInv, CountOK
    <3> QED BY <3>1, <3>2, <3>3, Numbers
  <2> QED BY <2>1, <2>2
<1>4. KlipOK'
  BY <1>0 DEF IInv, KlipOK
<1>5. SocketOK'
  <2>1. sub' \in BOOLEAN /\ link' \in BOOLEAN
    BY <1>0, Zenon DEF IInv, SocketOK
  <2> QED BY <1>0, <1>2, <1>3, <2>1, Numbers DEF IInv, SocketOK
<1>6. WireOK' /\ CountOK'
  <2>1. /\ asked' = asked /\ Opens(wire)' = Opens(wire) + 1 /\ link' = TRUE
        /\ asked + Opens(wire) + budget'.faults <= MaxFaults
        /\ asked \in Nat /\ Opens(wire) \in Nat /\ MaxFaults \in Nat
    BY <1>0, <1>2, <1>3, Numbers
  <2>2. budget'.faults \in Nat
    BY <1>3, StatusAssumption DEF BudgetOK
  <2>3. CountOK'
    BY ONLY <2>1, <2>2 DEF CountOK
  <2> QED BY <1>0, <1>2, <2>3 DEF WireOK
<1>7. CursorOK' /\ DataOK' /\ CacheOK' /\ CurOK' /\ GlassOK'
  BY <1>0, ScreenKept
<1> QED BY <1>2, <1>3, <1>4, <1>5, <1>6, <1>7 DEF IInv

\* An error reply names no field.
LEMMA RefusalsAre ==
  ASSUME IInv, NEW w \in Refusals
  PROVE  /\ w \in Seq(Message) /\ Len(w) <= Len(wire) + 1 /\ Opens(w) = Opens(wire)
         /\ \A i \in 1 .. Len(w) : MsgOK(w[i]) /\ w[i].k # "idle"
         /\ \A f \in Field : Says(w, f, Raw(f))
<1> DEFINE m == Event("refused")
<1>1. MsgOK(m) /\ m.k = "refused" /\ DOMAIN m.d = {} /\ m \in Message
  BY EventOK DEF MsgOK
<1>2. /\ wire \in Seq(Message) /\ Len(wire) \in Nat /\ Opens(wire) \in Nat
      /\ \A i \in 1 .. Len(wire) : MsgOK(wire[i]) /\ wire[i].k # "idle"
      /\ \A f \in Field : Says(wire, f, Raw(f))
  BY Numbers DEF IInv, WireOK, LastSaid
<1>3. w = wire \/ w = Append(wire, m)
  BY DEF Refusals
<1>4. CASE w = wire
  BY <1>2, <1>4
<1>5. CASE w = Append(wire, m)
  <2> HIDE DEF m
  <2>1. /\ w \in Seq(Message) /\ Len(w) = Len(wire) + 1 /\ w[Len(wire) + 1] = m
        /\ \A i \in 1 .. Len(wire) : w[i] = wire[i]
    BY <1>1, <1>2, <1>5, AppendProperties
  <2>2. Opens(w) = Opens(wire) + 0
    BY <1>1, <1>2, <1>5, AppendOpens
  <2>3. \A f \in Field : Says(w, f, Raw(f))
    BY <1>1, <1>2, <1>5, AppendSays
  <2>4. \A i \in 1 .. Len(w) : MsgOK(w[i]) /\ w[i].k # "idle"
    BY <1>1, <1>2, <2>1
  <2> QED BY <1>2, <2>1, <2>2, <2>3, <2>4
<1> QED BY <1>3, <1>4, <1>5

LEMMA RestartStep ==
  ASSUME IInv, KlippyRestart
  PROVE  IInv'
<1>0. PICK w \in Refusals :
        /\ link /\ Fault /\ Len(wire) < MaxWire /\ klip' = Resting
        /\ sub' = FALSE /\ asked' = 0
        /\ wire' = w \o <<Event("lost"), Event("open")>>
        /\ UNCHANGED <<base, garbled, link, cur, at, screen>>
  BY DEF KlippyRestart
<1> DEFINE w1 == Append(w, Event("lost"))
<1>1. /\ MsgOK(Event("lost")) /\ Event("lost").k = "lost" /\ DOMAIN Event("lost").d = {}
      /\ MsgOK(Event("open")) /\ Event("open").k = "open" /\ DOMAIN Event("open").d = {}
  BY EventOK
<1>2. /\ Event("lost") \in Message /\ Event("open") \in Message
      /\ w \in Seq(Message) /\ Len(w) <= Len(wire) + 1 /\ Opens(w) = Opens(wire)
      /\ \A i \in 1 .. Len(w) : MsgOK(w[i]) /\ w[i].k # "idle"
      /\ \A f \in Field : Says(w, f, Raw(f))
  BY <1>1, RefusalsAre DEF MsgOK
<1>3. /\ w1 \in Seq(Message) /\ Len(w1) = Len(w) + 1 /\ Len(w) \in Nat
      /\ \A i \in 1 .. Len(w) : w1[i] = w[i]
      /\ w1[Len(w) + 1] = Event("lost")
  BY <1>2, AppendProperties, LenProperties
<1>4. wire' = Append(w1, Event("open"))
  BY <1>0, <1>2
<1>5. Opens(w1) = Opens(wire) + 0
  BY <1>1, <1>2, AppendOpens
<1>6. \A f \in Field : Says(w1, f, Raw(f))
  BY <1>1, <1>2, AppendSays
<1> HIDE DEF w1
<1>7. /\ wire' \in Seq(Message) /\ Len(wire') = Len(w1) + 1
      /\ \A i \in 1 .. Len(w1) : wire'[i] = w1[i]
      /\ wire'[Len(w1) + 1] = Event("open")
  BY <1>2, <1>3, <1>4, AppendProperties
<1>8. Opens(wire') = Opens(w1) + 1
  BY <1>1, <1>2, <1>3, <1>4, AppendOpens
<1>9. LastSaid'
  <2> SUFFICES ASSUME NEW f \in Field PROVE Says(wire, f, Raw(f))'
    BY <1>0 DEF LastSaid
  <2>1. Says(Append(w1, Event("open")), f, Raw(f))
    BY <1>1, <1>2, <1>3, <1>6, AppendSays
  <2>2. Raw(f)' = Raw(f)
    BY <1>0 DEF Raw
  <2> QED BY <1>4, <2>1, <2>2
<1>10. KlipOK'
  BY <1>0, RestingIs DEF IInv, KlipOK
<1>11. SocketOK'
  <2>1. sub' \in BOOLEAN /\ link' \in BOOLEAN
    BY <1>0, Zenon DEF IInv, SocketOK
  <2>2. Len(wire') <= MaxWire + 2
    BY <1>0, <1>2, <1>3, <1>7, Numbers
  <2> QED BY <1>0, <1>7, <2>1, <2>2, StatusAssumption DEF SocketOK
<1>12. BudgetOK' /\ budget'.faults = budget.faults - 1
  BY <1>0, FaultFacts
<1>13. WireOK'
  <2>1. \A i \in 1 .. Len(wire') : MsgOK(wire'[i]) /\ wire'[i].k # "idle"
    <3> SUFFICES ASSUME NEW i \in 1 .. Len(wire')
                 PROVE  MsgOK(wire'[i]) /\ wire'[i].k # "idle"
      OBVIOUS
    <3>1. \/ i \in 1 .. Len(w) /\ wire'[i] = w[i]
          \/ wire'[i] \in {Event("lost"), Event("open")}
      BY <1>3, <1>7
    <3> QED BY <1>1, <1>2, <3>1
  <2> QED BY <1>0, <2>1 DEF WireOK
<1>14. CountOK'
  <2>1. /\ asked \in Nat /\ Opens(wire) \in Nat /\ budget.faults - 1 \in Nat
        /\ budget.faults \in Nat /\ asked' = 0 /\ Opens(wire)' = Opens(wire) + 1
        /\ budget'.faults = budget.faults - 1 /\ link' = link
    <3>1. Opens(wire') = Opens(wire) + 1
      BY <1>5, <1>8, Numbers
    <3> QED BY <1>0, <1>12, <3>1, FaultFacts, Numbers, SMTT(30)
  <2>2. 0 + (Opens(wire) + 1) + (budget.faults - 1) <= asked + Opens(wire) + budget.faults
    BY ONLY <2>1
  <2> QED BY ONLY IInv, <2>1, <2>2, CountKept
<1>15. StoreOK' /\ CockpitOK'
  BY <1>0 DEF StoreOK, CockpitOK
<1>16. CursorOK' /\ DataOK' /\ CacheOK' /\ CurOK' /\ GlassOK'
  BY <1>0, ScreenKept
<1> QED BY <1>9, <1>10, <1>11, <1>12, <1>13, <1>14, <1>15, <1>16 DEF IInv
-----------------------------------------------------------------------------
(* The websocket thread *)

\* onmessage takes a status message for the first consumer.
LEMMA TakeStep ==
  ASSUME IInv, at = 0, wire # <<>>, wire' = Tail(wire), cur' = Head(wire),
         at' = 1, Head(wire).k \in {"snap", "delta"},
         UNCHANGED <<klip, base, garbled, sub, link, budget, asked, screen>>
  PROVE  IInv'
<1>1. /\ wire \in Seq(Message) /\ Len(wire) \in Nat \ {0}
      /\ Head(wire) = wire[1] /\ Head(wire) \in Message
      /\ Tail(wire) \in Seq(Message) /\ Len(Tail(wire)) = Len(wire) - 1
      /\ \A i \in 1 .. Len(wire) - 1 : Tail(wire)[i] = wire[i + 1]
  BY TailWire DEF IInv, SocketOK
<1>2. MsgOK(Head(wire))
  BY <1>1 DEF IInv, WireOK
<1>3. Opens(wire) = Opens(Tail(wire)) + 0
  BY <1>1, TailOpens
<1>4. \A f \in Field : Names(wire, f) <=> Names(Tail(wire), f) \/ f \in DOMAIN Head(wire).d
  BY <1>1, TailNames
<1>5. \A f \in Field : /\ Says(Tail(wire), f, Raw(f))
                       /\ f \in DOMAIN Head(wire).d /\ ~Names(Tail(wire), f)
                            => Head(wire).d[f] = Raw(f)
  BY <1>1, TailSays DEF IInv, LastSaid
<1>6. \A f \in Field : Raw(f)' = Raw(f) /\ Said(f)' = Said(f)
  BY DEF Raw, Said
<1>7. KlipOK' /\ BudgetOK' /\ DataOK' /\ CacheOK' /\ GlassOK'
  BY DEF IInv, KlipOK, BudgetOK, DataOK, CacheOK, GlassOK, screen
<1>8. SocketOK'
  BY <1>1, Numbers DEF IInv, SocketOK
<1>9. CursorOK' /\ CurOK'
  <2>1. Event("idle").k = "idle"
    BY EventOK
  <2>2. Len(notify_consumers) = 5 /\ Len(Route(cur)') \in {2, 5}
    BY DEF notify_consumers, Route
  <2>3. CursorOK'
    BY <1>1, <2>1, <2>2 DEF CursorOK
  <2>4. MsgOK(cur)'
    BY <1>2
  <2>5. at' <= Len(Route(cur)')
    BY ONLY <2>2, at' = 1
  <2>6. CurOK'
    BY <2>4, <2>5 DEF CurOK
  <2> QED BY <2>3, <2>6
<1>10. WireOK'
  <2>1. \A i \in 1 .. Len(wire) - 1 : i + 1 \in 1 .. Len(wire)
    BY <1>1
  <2>2. \A i \in 1 .. Len(wire') : MsgOK(wire'[i]) /\ wire'[i].k # "idle"
    BY <1>1, <2>1 DEF IInv, WireOK
  <2> QED BY <1>1, <2>2 DEF IInv, WireOK
<1>11. CountOK'
  <2>1. Opens(Tail(wire)) \in Nat
    BY <1>1, OpensFinite
  <2>2. Opens(Tail(wire)) = Opens(wire)
    BY ONLY <1>3, <2>1
  <2>3. asked' = asked /\ budget' = budget /\ link' = link /\ Opens(wire)' = Opens(wire)
    BY <2>2
  <2> QED BY ONLY IInv, <2>3 DEF IInv, CountOK
<1>12. LastSaid'
  BY <1>5, <1>6 DEF LastSaid
<1>13. StoreOK'
  BY <1>4, <1>6 DEF IInv, StoreOK, screen
<1>14. CockpitOK'
  <2>1. \A f \in Field : Reached(f)' => Reached(f)
    BY <1>4 DEF Reached, screen
  <2> QED BY <2>1 DEF IInv, CockpitOK, Field, screen
<1> QED BY <1>7, <1>8, <1>9, <1>10, <1>11, <1>12, <1>13, <1>14 DEF IInv

\* A rebuilt cockpit shows its cache; its shadows are forgotten.
LEMMA Rebuilt ==
  ASSUME IInv, NEW h, h \in [job : Value.job, temp : Value.temp \cup {None},
                             layer : Value.layer \cup {None}],
         home' = h, rebuild_home(h), lost' \subseteq Field
  PROVE  /\ CacheOK' /\ GlassOK' /\ label'.fan = label.fan
<1>1. /\ h.job \in Value["job"] /\ h.temp \in Value["temp"] \cup {None}
      /\ h.layer \in Value["layer"] \cup {None}
  OBVIOUS
<1>2. label \in [home : Value.temp \cup {None}, temps : Value.temp \cup {None},
                 fan : Value.fan \cup {None}, layer : Value.layer \cup {None}]
  BY DEF IInv, CacheOK
<1>3. rend' = [temp |-> None, fan |-> None] /\ rend'.temp = None /\ rend'.fan = None
  BY DEF rebuild_home
<1>4. /\ label' \in [home : Value.temp \cup {None}, temps : Value.temp \cup {None},
                     fan : Value.fan \cup {None}, layer : Value.layer \cup {None}]
      /\ label'.home = h.temp /\ label'.fan = label.fan
      /\ label'.layer = IF h.job = "standby" THEN None ELSE h.layer
  BY <1>1, <1>2 DEF rebuild_home
<1>5. CacheOK'
  BY <1>3, <1>4 DEF CacheOK
<1>6. GlassOK'
  BY <1>3, <1>4 DEF GlassOK
<1> QED BY <1>4, <1>5, <1>6

\* connected(), disconnected() and the callback of a refused request run
\* within onmessage.
LEMMA LinkMessageStep ==
  ASSUME IInv, at = 0, wire # <<>>, wire' = Tail(wire),
         \/ Head(wire).k = "open" /\ connected /\ UNCHANGED <<home, rend, label, lost>>
         \/ Head(wire).k = "lost" /\ UNCHANGED <<asked, screen>>
         \/ Head(wire).k = "refused" /\ init(Head(wire).d)
            /\ UNCHANGED <<asked, data, seeded>>,
         UNCHANGED <<klip, base, garbled, sub, link, budget, cur, at>>
  PROVE  IInv'
<1>1. /\ wire \in Seq(Message) /\ Len(wire) \in Nat \ {0}
      /\ Head(wire) = wire[1] /\ Head(wire) \in Message
      /\ Tail(wire) \in Seq(Message) /\ Len(Tail(wire)) = Len(wire) - 1
      /\ \A i \in 1 .. Len(wire) - 1 : Tail(wire)[i] = wire[i + 1]
  BY TailWire DEF IInv, SocketOK
<1>2. DOMAIN Head(wire).d = {}
  BY <1>1 DEF IInv, WireOK, MsgOK
<1>0. /\ CacheOK' /\ GlassOK' /\ home' = home
      /\ \/ UNCHANGED <<label, lost>>
         \/ lost' = lost \cup {"fan"}
  <2>1. CASE Head(wire).k \in {"open", "lost"}
    BY <2>1 DEF IInv, CacheOK, GlassOK, screen
  <2>2. CASE Head(wire).k = "refused"
    <3> DEFINE d == Head(wire).d
    <3>1. init(d)
      BY <2>2
    <3>2. ~Unread(d, {"temp", "layer", "job"}) /\ lost \ DOMAIN d = lost
      BY <1>2 DEF Unread
    <3>3. Cache(d) = home
      <4>1. Cache(d) = [job |-> home.job, temp |-> home.temp, layer |-> home.layer]
        BY <1>2 DEF Cache, Cached
      <4> QED BY <4>1 DEF IInv, CacheOK
    <3> HIDE DEF d
    <3>4. home' = home /\ rebuild_home(home) /\ lost' = lost \cup {"fan"}
      BY <3>1, <3>2, <3>3 DEF init
    <3>5. CacheOK' /\ GlassOK'
      BY <3>4, Rebuilt DEF IInv, CacheOK, Field
    <3> QED BY <3>4, <3>5
  <2> QED BY <2>1, <2>2
<1>3. \A f \in Field : Names(wire, f) <=> Names(Tail(wire), f)
  BY <1>1, <1>2, TailNames
<1>4. \A f \in Field : Says(Tail(wire), f, Raw(f))
  BY <1>1, TailSays DEF IInv, LastSaid
<1>5. \A f \in Field : Raw(f)' = Raw(f) /\ Said(f)' = Said(f)
  BY DEF Raw, Said
<1>6. asked' + Opens(wire') = asked + Opens(wire) /\ asked' \in Nat
  <2>1. Opens(wire) = Opens(Tail(wire)) + (IF Head(wire).k = "open" THEN 1 ELSE 0)
    BY <1>1, TailOpens
  <2>2. Opens(Tail(wire)) \in Nat /\ asked \in Nat
    BY <1>1, OpensFinite, Numbers
  <2> QED BY <2>1, <2>2 DEF connected, screen
<1>7. KlipOK' /\ BudgetOK' /\ CursorOK' /\ CurOK'
  BY DEF IInv, KlipOK, BudgetOK, CursorOK, CurOK
<1>8. CountOK'
  BY <1>1, <1>6, Numbers, OpensFinite DEF IInv, CountOK
<1>9. SocketOK'
  <2>1. Opens(wire') \in Nat
    BY <1>1, OpensFinite
  <2>2. asked' <= 1 + MaxFaults
    <3>1. asked' + Opens(wire') <= 1 + MaxFaults
      BY <1>6, Numbers DEF IInv, CountOK
    <3> QED BY <1>6, <2>1, <3>1, Numbers
  <2> QED BY <1>1, <1>6, <2>2, Numbers DEF IInv, SocketOK
<1>10. DataOK'
  <2>1. seeded' \in BOOLEAN
    <3>1. seeded' = FALSE \/ seeded' = seeded
      BY DEF connected, screen
    <3> QED BY <3>1, Zenon DEF IInv, DataOK
  <2>2. data' \in [Field -> Anything]
    BY ValuesAreAnything DEF connected, screen, IInv, DataOK
  <2> QED BY <2>1, <2>2 DEF DataOK
<1>11. WireOK'
  <2>1. \A i \in 1 .. Len(wire) - 1 : i + 1 \in 1 .. Len(wire)
    BY <1>1
  <2>2. \A i \in 1 .. Len(wire') : MsgOK(wire'[i]) /\ wire'[i].k # "idle"
    BY <1>1, <2>1 DEF IInv, WireOK
  <2> QED BY <1>1, <2>2 DEF IInv, WireOK
<1>12. LastSaid'
  BY <1>4, <1>5 DEF LastSaid
<1>13. StoreOK'
  <2>1. seeded' => UNCHANGED <<seeded, data>>
    BY DEF connected, screen
  <2> QED BY <1>3, <1>5, <2>1 DEF IInv, StoreOK
<1>14. CockpitOK'
  <2>1. \A f \in Field : Reached(f)' => Reached(f)
    BY <1>0, <1>3 DEF Reached
  <2>2. Reached("fan")' => label' = label
    BY <1>0 DEF Reached
  <2> QED BY <1>0, <2>1, <2>2 DEF IInv, CockpitOK, Field
<1> QED BY <1>0, <1>7, <1>8, <1>9, <1>10, <1>11, <1>12, <1>13, <1>14 DEF IInv

LEMMA OnMessageStep ==
  ASSUME IInv, OnMessage
  PROVE  IInv'
<1>1. Head(wire).k \in {"open", "lost", "refused", "snap", "delta"}
  <2>1. /\ Head(wire) = wire[1] /\ Len(wire) \in Nat \ {0} /\ Head(wire) \in Message
    BY TailWire DEF OnMessage, IInv, SocketOK
  <2>2. Head(wire).k # "idle"
    BY <2>1 DEF IInv, WireOK
  <2> QED BY <2>1, <2>2 DEF Message
<1>2. CASE Head(wire).k = "open"
  BY <1>2, LinkMessageStep DEF OnMessage
<1>3. CASE Head(wire).k \in {"lost", "refused"}
  BY <1>3, LinkMessageStep DEF OnMessage
<1>4. CASE Head(wire).k \in {"snap", "delta"}
  BY <1>4, TakeStep DEF OnMessage, screen
<1> QED BY <1>1, <1>2, <1>3, <1>4

\* Who reads the message at each stage.
LEMMA RouteFacts ==
  ASSUME IInv, at # 0
  PROVE  /\ cur.k = "snap" => /\ Len(Route(cur)) = 2 /\ at \in 1 .. 2
                              /\ Route(cur)[at] = IF at = 1 THEN "state" ELSE "main"
         /\ cur.k = "delta" =>
              /\ Len(Route(cur)) = 5 /\ at \in 1 .. 5
              /\ at = 1 => Route(cur)[at] = "state"
              /\ at = 2 => Route(cur)[at] = "homing"
              /\ at = 3 => Route(cur)[at] = "sliders"
              /\ at = 4 => Route(cur)[at] = "extruder"
              /\ at = 5 => Route(cur)[at] = "main"
         /\ cur.k \in {"snap", "delta"}
<1>1. cur.k \in {"snap", "delta"} /\ at <= Len(Route(cur)) /\ at \in Nat
  BY DEF IInv, CurOK, CursorOK
<1>2. ASSUME cur.k = "snap"
      PROVE  /\ Len(Route(cur)) = 2 /\ at \in 1 .. 2
             /\ Route(cur)[at] = IF at = 1 THEN "state" ELSE "main"
  <2>1. Route(cur) = <<"state", "main">>
    BY <1>2 DEF Route
  <2> QED BY <1>1, <2>1
<1>3. ASSUME cur.k = "delta"
      PROVE  /\ Len(Route(cur)) = 5 /\ at \in 1 .. 5
             /\ at = 1 => Route(cur)[at] = "state"
             /\ at = 2 => Route(cur)[at] = "homing"
             /\ at = 3 => Route(cur)[at] = "sliders"
             /\ at = 4 => Route(cur)[at] = "extruder"
             /\ at = 5 => Route(cur)[at] = "main"
  <2>1. Route(cur) = <<"state", "homing", "sliders", "extruder", "main">>
    BY <1>3 DEF Route, notify_consumers
  <2> QED BY <1>1, <2>1
<1> QED BY <1>1, <1>2, <1>3

LEMMA ReadsFacts ==
  /\ Reads["state"] = {} /\ Reads["homing"] = {"job"} /\ Reads["sliders"] = {"fan"}
  /\ Reads["extruder"] = {"temp", "job"} /\ Reads["main"] = Field
  BY DEF Reads

\* The store never throws.
LEMMA NoThrow ==
  ASSUME Route(cur)[at] = "state" PROVE ~Throws(Route(cur)[at], cur.d)
  BY ReadsFacts DEF Throws

\* Past a consumer that reads it, a field is not malformed: what is left for
\* the cockpit to choke on is the layer.
LEMMA CursorMoves ==
  ASSUME IInv, at # 0, UNCHANGED world,
         IF Throws(Route(cur)[at], cur.d) \/ at = Len(Route(cur))
         THEN Finish ELSE at' = at + 1 /\ UNCHANGED cur
  PROVE  /\ KlipOK' /\ SocketOK' /\ BudgetOK' /\ CursorOK' /\ CurOK'
         /\ WireOK' /\ LastSaid' /\ CountOK'
         /\ at' = 0 \/ (cur' = cur /\ at' = at + 1)
         /\ at' # 1
         /\ at' = 0 <=> Throws(Route(cur)[at], cur.d) \/ at = Len(Route(cur))
<1>1. KlipOK' /\ SocketOK' /\ BudgetOK' /\ WireOK'
  BY DEF IInv, KlipOK, SocketOK, BudgetOK, WireOK, world
<1>2. CountOK'
  BY DEF IInv, CountOK, world
<1>3. at \in 1 .. 5
  BY RouteFacts
<1>4. /\ at' = 0 \/ (cur' = cur /\ at' = at + 1)
      /\ at' # 1
      /\ at' = 0 <=> Throws(Route(cur)[at], cur.d) \/ at = Len(Route(cur))
  BY <1>3 DEF Finish
<1>5. LastSaid'
  <2>1. \A f \in Field : Raw(f)' = Raw(f)
    BY DEF Raw, world
  <2>2. wire' = wire /\ sub' = sub
    BY DEF world
  <2>3. \A f \in Field : Says(wire, f, Raw(f))' /\ (Names(wire, f)' <=> Names(wire, f))
    BY <2>1, <2>2 DEF IInv, LastSaid
  <2> QED BY <1>4, <2>1, <2>2, <2>3 DEF IInv, LastSaid
<1>6. CASE at' = 0
  <2>1. cur' = Event("idle")
    BY <1>3, <1>6 DEF Finish
  <2>2. MsgOK(Event("idle")) /\ Event("idle").k = "idle" /\ DOMAIN Event("idle").d = {}
    BY EventOK
  <2>3. CursorOK'
    BY <1>6, <2>1, <2>2 DEF CursorOK, MsgOK, notify_consumers
  <2>4. CurOK'
    BY <1>6, <2>1, <2>2 DEF CurOK
  <2> QED BY <1>1, <1>2, <1>4, <1>5, <2>3, <2>4
<1>7. CASE at' # 0
  <2>1. cur' = cur /\ at' = at + 1 /\ at # Len(Route(cur))
        /\ ~Throws(Route(cur)[at], cur.d)
    BY <1>4, <1>7
  <2>2. at' \in 2 .. 5 /\ at' <= Len(Route(cur))
    <3>1. CASE cur.k = "snap"
      <4>1. Len(Route(cur)) = 2 /\ at \in 1 .. 2
        BY <3>1, RouteFacts
      <4> QED BY ONLY <2>1, <4>1
    <3>2. CASE cur.k = "delta"
      <4>1. Len(Route(cur)) = 5 /\ at \in 1 .. 5
        BY <3>2, RouteFacts
      <4> QED BY ONLY <2>1, <4>1
    <3> QED BY <3>1, <3>2, RouteFacts
  <2>3. Len(notify_consumers) = 5
    BY DEF notify_consumers
  <2>4. cur \in Message /\ cur # Event("idle")
    BY DEF IInv, CursorOK
  <2>5. CursorOK'
    BY <2>1, <2>2, <2>3, <2>4 DEF CursorOK
  <2>6. ASSUME cur.k = "delta", NEW f \in DOMAIN cur.d, cur.d[f] = Bad
        PROVE  /\ at' <= 5 /\ (f = "job" => at' <= 2) /\ (f = "fan" => at' <= 3)
               /\ (f = "temp" => at' <= 4)
    <3>1. /\ f = "job" => at <= 2
          /\ f = "fan" => at <= 3
          /\ f = "temp" => at <= 4
      BY <2>6 DEF IInv, CurOK
    <3>2. f = "job" => at # 2
      BY <2>1, <2>6, RouteFacts, ReadsFacts DEF Throws
    <3>3. f = "fan" => at # 3
      BY <2>1, <2>6, RouteFacts, ReadsFacts DEF Throws
    <3>4. f = "temp" => at # 4
      BY <2>1, <2>6, RouteFacts, ReadsFacts DEF Throws
    <3> QED BY <1>3, <2>1, <2>2, <3>1, <3>2, <3>3, <3>4
  <2>7. CurOK'
    <3>1. MsgOK(cur) /\ cur.k \in {"snap", "delta"}
      BY DEF IInv, CurOK
    <3>2. Route(cur)' = Route(cur)
      BY <2>1 DEF Route
    <3> QED BY <2>1, <2>2, <2>6, <3>1, <3>2 DEF CurOK
  <2> QED BY <1>1, <1>2, <1>4, <1>5, <2>5, <2>7
<1> QED BY <1>6, <1>7

\* What the message in onmessage says last of a field is the truth.
LEMMA CurIsLast ==
  ASSUME IInv, at # 0, sub, NEW f \in DOMAIN cur.d, ~Names(wire, f)
  PROVE  /\ f \in Field
         /\ (IF cur.d[f] = Null THEN None ELSE cur.d[f]) = Said(f)
         /\ cur.d[f] # Bad => cur.d[f] = base[f]
<1>1. f \in Field /\ cur.d[f] = Raw(f)
  BY DEF IInv, CurOK, MsgOK, LastSaid
<1> QED BY <1>1 DEF Raw, Said, Bad, Null

\* The State takes the message.
LEMMA StoreStep ==
  ASSUME IInv, at # 0, UNCHANGED world, Route(cur)[at] = "state",
         data' = set_data(cur.d), seeded' = (seeded \/ cur.k = "snap"),
         UNCHANGED <<home, rend, label, lost>>,
         IF Throws(Route(cur)[at], cur.d) \/ at = Len(Route(cur))
         THEN Finish ELSE at' = at + 1 /\ UNCHANGED cur
  PROVE  IInv'
<1>1. /\ KlipOK' /\ SocketOK' /\ BudgetOK' /\ CursorOK' /\ CurOK'
      /\ WireOK' /\ LastSaid' /\ CountOK'
  BY CursorMoves
<1>2. at = 1 /\ at' = 2 /\ cur' = cur
  <2>1. at = 1
    <3>1. CASE cur.k = "snap"
      BY <3>1, RouteFacts
    <3>2. CASE cur.k = "delta"
      <4>1. at \in {1, 2, 3, 4, 5}
        BY <3>2, RouteFacts
      <4> QED BY <3>2, <4>1, RouteFacts
    <3> QED BY <3>1, <3>2, RouteFacts
  <2>2. ~Throws(Route(cur)[at], cur.d)
    BY NoThrow
  <2>3. at # Len(Route(cur))
    BY <2>1, RouteFacts
  <2>4. at' = at + 1 /\ cur' = cur
    BY <2>2, <2>3
  <2> QED BY <2>1, <2>4
<1>3. CacheOK' /\ GlassOK'
  BY DEF IInv, CacheOK, GlassOK
<1>4. MsgOK(cur)
  BY DEF IInv, CurOK
<1>5. DataOK'
  <2>1. seeded' \in BOOLEAN
    BY Zenon DEF IInv, DataOK
  <2>2. \A f \in DOMAIN cur.d : cur.d[f] \in Anything
    BY <1>4, ValuesAreAnything DEF MsgOK
  <2>3. data' \in [Field -> Anything]
    BY <2>2, ValuesAreAnything DEF set_data, IInv, DataOK
  <2> QED BY <2>1, <2>3 DEF DataOK
<1>6. \A f \in Field : (Names(wire, f)' <=> Names(wire, f)) /\ Said(f)' = Said(f)
  BY DEF world, Names, Said
<1>7. sub' = sub /\ base' = base
  BY DEF world
<1>8. StoreOK'
  <2> SUFFICES ASSUME sub', seeded', NEW f \in Field, ~Names(wire, f)'
               PROVE  data'[f] = Said(f)'
    BY DEF StoreOK
  <2>1. CASE f \in DOMAIN cur.d
    <3>1. data'[f] = IF cur.d[f] = Null THEN None ELSE cur.d[f]
      BY <2>1 DEF set_data
    <3> QED BY <1>6, <1>7, <2>1, <3>1, CurIsLast
  <2>2. CASE f \notin DOMAIN cur.d
    <3>1. cur.k # "snap" /\ seeded
      BY <1>4, <2>2 DEF MsgOK
    <3>2. data'[f] = data[f]
      BY <2>2 DEF set_data
    <3> QED BY <1>6, <1>7, <2>2, <3>1, <3>2 DEF IInv, StoreOK
  <2> QED BY <2>1, <2>2
<1>9. CockpitOK'
  <2>1. \A f \in Field : Reached(f)' => Reached(f)
    BY <1>2, <1>6 DEF Reached
  <2> QED BY <1>7, <2>1 DEF IInv, CockpitOK, Field
<1> QED BY <1>1, <1>3, <1>5, <1>8, <1>9 DEF IInv

\* The consumers in between change nothing here, but may throw.
LEMMA BetweenStep ==
  ASSUME IInv, at # 0, UNCHANGED world,
         Route(cur)[at] \in {"homing", "sliders", "extruder"},
         lost' = IF Throws(Route(cur)[at], cur.d) THEN lost \cup DOMAIN cur.d ELSE lost,
         UNCHANGED <<data, seeded, home, rend, label>>,
         IF Throws(Route(cur)[at], cur.d) \/ at = Len(Route(cur))
         THEN Finish ELSE at' = at + 1 /\ UNCHANGED cur
  PROVE  IInv'
<1>1. /\ KlipOK' /\ SocketOK' /\ BudgetOK' /\ CursorOK' /\ CurOK'
      /\ WireOK' /\ LastSaid' /\ CountOK'
      /\ at' = 0 \/ (cur' = cur /\ at' = at + 1)
      /\ at' # 1
      /\ at' = 0 <=> Throws(Route(cur)[at], cur.d) \/ at = Len(Route(cur))
  BY CursorMoves
<1>2. at # 1 /\ at # Len(Route(cur))
  BY RouteFacts
<1>3. DOMAIN cur.d \subseteq Field
  BY DEF IInv, CurOK, MsgOK
<1>4. CacheOK' /\ GlassOK' /\ DataOK'
  BY <1>3 DEF IInv, CacheOK, GlassOK, DataOK
<1>5. \A f \in Field : (Names(wire, f)' <=> Names(wire, f)) /\ Said(f)' = Said(f)
  BY DEF world, Names, Said
<1>6. sub' = sub /\ base' = base
  BY DEF world
<1>7. StoreOK'
  BY <1>1, <1>2, <1>5, <1>6 DEF IInv, StoreOK
<1>8. CockpitOK'
  <2>1. \A f \in Field : Reached(f)' => Reached(f)
    BY <1>1, <1>2, <1>5 DEF Reached
  <2> QED BY <1>6, <2>1 DEF IInv, CockpitOK, Field
<1> QED BY <1>1, <1>4, <1>7, <1>8 DEF IInv

\* The cockpit is at the end of the route. Of a delta only a layer may be bad
\* by then.
LEMMA AtMain ==
  ASSUME IInv, at # 0, Route(cur)[at] = "main"
  PROVE  /\ at = Len(Route(cur)) /\ at # 1
         /\ DOMAIN cur.d \subseteq Field
         /\ cur.k = "delta" => \A f \in DOMAIN cur.d : f # "layer" => cur.d[f] \in Value[f]
         /\ ~Throws("main", cur.d) => \A f \in DOMAIN cur.d : cur.d[f] \in Value[f]
         /\ cur.k = "snap" => DOMAIN cur.d = Field
         /\ \A f \in DOMAIN cur.d : cur.d[f] \in Value[f] \cup {Bad}
<1>1. at = Len(Route(cur)) /\ at # 1
  <2>1. CASE cur.k = "snap"
    <3>1. Len(Route(cur)) = 2 /\ at \in 1 .. 2 /\ at # 1
      BY <2>1, RouteFacts
    <3> QED BY ONLY <3>1
  <2>2. CASE cur.k = "delta"
    <3>1. Len(Route(cur)) = 5 /\ at \in 1 .. 5 /\ at \notin {1, 2, 3, 4}
      BY <2>2, RouteFacts
    <3> QED BY ONLY <3>1
  <2> QED BY <2>1, <2>2, RouteFacts
<1>2. MsgOK(cur)
  BY DEF IInv, CurOK
<1>3. ASSUME cur.k = "delta", NEW f \in DOMAIN cur.d, f # "layer"
      PROVE  cur.d[f] \in Value[f]
  <2>1. f \in {"job", "temp", "fan"} /\ cur.d[f] \in Value[f] \cup {Bad}
    BY <1>2, <1>3 DEF MsgOK, Field
  <2>2. cur.d[f] # Bad
    <3>1. at = 5
      BY <1>3, RouteFacts
    <3> QED BY <1>3, <2>1, <3>1 DEF IInv, CurOK
  <2> QED BY <2>1, <2>2
<1>4. ~Throws("main", cur.d) => \A f \in DOMAIN cur.d : cur.d[f] \in Value[f]
  BY <1>2, ReadsFacts DEF MsgOK, Throws
<1> QED BY <1>1, <1>2, <1>3, <1>4 DEF MsgOK

LEMMA CacheIs ==
  ASSUME IInv, NEW d, DOMAIN d \subseteq Field,
         \A f \in DOMAIN d \ {"fan"} : d[f] \in Value[f]
  PROVE  /\ Cache(d) \in [job : Value.job, temp : Value.temp \cup {None},
                          layer : Value.layer \cup {None}]
         /\ Cache(d).job = IF "job" \in DOMAIN d THEN d["job"] ELSE home.job
         /\ Cache(d).temp = IF "temp" \in DOMAIN d THEN d["temp"] ELSE home.temp
         /\ "temp" \in DOMAIN d => Cache(d).temp # None
         /\ "layer" \in DOMAIN d /\ d["layer"] # Null => Cache(d).layer = d["layer"]
         /\ "layer" \notin DOMAIN d => Cache(d).layer = home.layer
<1>1. /\ Cache(d).job = Cached(home.job, d, "job")
      /\ Cache(d).temp = Cached(home.temp, d, "temp")
      /\ Cache(d).layer = Cached(home.layer, d, "layer")
      /\ Cache(d) = [job |-> Cache(d).job, temp |-> Cache(d).temp,
                     layer |-> Cache(d).layer]
  BY DEF Cache
<1>2. "job" \in DOMAIN d => d["job"] \in Value["job"] /\ d["job"] # Null
  BY ValueFacts DEF Null
<1>3. "temp" \in DOMAIN d => d["temp"] \in Value["temp"] /\ d["temp"] # Null
                             /\ d["temp"] # None
  BY ValueFacts DEF Null, None
<1>4. home.job \in Value["job"] /\ home.temp \in Value["temp"] \cup {None}
      /\ home.layer \in Value["layer"] \cup {None}
  BY DEF IInv, CacheOK
<1>5. Cache(d).job = IF "job" \in DOMAIN d THEN d["job"] ELSE home.job
  BY <1>1, <1>2 DEF Cached
<1>6. Cache(d).temp = IF "temp" \in DOMAIN d THEN d["temp"] ELSE home.temp
  BY <1>1, <1>3 DEF Cached
<1>7. /\ "layer" \in DOMAIN d /\ d["layer"] # Null => Cache(d).layer = d["layer"]
      /\ "layer" \notin DOMAIN d => Cache(d).layer = home.layer
      /\ Cache(d).layer \in Value["layer"] \cup {None}
  BY <1>1, <1>4 DEF Cached
<1>8. Cache(d).job \in Value["job"] /\ Cache(d).temp \in Value["temp"] \cup {None}
  BY <1>2, <1>3, <1>4, <1>5, <1>6
<1> QED BY <1>1, <1>3, <1>5, <1>6, <1>7, <1>8

\* After the cockpit the message is done with; the store had it before.
LEMMA MainFinishes ==
  ASSUME IInv, at # 0, UNCHANGED world, Route(cur)[at] = "main",
         UNCHANGED <<data, seeded>>,
         IF Throws(Route(cur)[at], cur.d) \/ at = Len(Route(cur))
         THEN Finish ELSE at' = at + 1 /\ UNCHANGED cur
  PROVE  /\ KlipOK' /\ SocketOK' /\ BudgetOK' /\ CursorOK' /\ CurOK'
         /\ WireOK' /\ LastSaid' /\ CountOK' /\ DataOK' /\ StoreOK'
         /\ sub' = sub /\ base' = base /\ at' = 0
         /\ \A f \in Field : Names(wire, f)' <=> Names(wire, f)
<1>1. /\ KlipOK' /\ SocketOK' /\ BudgetOK' /\ CursorOK' /\ CurOK'
      /\ WireOK' /\ LastSaid' /\ CountOK'
      /\ at' = 0 <=> Throws(Route(cur)[at], cur.d) \/ at = Len(Route(cur))
  BY CursorMoves
<1>2. at # 1 /\ at = Len(Route(cur))
  BY AtMain
<1>3. at' = 0
  BY <1>1, <1>2
<1>4. \A f \in Field : (Names(wire, f)' <=> Names(wire, f)) /\ Said(f)' = Said(f)
  BY DEF world, Names, Said
<1>5. sub' = sub /\ base' = base
  BY DEF world
<1>6. StoreOK'
  BY <1>2, <1>3, <1>4, <1>5 DEF IInv, StoreOK
<1>7. DataOK'
  BY DEF IInv, DataOK
<1> QED BY <1>1, <1>3, <1>4, <1>5, <1>6, <1>7

\* A snapshot that init() chokes on: part of it is cached, none of it painted,
\* all of it lost.
LEMMA SeedThrows ==
  ASSUME IInv, NEW d, DOMAIN d = Field, \A f \in Field : d[f] \in Value[f] \cup {Bad},
         Unread(d, {"temp", "layer", "job"}), init(d)
  PROVE  CacheOK' /\ GlassOK' /\ lost' = Field
<1> DEFINE t == IF Unread(d, {"temp"}) THEN home.temp ELSE Cached(home.temp, d, "temp")
           l == IF Unread(d, {"temp", "layer"}) THEN home.layer
                ELSE Cached(home.layer, d, "layer")
<1>1. /\ home' = [home EXCEPT !.temp = t, !.layer = l]
      /\ lost' = lost \cup DOMAIN d /\ UNCHANGED <<rend, label>>
  BY DEF init
<1>2. CacheOK /\ GlassOK
  BY DEF IInv
<1>3. t \in Value["temp"] \cup {None} /\ l \in Value["layer"] \cup {None}
  BY <1>2 DEF Unread, Cached, CacheOK, Field
<1> HIDE DEF t, l
<1>4. lost' = Field
  BY <1>1, <1>2 DEF CacheOK
<1>5. CacheOK'
  BY <1>1, <1>2, <1>3, <1>4 DEF CacheOK
<1>6. GlassOK'
  BY <1>1, <1>2, <1>4 DEF GlassOK, Field
<1> QED BY <1>4, <1>5, <1>6

LEMMA MainSnapStep ==
  ASSUME IInv, at # 0, UNCHANGED world, Route(cur)[at] = "main", cur.k = "snap",
         init(cur.d), UNCHANGED <<data, seeded>>,
         IF Throws(Route(cur)[at], cur.d) \/ at = Len(Route(cur))
         THEN Finish ELSE at' = at + 1 /\ UNCHANGED cur
  PROVE  IInv'
<1> DEFINE d == cur.d
<1>1. /\ KlipOK' /\ SocketOK' /\ BudgetOK' /\ CursorOK' /\ CurOK'
      /\ WireOK' /\ LastSaid' /\ CountOK' /\ DataOK' /\ StoreOK'
      /\ sub' = sub /\ base' = base /\ at' = 0
      /\ \A f \in Field : Names(wire, f)' <=> Names(wire, f)
  BY MainFinishes
<1>2. DOMAIN d = Field /\ \A f \in Field : d[f] \in Value[f] \cup {Bad}
  BY AtMain
<1>3. CASE Unread(d, {"temp", "layer", "job"})
  <2>1. CacheOK' /\ GlassOK' /\ lost' = Field
    BY <1>2, <1>3, SeedThrows
  <2>2. CockpitOK'
    BY <2>1 DEF CockpitOK, Reached, Field
  <2> QED BY <1>1, <2>1, <2>2 DEF IInv
<1>4. CASE ~Unread(d, {"temp", "layer", "job"})
  <2>1. \A f \in Field \ {"fan"} : d[f] \in Value[f]
    BY <1>2, <1>4 DEF Unread, Field
  <2>2. /\ Cache(d) \in [job : Value.job, temp : Value.temp \cup {None},
                         layer : Value.layer \cup {None}]
        /\ Cache(d).job = d["job"] /\ Cache(d).temp = d["temp"]
        /\ d["layer"] # Null => Cache(d).layer = d["layer"]
    BY <1>2, <2>1, CacheIs DEF Field
  <2>3. home' = Cache(d) /\ rebuild_home(Cache(d)) /\ lost' = {"fan"}
    BY <1>2, <1>4 DEF init, IInv, CacheOK
  <2>4. \A f \in Field \ {"fan"} : sub /\ ~Names(wire, f) => d[f] = base[f]
    BY <1>2, <2>1, CurIsLast, ValuesAreAnything
  <2> HIDE DEF d
  <2>5. CacheOK' /\ GlassOK'
    BY <2>2, <2>3, Rebuilt DEF Field
  <2>6. CockpitOK'
    <3>1. \A f \in Field : Reached(f)' => f # "fan" /\ ~Names(wire, f)
      BY <1>1, <2>3 DEF Reached
    <3>2. \A f \in Field : sub' /\ Reached(f)' => d[f] = base'[f] /\ f # "fan"
      BY <1>1, <2>4, <3>1
    <3> QED BY <2>2, <2>3, <3>2 DEF CockpitOK, Field
  <2> QED BY <1>1, <2>5, <2>6 DEF IInv
<1> QED BY <1>3, <1>4

\* A malformed layer: the temperature is cached, nothing else is.
LEMMA MainThrows ==
  ASSUME IInv, at # 0, Route(cur)[at] = "main", cur.k = "delta",
         home' = [home EXCEPT !.temp = Cached(home.temp, cur.d, "temp")],
         lost' = lost \cup DOMAIN cur.d, UNCHANGED <<rend, label>>,
         sub' = sub, base' = base, at' = 0,
         \A f \in Field : Names(wire, f)' <=> Names(wire, f)
  PROVE  CacheOK' /\ GlassOK' /\ CockpitOK'
<1> DEFINE d == cur.d
<1>1. DOMAIN d \subseteq Field /\ ("temp" \in DOMAIN d => d["temp"] \in Value["temp"])
  BY AtMain
<1>2. CacheOK /\ GlassOK /\ CockpitOK
  BY DEF IInv
<1>3. /\ Cached(home.temp, d, "temp") \in Value["temp"] \cup {None}
      /\ "temp" \notin DOMAIN d => Cached(home.temp, d, "temp") = home.temp
  BY <1>1, <1>2 DEF Cached, CacheOK
<1>4. /\ home' \in [job : Value.job, temp : Value.temp \cup {None},
                    layer : Value.layer \cup {None}]
      /\ home'.job = home.job /\ home'.layer = home.layer
      /\ "temp" \notin DOMAIN d => home'.temp = home.temp
  BY <1>2, <1>3 DEF CacheOK
<1>5. CacheOK'
  BY <1>1, <1>2, <1>4 DEF CacheOK
<1>6. GlassOK'
  BY <1>2, <1>4 DEF GlassOK
<1>7. \A f \in Field : Reached(f)' => Reached(f) /\ f \notin DOMAIN d
  BY DEF Reached
<1>8. CockpitOK'
  BY <1>2, <1>4, <1>7 DEF CockpitOK, Field
<1> QED BY <1>5, <1>6, <1>8

\* The job flips: the cockpit is rebuilt from the new cache.
LEMMA MainFlips ==
  ASSUME IInv, at # 0, Route(cur)[at] = "main", ~Throws("main", cur.d),
         home' = Cache(cur.d), rebuild_home(Cache(cur.d)),
         lost' = (lost \ DOMAIN cur.d) \cup ({"fan"} \cap DOMAIN cur.d),
         sub' = sub, base' = base, at' = 0,
         \A f \in Field : Names(wire, f)' <=> Names(wire, f)
  PROVE  CacheOK' /\ GlassOK' /\ CockpitOK'
<1> DEFINE d == cur.d
<1>1. DOMAIN d \subseteq Field /\ \A f \in DOMAIN d : d[f] \in Value[f]
  BY AtMain
<1>2. /\ Cache(d) \in [job : Value.job, temp : Value.temp \cup {None},
                       layer : Value.layer \cup {None}]
      /\ Cache(d).job = IF "job" \in DOMAIN d THEN d["job"] ELSE home.job
      /\ Cache(d).temp = IF "temp" \in DOMAIN d THEN d["temp"] ELSE home.temp
      /\ "layer" \in DOMAIN d /\ d["layer"] # Null => Cache(d).layer = d["layer"]
      /\ "layer" \notin DOMAIN d => Cache(d).layer = home.layer
  BY <1>1, CacheIs
<1>3. lost' \subseteq Field /\ CockpitOK
  BY <1>1 DEF IInv, CacheOK, Field
<1>4. CacheOK' /\ GlassOK' /\ label'.fan = label.fan
  BY <1>2, <1>3, Rebuilt
<1>5. \A f \in DOMAIN d : sub /\ ~Names(wire, f) => d[f] = base[f]
  BY <1>1, CurIsLast, ValuesAreAnything
<1>6. \A f \in Field : Reached(f)' => /\ ~Names(wire, f)
                                      /\ f \in DOMAIN d => f # "fan"
                                      /\ f \notin DOMAIN d => Reached(f)
  BY DEF Reached
<1>7. \A f \in Field : sub /\ Reached(f)' /\ f \in DOMAIN d => d[f] = base[f]
  BY <1>5, <1>6
<1> HIDE DEF d
<1>8. CockpitOK'
  BY <1>2, <1>3, <1>4, <1>6, <1>7 DEF CockpitOK, Field, d
<1> QED BY <1>4, <1>8

\* The shadows decide what is repainted.
LEMMA MainRepaints ==
  ASSUME IInv, at # 0, Route(cur)[at] = "main", ~Throws("main", cur.d),
         NEW h, h = Cache(cur.d), NEW fan \in BOOLEAN,
         fan <=> "fan" \in DOMAIN cur.d /\ cur.d["fan"] # rend.fan,
         home' = h,
         rend' = [temp |-> h.temp, fan |-> IF fan THEN cur.d["fan"] ELSE rend.fan],
         label' = [home  |-> IF h.temp # rend.temp THEN h.temp ELSE label.home,
                   temps |-> IF h.temp # rend.temp THEN h.temp ELSE label.temps,
                   fan   |-> IF fan THEN cur.d["fan"] ELSE label.fan,
                   layer |-> IF h.job = "printing" THEN h.layer ELSE label.layer],
         lost' = lost \ {f \in DOMAIN cur.d : f # "fan" \/ fan},
         sub' = sub, base' = base, at' = 0,
         \A f \in Field : Names(wire, f)' <=> Names(wire, f)
  PROVE  CacheOK' /\ GlassOK' /\ CockpitOK'
<1> DEFINE d == cur.d
<1>1. DOMAIN d \subseteq Field /\ \A f \in DOMAIN d : d[f] \in Value[f]
  BY AtMain
<1>2. /\ h \in [job : Value.job, temp : Value.temp \cup {None},
                layer : Value.layer \cup {None}]
      /\ h.job = IF "job" \in DOMAIN d THEN d["job"] ELSE home.job
      /\ h.temp = IF "temp" \in DOMAIN d THEN d["temp"] ELSE home.temp
      /\ "temp" \in DOMAIN d => h.temp # None
      /\ "layer" \in DOMAIN d /\ d["layer"] # Null => h.layer = d["layer"]
      /\ "layer" \notin DOMAIN d => h.layer = home.layer
  BY <1>1, CacheIs
<1>3. CacheOK /\ GlassOK /\ CockpitOK
  BY DEF IInv
<1>4. "fan" \in DOMAIN d => d["fan"] \in Value["fan"] /\ d["fan"] # None
  BY <1>1, ValueFacts DEF None
<1>5. /\ h.job \in Value["job"] /\ h.temp \in Value["temp"] \cup {None}
      /\ h.layer \in Value["layer"] \cup {None}
      /\ label.home \in Value["temp"] \cup {None} /\ label.fan \in Value["fan"] \cup {None}
      /\ label.temps \in Value["temp"] \cup {None} /\ rend.fan \in Value["fan"] \cup {None}
      /\ label.layer \in Value["layer"] \cup {None}
  BY <1>2, <1>3 DEF CacheOK
<1>6. \A f \in DOMAIN d : sub /\ ~Names(wire, f) => d[f] = base[f]
  BY <1>1, CurIsLast, ValuesAreAnything
<1>7. /\ rend'.temp = h.temp /\ rend'.fan = IF fan THEN d["fan"] ELSE rend.fan
      /\ label'.home = IF h.temp # rend.temp THEN h.temp ELSE label.home
      /\ label'.temps = IF h.temp # rend.temp THEN h.temp ELSE label.temps
      /\ label'.fan = IF fan THEN d["fan"] ELSE label.fan
      /\ label'.layer = IF h.job = "printing" THEN h.layer ELSE label.layer
  OBVIOUS
<1>8. /\ rend' = [temp |-> rend'.temp, fan |-> rend'.fan]
      /\ label' = [home |-> label'.home, temps |-> label'.temps,
                   fan |-> label'.fan, layer |-> label'.layer]
  BY <1>7
<1>9. /\ fan <=> "fan" \in DOMAIN d /\ d["fan"] # rend.fan
      /\ \A f \in Field : f \notin lost' <=> f \notin lost
                                             \/ (f \in DOMAIN d /\ (f # "fan" \/ fan))
  OBVIOUS
<1>10. \A f \in Field : Reached(f)' => /\ ~Names(wire, f) /\ f \notin lost'
                                       /\ f \notin DOMAIN d => Reached(f)
  BY DEF Reached
<1> HIDE DEF d
<1>11. CacheOK'
  <2>1. /\ rend'.temp \in Value["temp"] \cup {None} /\ rend'.fan \in Value["fan"] \cup {None}
        /\ label'.home \in Value["temp"] \cup {None}
        /\ label'.temps \in Value["temp"] \cup {None}
        /\ label'.fan \in Value["fan"] \cup {None}
        /\ label'.layer \in Value["layer"] \cup {None}
    BY <1>4, <1>5, <1>7, <1>9
  <2>2. lost' \subseteq Field
    BY <1>3 DEF CacheOK
  <2> QED BY <1>2, <1>8, <2>1, <2>2 DEF CacheOK
<1>12. GlassOK'
  <2>1. rend'.temp # None => label'.home = rend'.temp /\ label'.temps = rend'.temp
    BY ONLY <1>3, <1>7 DEF GlassOK
  <2>2. "temp" \notin lost' => label'.home = h.temp
    <3>1. CASE h.temp # None
      BY ONLY <1>7, <2>1, <3>1
    <3>2. CASE h.temp = None
      <4>1. "temp" \notin DOMAIN d /\ h.temp = home.temp
        BY ONLY <1>2, <3>2
      <4>2. "temp" \notin lost' => "temp" \notin lost
        BY <1>9, <4>1 DEF Field
      <4> QED BY ONLY <1>3, <1>7, <4>1, <4>2 DEF GlassOK
    <3> QED BY <3>1, <3>2
  <2>3. "fan" \notin lost' /\ rend'.fan # None => label'.fan = rend'.fan
    <3>1. ~fan => ("fan" \notin lost' => "fan" \notin lost)
      BY <1>9 DEF Field
    <3> QED BY ONLY <1>3, <1>7, <3>1 DEF GlassOK
  <2> QED BY <1>7, <2>1, <2>2, <2>3 DEF GlassOK
<1>13. CockpitOK'
  <2>1. \A f \in Field : sub /\ Reached(f)' /\ f \in DOMAIN d => d[f] = base[f]
    BY <1>6, <1>10
  <2>2. sub /\ Reached("fan")' => label'.fan = base.fan
    <3>1. "fan" \in Field
      BY DEF Field
    <3>2. CASE fan
      BY <1>7, <1>9, <2>1, <3>1, <3>2
    <3>3. CASE ~fan /\ "fan" \in DOMAIN d
      <4>1. d["fan"] = rend.fan /\ rend.fan # None
        BY <1>4, <1>9, <3>3
      <4>2. Reached("fan")' => "fan" \notin lost
        BY <1>9, <1>10, <3>1, <3>3
      <4> QED BY <1>3, <1>7, <2>1, <3>1, <3>3, <4>1, <4>2 DEF GlassOK
    <3>4. CASE "fan" \notin DOMAIN d
      BY <1>3, <1>7, <1>9, <1>10, <3>1, <3>4 DEF CockpitOK
    <3> QED BY <3>2, <3>3, <3>4
  <2>3. sub => /\ Reached("job")' => h.job = base.job
               /\ Reached("temp")' => h.temp = base.temp
               /\ Reached("layer")' /\ base.layer # Null => h.layer = base.layer
    BY <1>2, <1>3, <1>10, <2>1 DEF CockpitOK, Field
  <2> QED BY <2>2, <2>3 DEF CockpitOK
<1> QED BY <1>11, <1>12, <1>13

LEMMA MainDeltaStep ==
  ASSUME IInv, at # 0, UNCHANGED world, Route(cur)[at] = "main", cur.k = "delta",
         consume(cur.d), UNCHANGED <<data, seeded>>,
         IF Throws(Route(cur)[at], cur.d) \/ at = Len(Route(cur))
         THEN Finish ELSE at' = at + 1 /\ UNCHANGED cur
  PROVE  IInv'
<1>1. /\ KlipOK' /\ SocketOK' /\ BudgetOK' /\ CursorOK' /\ CurOK'
      /\ WireOK' /\ LastSaid' /\ CountOK' /\ DataOK' /\ StoreOK'
      /\ sub' = sub /\ base' = base /\ at' = 0
      /\ \A f \in Field : Names(wire, f)' <=> Names(wire, f)
  BY MainFinishes
<1> DEFINE h == Cache(cur.d)
           fan == "fan" \in DOMAIN cur.d /\ cur.d["fan"] # rend.fan
<1>2. CASE Throws("main", cur.d)
  <2>1. CacheOK' /\ GlassOK' /\ CockpitOK'
    BY <1>1, <1>2, MainThrows DEF consume
  <2> QED BY <1>1, <2>1 DEF IInv
<1>3. CASE ~Throws("main", cur.d) /\ h.job # home.job
  <2>1. CacheOK' /\ GlassOK' /\ CockpitOK'
    BY <1>1, <1>3, MainFlips DEF consume
  <2> QED BY <1>1, <2>1 DEF IInv
<1>4. CASE ~Throws("main", cur.d) /\ h.job = home.job
  <2>1. fan \in BOOLEAN
    BY Zenon
  <2>2. /\ home' = h
        /\ rend' = [temp |-> h.temp, fan |-> IF fan THEN cur.d["fan"] ELSE rend.fan]
        /\ label' = [home  |-> IF h.temp # rend.temp THEN h.temp ELSE label.home,
                     temps |-> IF h.temp # rend.temp THEN h.temp ELSE label.temps,
                     fan   |-> IF fan THEN cur.d["fan"] ELSE label.fan,
                     layer |-> IF h.job = "printing" THEN h.layer ELSE label.layer]
        /\ lost' = lost \ {f \in DOMAIN cur.d : f # "fan" \/ fan}
    BY <1>4 DEF consume
  <2>3. CacheOK' /\ GlassOK' /\ CockpitOK'
    BY <1>1, <1>4, <2>1, <2>2, MainRepaints
  <2> QED BY <1>1, <2>3 DEF IInv
<1> QED BY <1>2, <1>3, <1>4

LEMMA DeliverStep ==
  ASSUME IInv, Deliver PROVE IInv'
<1>1. /\ at # 0 /\ UNCHANGED world
      /\ IF Throws(Route(cur)[at], cur.d) \/ at = Len(Route(cur))
         THEN Finish ELSE at' = at + 1 /\ UNCHANGED cur
  BY DEF Deliver
<1>2. CASE Route(cur)[at] = "state"
  BY <1>1, <1>2, StoreStep DEF Deliver
<1>3. CASE Route(cur)[at] = "main" /\ cur.k = "snap"
  BY <1>1, <1>3, MainSnapStep DEF Deliver
<1>4. CASE Route(cur)[at] = "main" /\ cur.k = "delta"
  BY <1>1, <1>4, MainDeltaStep DEF Deliver
<1>5. CASE Route(cur)[at] \in {"homing", "sliders", "extruder"}
  BY <1>1, <1>5, BetweenStep DEF Deliver
<1> QED BY <1>1, <1>2, <1>3, <1>4, <1>5 DEF Deliver
-----------------------------------------------------------------------------
LEMMA StatusStart == StatusInit => IInv
<1> SUFFICES ASSUME StatusInit PROVE IInv
  OBVIOUS
<1>1. MsgOK(Event("open")) /\ Event("open").k = "open" /\ DOMAIN Event("open").d = {}
  BY EventOK
<1>2. MsgOK(Event("idle")) /\ Event("idle").k = "idle" /\ DOMAIN Event("idle").d = {}
  BY EventOK
<1>3. /\ wire \in Seq(Message) /\ Len(wire) = 1 /\ wire[1] = Event("open")
  BY <1>1 DEF StatusInit, MsgOK
<1>4. KlipOK
  BY RestingIs DEF StatusInit, KlipOK
<1>5. SocketOK
  <2>1. sub \in BOOLEAN /\ link \in BOOLEAN
    BY Zenon DEF StatusInit
  <2>2. asked \in 0 .. 1 + MaxFaults
    BY StatusAssumption DEF StatusInit
  <2> QED BY <1>3, <2>1, <2>2, StatusAssumption DEF SocketOK
<1>6. BudgetOK /\ budget.faults = MaxFaults
  BY StatusAssumption DEF StatusInit, BudgetOK
<1>7. CursorOK
  BY <1>2 DEF StatusInit, CursorOK, MsgOK, notify_consumers
<1>8. DataOK
  <2>1. seeded \in BOOLEAN
    BY Zenon DEF StatusInit
  <2> QED BY <2>1, ValuesAreAnything DEF StatusInit, DataOK
<1>9. CacheOK
  BY ValueFacts DEF StatusInit, CacheOK
<1>10. CurOK
  BY <1>2 DEF StatusInit, CurOK
<1>11. WireOK
  BY <1>1, <1>3 DEF StatusInit, WireOK
<1>12. \A f \in Field : ~Names(wire, f)
  BY <1>1, <1>3 DEF Names
<1>13. LastSaid
  <2>1. \A f \in Field : Says(wire, f, Raw(f))
    BY <1>1, <1>3 DEF Says
  <2> QED BY <2>1 DEF LastSaid, StatusInit
<1>14. StoreOK /\ CockpitOK
  BY DEF StatusInit, StoreOK, CockpitOK
<1>15. GlassOK
  BY DEF StatusInit, GlassOK, Field
<1>16. CountOK
  <2>1. {i \in 1 .. Len(wire) : wire[i].k = "open"} = {1}
    BY <1>1, <1>3
  <2>2. Cardinality({1}) = 1
    BY FS_Singleton, Zenon
  <2>3. Opens(wire) = 1
    BY <2>1, <2>2 DEF Opens
  <2>4. asked = 0 /\ link
    BY DEF StatusInit
  <2> QED BY <1>6, <2>3, <2>4, StatusAssumption DEF CountOK
<1> QED BY <1>4, <1>5, <1>6, <1>7, <1>8, <1>9, <1>10, <1>11, <1>13, <1>14,
           <1>15, <1>16 DEF IInv

LEMMA StatusStep == IInv /\ [StatusNext]_vars => IInv'
<1> SUFFICES ASSUME IInv, [StatusNext]_vars PROVE IInv'
  OBVIOUS
<1>1. CASE OnMessage
  BY <1>1, OnMessageStep
<1>2. CASE Deliver
  BY <1>2, DeliverStep
<1>3. CASE \E v \in Value.fan : FanSlider(v)
  BY <1>3, FanSliderStep
<1>4. CASE \E f \in Field : \E v \in Value[f] : Change(f, v)
  BY <1>4, ChangeStep
<1>5. CASE \E bad \in {{}} \cup {{f} : f \in Field} : Notify(bad)
  BY <1>5, NotifyStep
<1>6. CASE \E bad \in {{}} \cup {{f} : f \in Field} : AnswerSubscribe(bad)
  BY <1>6, AnswerStep
<1>7. CASE LinkDrop
  BY <1>7, LinkDropStep
<1>8. CASE Reconnect \/ KlippyReady
  BY <1>8, ReopenStep
<1>9. CASE KlippyRestart
  BY <1>9, RestartStep
<1>10. CASE UNCHANGED vars
  <2>1. UNCHANGED world /\ UNCHANGED <<cur, at, screen>>
    BY <1>10 DEF vars
  <2>2. CursorOK' /\ DataOK' /\ CacheOK' /\ CurOK' /\ GlassOK'
    BY <2>1, ScreenKept
  <2>3. LastSaid' /\ StoreOK' /\ CockpitOK'
    BY <2>1, Unmoved DEF world, screen
  <2>4. KlipOK' /\ SocketOK' /\ BudgetOK' /\ WireOK'
    BY <2>1 DEF IInv, KlipOK, SocketOK, BudgetOK, WireOK, world
  <2>5. CountOK'
    BY <2>1 DEF IInv, CountOK, world
  <2> QED BY <2>2, <2>3, <2>4, <2>5 DEF IInv
<1> QED BY <1>1, <1>2, <1>3, <1>4, <1>5, <1>6, <1>7, <1>8, <1>9, <1>10
        DEF StatusNext

LEMMA StatusInvariant == StatusSpec => []IInv
  BY StatusStart, StatusStep, PTL DEF StatusSpec

(***************************************************************************)
(* Every variable of the status fan-out keeps its type: no handshake is    *)
(* asked for beyond the first one and one per fault, the socket never      *)
(* holds more than its bound, and nothing malformed is ever cached or      *)
(* painted by the cockpit (websocket_client.cpp, main_panel.cpp).          *)
(***************************************************************************)
THEOREM StatusTypeCorrect == StatusSpec => []StatusTypeOK
<1>1. IInv => StatusTypeOK
  BY TypeParts DEF IInv
<1> QED BY <1>1, StatusInvariant, PTL

(***************************************************************************)
(* State is first in notify_consumers and merges: whatever the panels      *)
(* throw and whatever handshakes overlap, printer_state holds exactly what *)
(* Moonraker last said of every field once nothing is under way.           *)
(***************************************************************************)
THEOREM StoreIsCurrent == StatusSpec => []StateIsCurrent
<1>1. IInv => StateIsCurrent
  <2> SUFFICES ASSUME IInv, Quiet, NEW f \in Field PROVE data[f] = Said(f)
    BY DEF StateIsCurrent
  <2>1. sub /\ seeded /\ at = 0 /\ wire = <<>>
    BY DEF Quiet
  <2>2. ~Names(wire, f)
    BY <2>1 DEF Names
  <2> QED BY <2>1, <2>2 DEF IInv, StoreOK
<1> QED BY <1>1, StatusInvariant, PTL

(***************************************************************************)
(* The cockpit shows what Moonraker last said of every field that no       *)
(* throw, flip or slider kept from it: MainPanel::consume and rebuild_home *)
(* leave no stale temperature, fan or layer on the glass.                  *)
(***************************************************************************)
THEOREM GlassIsCurrent == StatusSpec => []CockpitIsCurrent
<1>1. IInv => CockpitIsCurrent
  <2> SUFFICES ASSUME IInv, Quiet PROVE
        /\ "job" \notin lost => home.job = base.job
        /\ "temp" \notin lost =>
             /\ label.home = base.temp
             /\ rend.temp # None => label.temps = base.temp
        /\ "layer" \notin lost /\ base.layer # Null => home.layer = base.layer
        /\ "fan" \notin lost => label.fan = base.fan
        /\ "layer" \notin lost /\ home.job = "printing" => label.layer = home.layer
    BY DEF CockpitIsCurrent
  <2>1. sub /\ at = 0 /\ wire = <<>>
    BY DEF Quiet
  <2>2. \A f \in Field : f \notin lost => Reached(f)
    BY <2>1 DEF Names, Reached
  <2>3. CockpitOK /\ GlassOK
    BY DEF IInv
  <2>4. /\ "job" \notin lost => home.job = base.job
        /\ "temp" \notin lost => home.temp = base.temp
        /\ "layer" \notin lost /\ base.layer # Null => home.layer = base.layer
        /\ "fan" \notin lost => label.fan = base.fan
    BY <2>1, <2>2, <2>3 DEF CockpitOK, Field
  <2> QED BY <2>3, <2>4 DEF GlassOK
<1> QED BY <1>1, StatusInvariant, PTL
-----------------------------------------------------------------------------
(* Convergence. GlassSettles in two halves that need no fairness: where the *)
(* websocket thread and Moonraker have nothing left to do the glass is      *)
(* right, and every step uses up a bounded fault or change or lowers the    *)
(* work under way, so that nothing goes on for ever.                        *)

Carries(w, k) == \E i \in 1 .. Len(w) : w[i].k = k

\* Nobody waits for a handshake that is not under way: on a live link either
\* connected() is still to run, a subscribe request is unanswered, or the
\* subscription is there with its snapshot stored or coming.
HandshakeOK ==
  link => \/ asked > 0 \/ Carries(wire, "open")
          \/ sub /\ (seeded \/ Carries(wire, "snap") \/ (at = 1 /\ cur.k = "snap"))

\* No fair action of StatusSpec can be taken, each by its guard: Deliver,
\* OnMessage, Reconnect, AnswerSubscribe, Notify.
AtRest == at = 0 /\ wire = <<>> /\ link /\ asked = 0 /\ ~(sub /\ Changed # {})

Left == budget.changes + budget.faults + budget.garbled

\* A message costs one onmessage and at most five consumers, a request its
\* answer, an open the request, a lost link the open, and what Moonraker has
\* not said the delta that says it.
Reading == IF at = 0 THEN 0 ELSE 6 - at
Down    == IF link THEN 0 ELSE 9
Unsaid  == IF Changed = {} THEN 0 ELSE 7
Weigh(l, o, a, r, d, u) == 6 * l + 2 * o + 7 * a + r + d + u
Work == Weigh(Len(wire), Opens(wire), asked, Reading, Down, Unsaid)

RunsDown == Left' < Left \/ (Left' = Left /\ Work' < Work)

LEMMA AppendCarries ==
  ASSUME NEW w \in Seq(Message), NEW m \in Message
  PROVE  /\ Append(w, m) \in Seq(Message) /\ Len(Append(w, m)) = Len(w) + 1
         /\ Carries(Append(w, m), m.k)
         /\ \A k : Carries(w, k) => Carries(Append(w, m), k)
<1>1. /\ Append(w, m) \in Seq(Message) /\ Len(Append(w, m)) = Len(w) + 1
      /\ Len(w) \in Nat /\ Append(w, m)[Len(w) + 1] = m
      /\ \A i \in 1 .. Len(w) : Append(w, m)[i] = w[i]
  BY AppendProperties, LenProperties
<1>2. Len(w) + 1 \in 1 .. Len(w) + 1
  BY <1>1
<1>3. Carries(Append(w, m), m.k)
  BY <1>1, <1>2 DEF Carries
<1>4. \A i \in 1 .. Len(w) : i \in 1 .. Len(w) + 1
  BY <1>1
<1> QED BY <1>1, <1>3, <1>4 DEF Carries

LEMMA TailCarries ==
  ASSUME NEW w \in Seq(Message), w # <<>>, NEW k, Carries(w, k), Head(w).k # k
  PROVE  Carries(Tail(w), k)
<1>1. /\ Len(w) \in Nat \ {0} /\ Head(w) = w[1] /\ Len(Tail(w)) = Len(w) - 1
      /\ \A i \in 1 .. Len(w) - 1 : Tail(w)[i] = w[i + 1]
  BY TailWire
<1>2. PICK i \in 1 .. Len(w) : w[i].k = k
  BY DEF Carries
<1>3. i # 1
  BY <1>1, <1>2
<1>4. i - 1 \in 1 .. Len(w) - 1 /\ (i - 1) + 1 = i
  BY <1>1, <1>3
<1>5. Tail(w)[i - 1] = w[i]
  BY <1>1, <1>4
<1> QED BY <1>1, <1>2, <1>4, <1>5 DEF Carries

\* The two messages of a Klipper restart.
LEMMA RestartWire ==
  ASSUME NEW w \in Seq(Message)
  PROVE  LET x == w \o <<Event("lost"), Event("open")>>
         IN Carries(x, "open")
<1> DEFINE w1 == Append(w, Event("lost"))
<1>1. /\ Event("lost") \in Message
      /\ Event("open") \in Message /\ Event("open").k = "open"
  BY EventOK DEF MsgOK
<1>2. w \o <<Event("lost"), Event("open")>> = Append(w1, Event("open"))
  BY <1>1
<1>3. w1 \in Seq(Message)
  BY <1>1, AppendCarries
<1> HIDE DEF w1
<1>4. Carries(Append(w1, Event("open")), Event("open").k)
  BY <1>1, <1>3, AppendCarries
<1> QED BY <1>1, <1>2, <1>4

LEMMA HandshakeKept ==
  ASSUME HandshakeOK, link' => link, UNCHANGED <<asked, sub, cur, at>>,
         seeded' = seeded, \A k : Carries(wire, k) => Carries(wire', k)
  PROVE  HandshakeOK'
<1>1. \A k : Carries(wire, k) => Carries(wire, k)'
  BY DEF Carries
<1> QED BY <1>1 DEF HandshakeOK

LEMMA HandshakeMessage ==
  ASSUME IInv, HandshakeOK, OnMessage PROVE HandshakeOK'
<1>1. /\ wire \in Seq(Message) /\ wire # <<>> /\ wire' = Tail(wire) /\ at = 0
      /\ UNCHANGED <<link, sub>> /\ asked \in Nat
  BY Numbers DEF OnMessage
<1>2. Head(wire) \in Message
  BY <1>1, TailWire
<1>3. \A k : Carries(wire, k) /\ Head(wire).k # k => Carries(Tail(wire), k)
  BY <1>1, TailCarries
<1>4. \A k : Carries(wire, k)' <=> Carries(Tail(wire), k)
  BY <1>1 DEF Carries
<1>5. CASE Head(wire).k = "open"
  <2>1. asked' = asked + 1
    BY <1>5 DEF OnMessage, connected
  <2>2. asked' > 0
    BY <1>1, <2>1
  <2> QED BY <2>2 DEF HandshakeOK
<1>6. CASE Head(wire).k \in {"lost", "refused"}
  <2>1. UNCHANGED <<cur, at, asked, seeded>>
    BY <1>6 DEF OnMessage, screen
  <2> QED BY <1>1, <1>3, <1>4, <1>6, <2>1 DEF HandshakeOK
<1>7. CASE Head(wire).k \notin {"open", "lost", "refused"}
  <2>1. cur' = Head(wire) /\ at' = 1 /\ UNCHANGED <<asked, seeded>>
    BY <1>7 DEF OnMessage, screen
  <2>2. Carries(wire, "open") => Carries(wire, "open")'
    BY <1>3, <1>4, <1>7
  <2>3. Carries(wire, "snap") => Carries(wire, "snap")' \/ (at' = 1 /\ cur'.k = "snap")
    BY <1>3, <1>4, <2>1
  <2> QED BY <1>1, <2>1, <2>2, <2>3 DEF HandshakeOK
<1> QED BY <1>5, <1>6, <1>7

LEMMA HandshakeDeliver ==
  ASSUME IInv, HandshakeOK, Deliver PROVE HandshakeOK'
<1>1. at # 0 /\ UNCHANGED <<link, asked, sub, wire>>
  BY DEF Deliver, world
<1>2. Carries(wire, "open")' = Carries(wire, "open")
      /\ Carries(wire, "snap")' = Carries(wire, "snap")
  BY <1>1 DEF Carries
<1>3. seeded \in BOOLEAN /\ (seeded => seeded')
  BY DEF Deliver, IInv, DataOK
<1>4. at = 1 /\ cur.k = "snap" => seeded'
  <2> SUFFICES ASSUME at = 1, cur.k = "snap" PROVE seeded'
    OBVIOUS
  <2>1. Route(cur)[at] = "state"
    BY <1>1, RouteFacts
  <2> QED BY <2>1 DEF Deliver
<1> QED BY <1>1, <1>2, <1>3, <1>4 DEF HandshakeOK

LEMMA SnapIs ==
  ASSUME IInv, NEW bad
  PROVE  LET d == [f \in Field |-> IF f \in bad THEN Bad ELSE klip[f]]
         IN Status("snap", d) \in Message /\ Status("snap", d).k = "snap"
<1> DEFINE d == [f \in Field |-> IF f \in bad THEN Bad ELSE klip[f]]
<1>1. d \in [Field -> Anything]
  BY ValuesAreAnything DEF IInv, KlipOK
<1> HIDE DEF d
<1>2. d \in Partial
  BY <1>1 DEF Partial
<1>3. Status("snap", d) \in Message /\ Status("snap", d).k = "snap"
  BY <1>2 DEF Status, Message
<1> QED BY <1>3 DEF d

LEMMA HandshakeStep == IInv /\ HandshakeOK /\ [StatusNext]_vars => HandshakeOK'
<1> SUFFICES ASSUME IInv, HandshakeOK, [StatusNext]_vars PROVE HandshakeOK'
  OBVIOUS
<1>0. wire \in Seq(Message)
  BY Numbers
<1>1. CASE OnMessage
  BY <1>1, HandshakeMessage
<1>2. CASE Deliver
  BY <1>2, HandshakeDeliver
<1>3. CASE (\E v \in Value.fan : FanSlider(v))
           \/ (\E f \in Field : \E v \in Value[f] : Change(f, v))
  BY <1>3, HandshakeKept DEF FanSlider, Change, screen
<1>4. ASSUME NEW bad, Notify(bad) PROVE HandshakeOK'
  <2> DEFINE d == [f \in Changed |-> IF f \in bad THEN Bad ELSE klip[f]]
  <2>1. wire' = Append(wire, Status("delta", d)) /\ UNCHANGED <<link, asked, sub, cur, at>>
        /\ seeded' = seeded
    BY <1>4 DEF Notify, screen
  <2>2. Status("delta", d) \in Message
    <3>1. Changed \subseteq Field /\ klip \in [Field -> Anything] /\ Bad \in Anything
      BY ValuesAreAnything DEF Changed, IInv, KlipOK
    <3>2. d \in [Changed -> Anything]
      BY <3>1
    <3> HIDE DEF d
    <3>3. d \in Partial
      BY <3>1, <3>2 DEF Partial
    <3> QED BY <3>3 DEF Status, Message
  <2> HIDE DEF d
  <2>3. \A k : Carries(wire, k) => Carries(wire', k)
    BY <1>0, <2>1, <2>2, AppendCarries
  <2> QED BY <2>1, <2>3, HandshakeKept
<1>5. ASSUME NEW bad, AnswerSubscribe(bad) PROVE HandshakeOK'
  <2> DEFINE d == [f \in Field |-> IF f \in bad THEN Bad ELSE klip[f]]
  <2>1. wire' = Append(wire, Status("snap", d)) /\ sub'
    BY <1>5 DEF AnswerSubscribe
  <2>2. Status("snap", d) \in Message /\ Status("snap", d).k = "snap"
    BY SnapIs
  <2> HIDE DEF d
  <2>3. Carries(wire', "snap")
    BY <1>0, <2>1, <2>2, AppendCarries
  <2>4. Carries(wire, "snap")'
    BY <2>3 DEF Carries
  <2> QED BY <2>1, <2>4 DEF HandshakeOK
<1>6. CASE LinkDrop
  BY <1>6 DEF LinkDrop, HandshakeOK
<1>7. CASE Reconnect \/ KlippyReady \/ KlippyRestart
  <2>1. Event("open") \in Message /\ Event("open").k = "open"
    BY EventOK DEF MsgOK
  <2>2. Carries(wire', "open")
    <3>1. CASE Reconnect \/ KlippyReady
      BY <1>0, <2>1, <3>1, AppendCarries DEF Reconnect, KlippyReady
    <3>2. CASE KlippyRestart
      <4>1. PICK w \in Refusals : wire' = w \o <<Event("lost"), Event("open")>>
        BY <3>2 DEF KlippyRestart
      <4>2. w \in Seq(Message)
        BY RefusalsAre
      <4> QED BY <4>1, <4>2, RestartWire
    <3> QED BY <1>7, <3>1, <3>2
  <2>3. Carries(wire, "open")'
    BY <2>2 DEF Carries
  <2> QED BY <2>3 DEF HandshakeOK
<1>8. CASE UNCHANGED vars
  BY <1>8, HandshakeKept DEF vars, world, screen
<1> QED BY <1>1, <1>2, <1>3, <1>4, <1>5, <1>6, <1>7, <1>8 DEF StatusNext

LEMMA HandshakeInvariant == StatusSpec => []HandshakeOK
<1>1. StatusInit => HandshakeOK
  <2> SUFFICES ASSUME StatusInit PROVE Carries(wire, "open")
    BY DEF HandshakeOK
  <2>1. Event("open").k = "open" /\ wire = <<Event("open")>>
    BY EventOK DEF StatusInit
  <2> QED BY <2>1 DEF Carries
<1> QED BY <1>1, HandshakeStep, StatusInvariant, PTL DEF StatusSpec

(***************************************************************************)
(* Nothing is left undone: wherever the websocket thread, libhv and        *)
(* Moonraker have no step to take, the subscription is live, the store     *)
(* seeded, Klipper has nothing unsaid, and store and cockpit are right. No *)
(* overlap of handshakes, drops and restarts leaves the screen waiting for *)
(* a reply that nobody owes it (connected(), websocket_client.cpp).        *)
(***************************************************************************)
THEOREM RestIsSettled ==
  StatusSpec =>
    [](AtRest => Quiet /\ Changed = {} /\ StateIsCurrent /\ CockpitIsCurrent)
<1>1. HandshakeOK /\ AtRest => Quiet /\ Changed = {}
  BY DEF HandshakeOK, AtRest, Quiet, Carries
<1> QED BY <1>1, HandshakeInvariant, StoreIsCurrent, GlassIsCurrent, PTL

LEMMA WorkNumbers ==
  ASSUME IInv
  PROVE  /\ Reading \in Nat /\ Down \in {0, 9} /\ Unsaid \in {0, 7}
         /\ Len(wire) \in Nat /\ Opens(wire) \in Nat /\ asked \in Nat
         /\ at \in 0 .. 5 /\ wire \in Seq(Message)
         /\ budget.changes \in Nat /\ budget.faults \in Nat /\ budget.garbled \in Nat
<1>1. at \in 0 .. 5
  BY DEF IInv, CursorOK, notify_consumers
<1>2. Reading \in Nat /\ Down \in {0, 9} /\ Unsaid \in {0, 7}
  BY <1>1 DEF Reading, Down, Unsaid
<1> QED BY <1>1, <1>2, Numbers

\* What each of the fair steps does to the weight: a delta is sent, a request
\* is answered, the link comes back, an open or another frame is read, a
\* consumer is done.
LEMMA Weights ==
  ASSUME NEW l \in Nat, NEW o \in Nat, NEW a \in Nat, NEW r \in Nat,
         NEW d \in Nat, NEW u \in Nat
  PROVE  /\ Weigh(l, o, a, r, d, u) \in Nat
         /\ Weigh(l + 1, o, a, r, d, 0) < Weigh(l, o, a, r, d, 7)
         /\ a > 0 => Weigh(l + 1, o, a - 1, r, d, 0) < Weigh(l, o, a, r, d, u)
         /\ Weigh(l + 1, o + 1, a, r, 0, u) < Weigh(l, o, a, r, 9, u)
         /\ Weigh(l, o, a + 1, 0, d, u) < Weigh(l + 1, o + 1, a, 0, d, u)
         /\ Weigh(l, o, a, 5, d, u) < Weigh(l + 1, o, a, 0, d, u)
         /\ Weigh(l, o, a, 0, d, u) < Weigh(l + 1, o, a, 0, d, u)
         /\ \A q \in Nat : q < r => Weigh(l, o, a, q, d, u) < Weigh(l, o, a, r, d, u)
  BY DEF Weigh

LEMMA WorkFalls ==
  ASSUME budget' = budget, Work' < Work
  PROVE  RunsDown
  BY DEF Left, RunsDown

LEMMA ChangeRunsDown ==
  ASSUME IInv, budget.changes > 0, budget' = [budget EXCEPT !.changes = @ - 1]
  PROVE  RunsDown
<1>1. /\ budget'.changes = budget.changes - 1
      /\ budget'.faults = budget.faults /\ budget'.garbled = budget.garbled
  BY DEF IInv, BudgetOK
<1>2. budget.changes \in Nat /\ budget.faults \in Nat /\ budget.garbled \in Nat
  BY WorkNumbers
<1>3. Left' < Left
  BY ONLY <1>1, <1>2, budget.changes > 0 DEF Left
<1> QED BY <1>3 DEF RunsDown

LEMMA FaultRunsDown ==
  ASSUME IInv, Fault
  PROVE  RunsDown
<1>1. /\ budget'.changes = budget.changes /\ budget.faults > 0
      /\ budget'.faults = budget.faults - 1 /\ budget'.garbled = budget.garbled
  BY DEF IInv, BudgetOK, Fault
<1>2. budget.changes \in Nat /\ budget.faults \in Nat /\ budget.garbled \in Nat
  BY WorkNumbers
<1>3. Left' < Left
  BY ONLY <1>1, <1>2 DEF Left
<1> QED BY <1>3 DEF RunsDown

LEMMA GarbledLeft ==
  ASSUME IInv, NEW bad \in {{}} \cup {{f} : f \in Field},
         budget' = [budget EXCEPT !.garbled = @ - Cardinality(bad)]
  PROVE  budget' = budget \/ Left' < Left
<1>1. /\ budget.changes \in Nat /\ budget.faults \in Nat /\ budget.garbled \in Nat
      /\ budget \in [changes : 0 .. MaxChanges, faults : 0 .. MaxFaults,
                     garbled : 0 .. MaxGarbled]
  BY WorkNumbers DEF IInv, BudgetOK
<1>2. CASE bad = {}
  <2>1. Cardinality({}) = 0
    BY FS_EmptySet, Zenon
  <2>2. budget' = [budget EXCEPT !.garbled = @ - 0]
    BY <1>2, <2>1
  <2>3. budget' = budget
    BY <1>1, <2>2
  <2> QED BY <2>3
<1>3. ASSUME NEW f \in Field, bad = {f} PROVE Left' < Left
  <2>1. Cardinality({f}) = 1
    BY FS_Singleton, Zenon
  <2>2. budget' = [budget EXCEPT !.garbled = @ - 1]
    BY <1>3, <2>1
  <2>3. /\ budget'.changes = budget.changes /\ budget'.faults = budget.faults
        /\ budget'.garbled = budget.garbled - 1
    BY <1>1, <2>2
  <2> QED BY ONLY <1>1, <2>3 DEF Left
<1> QED BY <1>2, <1>3

LEMMA NotifyRunsDown ==
  ASSUME IInv, NEW bad \in {{}} \cup {{f} : f \in Field}, Notify(bad)
  PROVE  RunsDown
<1>0. /\ Reading \in Nat /\ Down \in Nat /\ Unsaid \in Nat
      /\ Len(wire) \in Nat /\ Opens(wire) \in Nat /\ asked \in Nat
      /\ Down \in {0, 9} /\ Unsaid \in {0, 7} /\ wire \in Seq(Message)
  BY WorkNumbers
<1> DEFINE d == [f \in Changed |-> IF f \in bad THEN Bad ELSE klip[f]]
<1>1. /\ wire' = Append(wire, Status("delta", d)) /\ Changed # {}
      /\ base' = klip /\ UNCHANGED <<klip, asked, link, at>>
      /\ budget' = [budget EXCEPT !.garbled = @ - Cardinality(bad)]
  BY DEF Notify
<1>2. Status("delta", d) \in Message /\ Status("delta", d).k = "delta"
  <2>1. Changed \subseteq Field /\ klip \in [Field -> Anything] /\ Bad \in Anything
    BY ValuesAreAnything DEF Changed, IInv, KlipOK
  <2>2. d \in [Changed -> Anything]
    BY <2>1
  <2> HIDE DEF d
  <2>3. d \in Partial
    BY <2>1, <2>2 DEF Partial
  <2> QED BY <2>3 DEF Status, Message
<1> HIDE DEF d
<1>3. Len(wire)' = Len(wire) + 1 /\ Opens(wire)' = Opens(wire) + 0
  BY <1>1, <1>2, AppendOpens, AppendCarries, <1>0
<1>4. Unsaid = 7 /\ Unsaid' = 0 /\ Reading' = Reading /\ Down' = Down /\ asked' = asked
  BY <1>1 DEF Unsaid, Changed, Reading, Down
<1>5. Opens(wire)' = Opens(wire)
  BY ONLY <1>0, <1>3
<1>6. /\ Work = Weigh(Len(wire), Opens(wire), asked, Reading, Down, 7)
      /\ Work' = Weigh(Len(wire) + 1, Opens(wire), asked, Reading, Down, 0)
  BY <1>3, <1>4, <1>5 DEF Work
<1>7. Work' < Work
  BY <1>0, <1>6, Weights
<1>8. budget' = budget \/ Left' < Left
  BY <1>1, GarbledLeft
<1> QED BY <1>7, <1>8, WorkFalls DEF RunsDown

LEMMA AnswerRunsDown ==
  ASSUME IInv, NEW bad \in {{}} \cup {{f} : f \in Field}, AnswerSubscribe(bad)
  PROVE  RunsDown
<1>0. /\ Reading \in Nat /\ Down \in Nat /\ Unsaid \in Nat
      /\ Len(wire) \in Nat /\ Opens(wire) \in Nat /\ asked \in Nat
      /\ Down \in {0, 9} /\ Unsaid \in {0, 7} /\ wire \in Seq(Message)
  BY WorkNumbers
<1> DEFINE d == [f \in Field |-> IF f \in bad THEN Bad ELSE klip[f]]
<1>1. /\ wire' = Append(wire, Status("snap", d)) /\ asked > 0 /\ asked' = asked - 1
      /\ base' = klip /\ UNCHANGED <<klip, link, at>>
      /\ budget' = [budget EXCEPT !.garbled = @ - Cardinality(bad)]
  BY DEF AnswerSubscribe
<1>2. Status("snap", d) \in Message /\ Status("snap", d).k = "snap"
  BY SnapIs
<1> HIDE DEF d
<1>3. Len(wire)' = Len(wire) + 1 /\ Opens(wire)' = Opens(wire) + 0
  BY <1>1, <1>2, AppendOpens, AppendCarries, <1>0
<1>4. Unsaid' = 0 /\ Reading' = Reading /\ Down' = Down
  BY <1>1 DEF Unsaid, Changed, Reading, Down
<1>5. Opens(wire)' = Opens(wire)
  BY ONLY <1>0, <1>3
<1>6. Work' = Weigh(Len(wire) + 1, Opens(wire), asked - 1, Reading, Down, 0)
  BY <1>1, <1>3, <1>4, <1>5 DEF Work
<1>7. Work' < Work
  BY <1>0, <1>1, <1>6, Weights DEF Work
<1>8. budget' = budget \/ Left' < Left
  BY <1>1, GarbledLeft
<1> QED BY <1>7, <1>8, WorkFalls DEF RunsDown

LEMMA ReconnectRunsDown ==
  ASSUME IInv, Reconnect
  PROVE  RunsDown
<1>0. /\ Reading \in Nat /\ Down \in Nat /\ Unsaid \in Nat
      /\ Len(wire) \in Nat /\ Opens(wire) \in Nat /\ asked \in Nat
      /\ Down \in {0, 9} /\ Unsaid \in {0, 7} /\ wire \in Seq(Message)
  BY WorkNumbers
<1>1. /\ wire' = Append(wire, Event("open")) /\ ~link /\ link'
      /\ UNCHANGED <<klip, base, asked, budget, at>>
  BY DEF Reconnect
<1>2. Event("open") \in Message /\ Event("open").k = "open"
  BY EventOK DEF MsgOK
<1>3. Len(wire)' = Len(wire) + 1 /\ Opens(wire)' = Opens(wire) + 1
  BY <1>1, <1>2, AppendOpens, AppendCarries, <1>0
<1>4. Unsaid' = Unsaid /\ Reading' = Reading /\ Down = 9 /\ Down' = 0 /\ asked' = asked
  BY <1>1 DEF Unsaid, Changed, Reading, Down
<1>5. /\ Work = Weigh(Len(wire), Opens(wire), asked, Reading, 9, Unsaid)
      /\ Work' = Weigh(Len(wire) + 1, Opens(wire) + 1, asked, Reading, 0, Unsaid)
  BY <1>3, <1>4 DEF Work
<1> QED BY <1>0, <1>1, <1>5, Weights, WorkFalls

LEMMA DeliverRunsDown ==
  ASSUME IInv, Deliver
  PROVE  RunsDown
<1>0. /\ Reading \in Nat /\ Down \in Nat /\ Unsaid \in Nat
      /\ Len(wire) \in Nat /\ Opens(wire) \in Nat /\ asked \in Nat
      /\ Down \in {0, 9} /\ Unsaid \in {0, 7} /\ wire \in Seq(Message)
  BY WorkNumbers
<1>1. /\ at # 0 /\ UNCHANGED <<klip, base, asked, budget, link, wire>>
      /\ at' = 0 \/ (at' = at + 1 /\ at # Len(Route(cur)))
  BY DEF Deliver, world, Finish
<1>2. at \in 1 .. 5 /\ (at # Len(Route(cur)) => at < 5)
  <2>1. CASE cur.k = "snap"
    <3>1. at \in 1 .. 2
      BY <1>1, <2>1, RouteFacts
    <3> QED BY ONLY <3>1
  <2>2. CASE cur.k = "delta"
    <3>1. at \in 1 .. 5 /\ Len(Route(cur)) = 5
      BY <1>1, <2>2, RouteFacts
    <3>2. at # 5 => at < 5
      BY ONLY <3>1
    <3> QED BY <3>1, <3>2
  <2> QED BY <1>1, <2>1, <2>2, RouteFacts
<1>3. at' = 0 \/ (at' = at + 1 /\ at < 5)
  BY <1>1, <1>2
<1>4. Reading' \in Nat /\ Reading' < Reading
  BY <1>1, <1>2, <1>3 DEF Reading
<1>5. /\ Len(wire)' = Len(wire) /\ Opens(wire)' = Opens(wire) /\ asked' = asked
      /\ Down' = Down /\ Unsaid' = Unsaid /\ budget' = budget
  BY <1>1 DEF Down, Unsaid, Changed
<1>6. Work' = Weigh(Len(wire), Opens(wire), asked, Reading', Down, Unsaid)
  BY <1>5 DEF Work
<1>7. Work' < Work
  BY <1>0, <1>4, <1>6, Weights DEF Work
<1> QED BY <1>5, <1>7, WorkFalls

LEMMA MessageRunsDown ==
  ASSUME IInv, OnMessage
  PROVE  RunsDown
<1>0. /\ Reading \in Nat /\ Down \in Nat /\ Unsaid \in Nat
      /\ Len(wire) \in Nat /\ Opens(wire) \in Nat /\ asked \in Nat
      /\ Down \in {0, 9} /\ Unsaid \in {0, 7} /\ wire \in Seq(Message)
  BY WorkNumbers
<1>1. /\ wire # <<>> /\ wire' = Tail(wire) /\ at = 0
      /\ UNCHANGED <<klip, base, budget, link>>
  BY DEF OnMessage
<1>2. /\ Len(wire) \in Nat \ {0} /\ Tail(wire) \in Seq(Message)
      /\ Len(Tail(wire)) = Len(wire) - 1
      /\ Opens(wire) = Opens(Tail(wire)) + (IF Head(wire).k = "open" THEN 1 ELSE 0)
  BY <1>1, TailWire, TailOpens, <1>0
<1>3. /\ Opens(wire)' = Opens(Tail(wire)) /\ Len(wire)' = Len(Tail(wire))
      /\ Down' = Down /\ Unsaid' = Unsaid /\ budget' = budget /\ Reading = 0
  BY <1>1 DEF Down, Unsaid, Changed, Reading
<1> DEFINE l == Len(Tail(wire))
           o == Opens(Tail(wire))
<1>4. l \in Nat /\ o \in Nat
  BY <1>2, OpensFinite, LenProperties
<1>5. Len(wire) = l + 1
  BY ONLY <1>2
<1>6. CASE Head(wire).k = "open"
  <2>1. asked' = asked + 1 /\ Reading' = 0
    BY <1>1, <1>6 DEF OnMessage, connected, Reading
  <2>2. /\ Work = Weigh(l + 1, o + 1, asked, 0, Down, Unsaid)
        /\ Work' = Weigh(l, o, asked + 1, 0, Down, Unsaid)
    BY <1>2, <1>3, <1>5, <1>6, <2>1 DEF Work
  <2> HIDE DEF l, o
  <2>3. Work' < Work
    BY <1>0, <1>4, <2>2, Weights
  <2> QED BY <1>3, <2>3, WorkFalls
<1>7. CASE Head(wire).k # "open"
  <2>1. asked' = asked /\ Reading' \in {0, 5}
    BY <1>1, <1>7 DEF OnMessage, Reading
  <2>2. Opens(wire) = o
    BY ONLY <1>2, <1>4, <1>7
  <2>3. /\ Work = Weigh(l + 1, o, asked, 0, Down, Unsaid)
        /\ Work' = Weigh(l, o, asked, Reading', Down, Unsaid)
    BY <1>3, <1>5, <2>1, <2>2 DEF Work
  <2> HIDE DEF l, o
  <2>4. Work' < Work
    BY <1>0, <1>4, <2>1, <2>3, Weights
  <2> QED BY <1>3, <2>4, WorkFalls
<1> QED BY <1>6, <1>7

(***************************************************************************)
(* Nothing goes on for ever: every step spends one of the changes, faults  *)
(* and malformed fields that are left, or spends none and lowers the work  *)
(* under way, a natural number. No handshake, reply, delta or reconnection *)
(* sets off more work than it ends, so between two disturbances the        *)
(* screen comes to rest (connected() and onmessage, websocket_client.cpp). *)
(***************************************************************************)
THEOREM WorkRunsDown ==
  StatusSpec => [](Left \in Nat /\ Work \in Nat) /\ [][RunsDown]_vars
<1>1. IInv => Left \in Nat /\ Work \in Nat
  <2> SUFFICES ASSUME IInv PROVE Left \in Nat /\ Work \in Nat
    OBVIOUS
  <2>1. budget.changes \in Nat /\ budget.faults \in Nat /\ budget.garbled \in Nat
    BY WorkNumbers
  <2>2. /\ Reading \in Nat /\ Down \in Nat /\ Unsaid \in Nat
        /\ Len(wire) \in Nat /\ Opens(wire) \in Nat /\ asked \in Nat
    BY WorkNumbers
  <2>3. Left \in Nat
    BY ONLY <2>1 DEF Left
  <2>4. Work \in Nat
    BY <2>2, Weights DEF Work
  <2> QED BY <2>3, <2>4
<1>2. IInv /\ [StatusNext]_vars => [RunsDown]_vars
  <2> SUFFICES ASSUME IInv, StatusNext PROVE RunsDown
    OBVIOUS
  <2>1. CASE OnMessage \/ Deliver
    BY <2>1, MessageRunsDown, DeliverRunsDown
  <2>2. CASE (\E v \in Value.fan : FanSlider(v))
             \/ (\E f \in Field : \E v \in Value[f] : Change(f, v))
    BY <2>2, ChangeRunsDown DEF FanSlider, Change
  <2>3. CASE \E bad \in {{}} \cup {{f} : f \in Field} : Notify(bad)
    BY <2>3, NotifyRunsDown
  <2>4. CASE Reconnect \/ \E bad \in {{}} \cup {{f} : f \in Field} : AnswerSubscribe(bad)
    BY <2>4, AnswerRunsDown, ReconnectRunsDown
  <2>5. CASE LinkDrop \/ KlippyRestart \/ KlippyReady
    BY <2>5, FaultRunsDown DEF LinkDrop, KlippyRestart, KlippyReady
  <2> QED BY <2>1, <2>2, <2>3, <2>4, <2>5 DEF StatusNext
<1> QED BY <1>1, <1>2, StatusInvariant, PTL DEF StatusSpec
=============================================================================
