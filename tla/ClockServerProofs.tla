-------------------------- MODULE ClockServerProofs --------------------------
(***************************************************************************)
(* What the clock server promises, for any number of clients, clocks and   *)
(* nodes, any length of delays and any range of the time.                  *)
(*                                                                         *)
(* A delta list is read as a function Left from its sleepers to the ticks  *)
(* each has left; the lemmas on the list say what an insertion and a tick  *)
(* do to that function.  ClockInv then places every client that waits and  *)
(* bounds what it is still owed by what it has left.                       *)
(***************************************************************************)
EXTENDS ClockServer, Counting

-----------------------------------------------------------------------------
(* Delta lists.                                                            *)

Sleeper == [task : Client, delay : Nat]

Distinct(q) == \A i, j \in 1 .. Len(q) : q[i].task = q[j].task => i = j

DeltaList(q) ==
  /\ q \in Seq(Sleeper)
  /\ Distinct(q)
  /\ q # <<>> => q[1].delay > 0 /\ Until(q, Len(q)) <= MAX_DELAY

\* The ticks that each sleeper of a list has left.
Left(q) == [c \in Sleepers(q) |-> Until(q, CHOOSE i \in 1 .. Len(q) : q[i].task = c)]

-----------------------------------------------------------------------------
(* The invariant.                                                          *)

DelayMessages == [type : {"delay"}, from : Client, clock : Clock, ticks : Delay]
TimeMessages  == [type : {"time"}, from : Client]
TickMessages  == [type : {"notify"}, clock : Clock]
Request       == DelayMessages \cup TimeMessages
Message       == Request \cup TickMessages

From(c) == {m \in Request : m.from = c}

Mail     == {inbox[i] : i \in 1 .. Len(inbox)}
Asked(c) == Count(inbox, From(c))

Sleeps(c) == \E k \in Clock : c \in Sleepers(queue[k])

ClockTypes ==
  /\ absoluteTime \in Time
  /\ queue \in [Clock -> Seq(Sleeper)]
  /\ free \in [Clock -> Nat]
  /\ inbox \in Seq(Message)
  /\ notifier \in [Clock -> {"start", "await", "woken", "sent"}]
  /\ client \in [Client -> {"run", "time", "until", "told", "sleep"}]
  /\ target \in [Client -> Time]
  /\ reading \in [Client -> Time]
  /\ failed \in BOOLEAN
  /\ owed \in [Client -> Nat]
  /\ until \in [Client -> Nat]

ListsKept ==
  \A k \in Clock : DeltaList(queue[k]) /\ free[k] + Len(queue[k]) = NODE_COUNT

TicksOnce ==
  \A k \in Clock : Count(inbox, {TickMessage(k)}) = One(notifier[k] = "sent")

\* Each client that waits has its message under way, or sleeps in one list.
ClientsOnce ==
  \A c \in Client :
    /\ Asked(c) =
         One(client[c] \in {"time", "until"} \/ (client[c] = "sleep" /\ ~Sleeps(c)))
    /\ Sleeps(c) => client[c] = "sleep"
    /\ \A k, l \in Clock : c \in Sleepers(queue[k]) /\ c \in Sleepers(queue[l]) => k = l

\* A request for a delay is from a client that sleeps.
RequestsFit ==
  \A m \in Mail \cap Request : m.type = "delay" <=> client[m.from] = "sleep"

\* A client with n ticks left is not owed more of them, nor of interrupts, of which the
\* next tick may have had its own before the client asked.
OnTime(c, k, n) ==
  /\ owed[c] <= n
  /\ notifier[k] \in {"woken", "sent"} => owed[c] <= n - 1
  /\ until[c] <= IF k = "tick" THEN n ELSE 0

\* The clock's tick is under way before the client's question for the time.
TickAhead(c) ==
  \E i, j \in 1 .. Len(inbox) :
    i < j /\ inbox[i] = TickMessage("tick") /\ inbox[j] = TimeMessage(c)

\* The target is r ticks after the time t.
Aims(c, t, r) ==
  /\ target[c] = (t + r) % TIME_COUNT
  /\ until[c] = 0 \/ until[c] <= r

\* Who is awake is owed nothing, and counts on no tick but those to its target.
AwakeOnTime(c) ==
  /\ client[c] # "sleep" => owed[c] = 0
  /\ client[c] \in {"run", "time"} => until[c] = 0
  /\ client[c] = "until" =>
       \E r \in -2 .. MAX_DELAY : Aims(c, absoluteTime, r) /\ (TickAhead(c) => r > -2)
  /\ client[c] = "told" => \E r \in -2 .. MAX_DELAY : Aims(c, reading[c], r)

ClientsOnTime ==
  /\ \A m \in Mail \cap DelayMessages : OnTime(m.from, m.clock, m.ticks)
  /\ \A k \in Clock : \A c \in Sleepers(queue[k]) : OnTime(c, k, Left(queue[k])[c])
  /\ \A c \in Client : AwakeOnTime(c)

ClockInv ==
  /\ ClockTypes /\ ListsKept /\ TicksOnce /\ ClientsOnTime
  /\ ~failed => ClientsOnce /\ RequestsFit

-----------------------------------------------------------------------------
(* Sequences that are taken apart and put together again.                  *)

\* Two members take the place of one.
Spliced(q, i, x, y) == SubSeq(q, 1, i - 1) \o <<x, y>> \o SubSeq(q, i + 1, Len(q))

LEMMA SplicedFacts ==
  ASSUME NEW T, NEW q \in Seq(T), NEW i \in 1 .. Len(q), NEW x \in T, NEW y \in T
  PROVE  LET r == Spliced(q, i, x, y)
         IN  /\ r \in Seq(T) /\ Len(r) = Len(q) + 1
             /\ r[i] = x /\ r[i + 1] = y
             /\ \A j \in 1 .. i - 1 : r[j] = q[j]
             /\ \A j \in i + 1 .. Len(q) : r[j + 1] = q[j]
<1> DEFINE r == Spliced(q, i, x, y)
           n == Len(q)
           a == SubSeq(q, 1, i - 1)
           b == <<x, y>>
           c == SubSeq(q, i + 1, n)
<1>1. n \in Nat /\ i \in 1 .. n /\ \A j \in 1 .. n : q[j] \in T
  BY LenProperties, ElementOfSeq
<1>2. /\ a \in Seq(T) /\ Len(a) = i - 1 /\ \A j \in 1 .. i - 1 : a[j] = q[j]
  <2>1. /\ 1 \in Int /\ i - 1 \in Int /\ \A j \in 1 .. i - 1 : q[j] \in T
    BY <1>1
  <2> HIDE DEF n
  <2>2. /\ a \in Seq(T) /\ Len(a) = IF 1 <= i - 1 THEN (i - 1) - 1 + 1 ELSE 0
        /\ \A j \in 1 .. (i - 1) - 1 + 1 : a[j] = q[1 + j - 1]
    BY <2>1, SubSeqProperties
  <2>3. \A j \in 1 .. i - 1 : j \in 1 .. (i - 1) - 1 + 1 /\ 1 + j - 1 = j
    BY <1>1
  <2>4. (IF 1 <= i - 1 THEN (i - 1) - 1 + 1 ELSE 0) = i - 1
    BY <1>1
  <2> HIDE DEF a
  <2> QED BY <2>2, <2>3, <2>4
<1>3. b \in Seq(T) /\ Len(b) = 2 /\ b[1] = x /\ b[2] = y
  OBVIOUS
<1>4. /\ c \in Seq(T) /\ Len(c) = n - i /\ \A j \in 1 .. n - i : c[j] = q[i + j]
  <2>1. /\ i + 1 \in Int /\ n \in Int /\ \A j \in i + 1 .. n : q[j] \in T
    BY <1>1
  <2> HIDE DEF n
  <2>2. /\ c \in Seq(T) /\ Len(c) = IF i + 1 <= n THEN n - (i + 1) + 1 ELSE 0
        /\ \A j \in 1 .. n - (i + 1) + 1 : c[j] = q[(i + 1) + j - 1]
    BY <2>1, SubSeqProperties
  <2>3. \A j \in 1 .. n - i : j \in 1 .. n - (i + 1) + 1 /\ (i + 1) + j - 1 = i + j
    BY <1>1
  <2>4. (IF i + 1 <= n THEN n - (i + 1) + 1 ELSE 0) = n - i
    BY <1>1
  <2> HIDE DEF c
  <2> QED BY <2>2, <2>3, <2>4
<1> HIDE DEF a, b, c
<1>5. /\ a \o b \in Seq(T) /\ Len(a \o b) = i + 1
      /\ \A j \in 1 .. i + 1 : (a \o b)[j] = IF j <= i - 1 THEN a[j] ELSE b[j - (i - 1)]
  <2>1. /\ a \o b \in Seq(T) /\ Len(a \o b) = Len(a) + Len(b)
        /\ \A j \in 1 .. Len(a) + Len(b) : (a \o b)[j] = IF j <= Len(a) THEN a[j]
                                                         ELSE b[j - Len(a)]
    BY <1>2, <1>3, ConcatProperties
  <2>2. Len(a) + Len(b) = i + 1
    BY <1>1, <1>2, <1>3
  <2> QED BY <1>2, <2>1, <2>2
<1>6. PICK d \in Seq(T) : d = a \o b
  BY <1>5
<1>7. /\ r \in Seq(T) /\ Len(r) = n + 1
      /\ \A j \in 1 .. n + 1 : r[j] = IF j <= i + 1 THEN d[j] ELSE c[j - (i + 1)]
  <2>1. /\ d \o c \in Seq(T) /\ Len(d \o c) = Len(d) + Len(c)
        /\ \A j \in 1 .. Len(d) + Len(c) : (d \o c)[j] = IF j <= Len(d) THEN d[j]
                                                         ELSE c[j - Len(d)]
    BY <1>4, ConcatProperties
  <2>2. Len(d) = i + 1 /\ Len(d) + Len(c) = n + 1
    <3>1. Len(d) = i + 1
      BY <1>5, <1>6
    <3>2. (i + 1) + (n - i) = n + 1
      BY <1>1
    <3> HIDE DEF n
    <3> QED BY <1>4, <3>1, <3>2
  <2>3. r = d \o c
    BY <1>6 DEF a, b, c, Spliced
  <2> HIDE DEF r
  <2> QED BY <2>1, <2>2, <2>3
<1> HIDE DEF r
<1>8. r[i] = x
  <2>1. i \in 1 .. n + 1 /\ i <= i + 1 /\ i \in 1 .. i + 1 /\ ~(i <= i - 1) /\ i - (i - 1) = 1
    BY <1>1
  <2> QED BY <1>3, <1>5, <1>6, <1>7, <2>1
<1>9. r[i + 1] = y
  <2>1. /\ i + 1 \in 1 .. n + 1 /\ i + 1 <= i + 1 /\ i + 1 \in 1 .. i + 1
        /\ ~(i + 1 <= i - 1) /\ (i + 1) - (i - 1) = 2
    BY <1>1
  <2> QED BY <1>3, <1>5, <1>6, <1>7, <2>1
<1>10. ASSUME NEW j \in 1 .. i - 1 PROVE r[j] = q[j]
  <2>1. j \in 1 .. n + 1 /\ j <= i + 1 /\ j \in 1 .. i + 1 /\ j <= i - 1
    BY <1>1
  <2> QED BY <1>2, <1>5, <1>6, <1>7, <2>1
<1>11. ASSUME NEW j \in i + 1 .. n PROVE r[j + 1] = q[j]
  <2>1. /\ j + 1 \in 1 .. n + 1 /\ ~(j + 1 <= i + 1) /\ (j + 1) - (i + 1) = j - i
        /\ j - i \in 1 .. n - i /\ i + (j - i) = j
    BY <1>1
  <2> QED BY <1>4, <1>7, <2>1
<1>12. /\ r \in Seq(T) /\ Len(r) = Len(q) + 1 /\ r[i] = x /\ r[i + 1] = y
       /\ \A j \in 1 .. i - 1 : r[j] = q[j]
       /\ \A j \in i + 1 .. Len(q) : r[j + 1] = q[j]
  BY <1>7, <1>8, <1>9, <1>10, <1>11
<1> QED BY <1>12 DEF r

\* What is left of a sequence when the first n are taken.
LEMMA Dropped ==
  ASSUME NEW T, NEW q \in Seq(T), NEW n \in 0 .. Len(q)
  PROVE  /\ SubSeq(q, n + 1, Len(q)) \in Seq(T)
         /\ Len(SubSeq(q, n + 1, Len(q))) = Len(q) - n
         /\ \A j \in 1 .. Len(q) - n : SubSeq(q, n + 1, Len(q))[j] = q[n + j]
<1> DEFINE m == Len(q)
           c == SubSeq(q, n + 1, m)
<1>1. m \in Nat /\ n \in 0 .. m /\ \A j \in 1 .. m : q[j] \in T
  BY LenProperties, ElementOfSeq
<1>2. /\ n + 1 \in Int /\ m \in Int /\ \A j \in n + 1 .. m : q[j] \in T
  BY <1>1
<1> HIDE DEF m
<1>3. /\ c \in Seq(T) /\ Len(c) = IF n + 1 <= m THEN m - (n + 1) + 1 ELSE 0
      /\ \A j \in 1 .. m - (n + 1) + 1 : c[j] = q[(n + 1) + j - 1]
  BY <1>2, SubSeqProperties
<1>4. \A j \in 1 .. m - n : j \in 1 .. m - (n + 1) + 1 /\ (n + 1) + j - 1 = n + j
  BY <1>1
<1>5. (IF n + 1 <= m THEN m - (n + 1) + 1 ELSE 0) = m - n
  BY <1>1
<1>6. c \in Seq(T) /\ Len(c) = m - n /\ \A j \in 1 .. m - n : c[j] = q[n + j]
  <2> HIDE DEF c
  <2> QED BY <1>3, <1>4, <1>5
<1> QED BY <1>6 DEF m

\* The first n of a sequence.
LEMMA Taken ==
  ASSUME NEW T, NEW q \in Seq(T), NEW n \in 0 .. Len(q)
  PROVE  /\ SubSeq(q, 1, n) \in Seq(T) /\ Len(SubSeq(q, 1, n)) = n
         /\ \A j \in 1 .. n : SubSeq(q, 1, n)[j] = q[j]
<1>1. Len(q) \in Nat /\ n \in Nat /\ n <= Len(q) /\ \A j \in 1 .. Len(q) : q[j] \in T
  BY LenProperties, ElementOfSeq
<1>2. 1 \in Int /\ n \in Int /\ \A j \in 1 .. n : q[j] \in T
  BY <1>1
<1> DEFINE c == SubSeq(q, 1, n)
<1>3. /\ c \in Seq(T) /\ Len(c) = IF 1 <= n THEN n - 1 + 1 ELSE 0
      /\ \A j \in 1 .. n - 1 + 1 : c[j] = q[1 + j - 1]
  BY <1>2, SubSeqProperties
<1>4. \A j \in 1 .. n : j \in 1 .. n - 1 + 1 /\ 1 + j - 1 = j
  BY <1>1
<1>5. (IF 1 <= n THEN n - 1 + 1 ELSE 0) = n
  BY <1>1
<1> HIDE DEF c
<1>6. c \in Seq(T) /\ Len(c) = n /\ \A j \in 1 .. n : c[j] = q[j]
  BY <1>3, <1>4, <1>5
<1> QED BY <1>6 DEF c

-----------------------------------------------------------------------------
(* The ticks until the first nodes of a list have gone.                     *)

Summed(q, f) == [j \in 0 .. Len(q) |-> IF j = 0 THEN 0 ELSE f[j - 1] + q[j].delay]
IsSum(q, f)  == f = Summed(q, f)

LEMMA SumUnique ==
  ASSUME NEW q \in Seq(Sleeper), NEW f, IsSum(q, f), NEW g, IsSum(q, g)
  PROVE  f = g
<1> DEFINE n == Len(q)
           Differ == {i \in 0 .. n : f[i] # g[i]}
<1>1. n \in Nat
  BY LenProperties
<1>2. /\ f = [j \in 0 .. n |-> IF j = 0 THEN 0 ELSE f[j - 1] + q[j].delay]
      /\ g = [j \in 0 .. n |-> IF j = 0 THEN 0 ELSE g[j - 1] + q[j].delay]
  BY DEF IsSum, Summed
<1> HIDE DEF n
<1>3. Differ = {}
  <2> SUFFICES ASSUME Differ # {} PROVE FALSE
    OBVIOUS
  <2>1. Differ \in SUBSET Nat
    BY <1>1
  <2> HIDE DEF Differ
  <2>2. PICK m \in Differ : \A i \in Differ : m <= i
    BY <2>1, LeastOf
  <2> USE DEF Differ
  <2>3. m \in 0 .. n /\ f[m] # g[m]
    BY <2>2
  <2>4. m # 0
    BY <1>1, <1>2, <2>3
  <2>5. m - 1 \in 0 .. n /\ ~(m <= m - 1)
    BY <1>1, <2>3, <2>4
  <2>6. f[m - 1] = g[m - 1]
    BY <2>2, <2>5
  <2>7. f[m] = f[m - 1] + q[m].delay /\ g[m] = g[m - 1] + q[m].delay
    BY <1>2, <2>3, <2>4
  <2> QED BY <2>3, <2>6, <2>7
<1>4. \A i \in 0 .. n : f[i] = g[i]
  BY <1>3
<1>5. f = [i \in 0 .. n |-> f[i]] /\ g = [i \in 0 .. n |-> g[i]]
  BY <1>2
<1> QED BY <1>4, <1>5

LEMMA SumExists ==
  ASSUME NEW q \in Seq(Sleeper)
  PROVE  \E f \in [0 .. Len(q) -> Nat] : IsSum(q, f)
<1> DEFINE n == Len(q)
           Upto(m) == \E f \in [0 .. m -> Nat] :
                        \A j \in 0 .. m : f[j] = IF j = 0 THEN 0 ELSE f[j - 1] + q[j].delay
           Short == {m \in 0 .. n : ~Upto(m)}
<1>1. n \in Nat /\ \A j \in 1 .. n : q[j].delay \in Nat
  <2>1. ASSUME NEW j \in 1 .. n PROVE q[j].delay \in Nat
    <3>1. q[j] \in Sleeper
      BY ElementOfSeq
    <3> QED BY <3>1 DEF Sleeper
  <2> QED BY <2>1, LenProperties
<1> HIDE DEF n
<1>2. Upto(0)
  <2> DEFINE f == [j \in 0 .. 0 |-> 0]
  <2>1. f \in [0 .. 0 -> Nat] /\ \A j \in 0 .. 0 : j = 0 /\ f[j] = 0
    OBVIOUS
  <2> HIDE DEF f
  <2> QED BY <2>1
<1>3. ASSUME NEW m \in 1 .. n, Upto(m - 1) PROVE Upto(m)
  <2>1. PICK f \in [0 .. m - 1 -> Nat] :
          \A j \in 0 .. m - 1 : f[j] = IF j = 0 THEN 0 ELSE f[j - 1] + q[j].delay
    BY <1>3
  <2>2. PICK v \in Nat : v = f[m - 1] + q[m].delay
    <3>1. m - 1 \in 0 .. m - 1
      BY <1>1
    <3>2. f[m - 1] \in Nat /\ q[m].delay \in Nat
      BY <1>1, <3>1
    <3> QED BY <3>2
  <2> DEFINE g == [j \in 0 .. m |-> IF j = m THEN v ELSE f[j]]
  <2>3. g \in [0 .. m -> Nat]
    <3>1. ASSUME NEW j \in 0 .. m, j # m PROVE f[j] \in Nat
      <4>1. j \in 0 .. m - 1
        BY <1>1, <3>1
      <4> QED BY <4>1
    <3> QED BY <3>1
  <2>4. ASSUME NEW j \in 0 .. m
        PROVE  g[j] = IF j = 0 THEN 0 ELSE g[j - 1] + q[j].delay
    <3>1. CASE j = m
      <4>1. j - 1 \in 0 .. m /\ j - 1 # m /\ j # 0
        BY <1>1, <3>1
      <4>2. g[j - 1] = f[m - 1] /\ g[j] = v
        BY <3>1, <4>1
      <4> QED BY <2>2, <3>1, <4>1, <4>2
    <3>2. CASE j # m
      <4>1. j \in 0 .. m - 1
        BY <1>1, <3>2
      <4>2. g[j] = f[j] /\ f[j] = IF j = 0 THEN 0 ELSE f[j - 1] + q[j].delay
        BY <2>1, <3>2, <4>1
      <4>3. CASE j = 0
        BY <4>2, <4>3
      <4>4. CASE j # 0
        <5>1. j - 1 \in 0 .. m /\ j - 1 # m
          BY <1>1, <4>1, <4>4
        <5>2. g[j - 1] = f[j - 1]
          BY <5>1
        <5> QED BY <4>2, <4>4, <5>2
      <4> QED BY <4>3, <4>4
    <3> QED BY <3>1, <3>2
  <2> HIDE DEF g
  <2> QED BY <2>3, <2>4
<1>4. Upto(n)
  <2> HIDE DEF Upto
  <2>1. CASE Short = {}
    <3>1. n \in 0 .. n
      BY <1>1
    <3> QED BY <2>1, <3>1
  <2>2. CASE Short # {}
    <3>1. Short \in SUBSET Nat
      BY <1>1
    <3> HIDE DEF Short
    <3>2. PICK m \in Short : \A i \in Short : m <= i
      BY <2>2, <3>1, LeastOf
    <3> USE DEF Short
    <3>3. m # 0
      BY <1>2, <3>2
    <3>4. m \in 1 .. n /\ m - 1 \in 0 .. n /\ ~(m <= m - 1)
      BY <1>1, <3>3
    <3>5. Upto(m - 1)
      BY <3>2, <3>4
    <3> QED BY <1>3, <3>4, <3>5
  <2> QED BY <2>1, <2>2
<1>5. PICK f \in [0 .. n -> Nat] :
           \A j \in 0 .. n : f[j] = IF j = 0 THEN 0 ELSE f[j - 1] + q[j].delay
  BY <1>4
<1>6. f = [j \in 0 .. n |-> IF j = 0 THEN 0 ELSE f[j - 1] + q[j].delay]
  BY <1>5
<1> QED BY <1>5, <1>6 DEF IsSum, Summed, n

LEMMA UntilSum ==
  ASSUME NEW q \in Seq(Sleeper), NEW f, IsSum(q, f)
  PROVE  \A i : Until(q, i) = f[i]
<1> DEFINE c == CHOOSE g : IsSum(q, g)
<1>1. IsSum(q, c)
  BY Zenon
<1>2. c = f
  <2> HIDE DEF c
  <2> QED BY <1>1, SumUnique
<1>3. \A i : Until(q, i) = c[i]
  BY DEF Until, IsSum, Summed
<1> HIDE DEF c
<1> QED BY <1>2, <1>3

LEMMA UntilSteps ==
  ASSUME NEW q \in Seq(Sleeper)
  PROVE  /\ Until(q, 0) = 0
         /\ \A i \in 0 .. Len(q) : Until(q, i) \in Nat
         /\ \A i \in 1 .. Len(q) : /\ q[i].task \in Client /\ q[i].delay \in Nat
                                   /\ Until(q, i) = Until(q, i - 1) + q[i].delay
<1>1. PICK f \in [0 .. Len(q) -> Nat] : IsSum(q, f)
  BY SumExists
<1>2. Len(q) \in Nat
  BY LenProperties
<1>3. \A i : Until(q, i) = f[i]
  BY <1>1, UntilSum
<1>4. \A j \in 0 .. Len(q) : f[j] = IF j = 0 THEN 0 ELSE f[j - 1] + q[j].delay
  <2>1. f = [j \in 0 .. Len(q) |-> IF j = 0 THEN 0 ELSE f[j - 1] + q[j].delay]
    BY <1>1 DEF IsSum, Summed
  <2> QED BY <2>1
<1>5. 0 \in 0 .. Len(q) /\ \A i \in 1 .. Len(q) : i \in 0 .. Len(q) /\ i # 0
  BY <1>2
<1>6. ASSUME NEW i \in 1 .. Len(q) PROVE q[i].task \in Client /\ q[i].delay \in Nat
  <2>1. q[i] \in Sleeper
    BY ElementOfSeq
  <2> QED BY <2>1 DEF Sleeper
<1> QED BY <1>3, <1>4, <1>5, <1>6

\* What adds up like the delays of a list is what they add up to.
LEMMA UntilIs ==
  ASSUME NEW q \in Seq(Sleeper), NEW S, NEW f \in [0 .. Len(q) -> S], f[0] = 0,
         \A i \in 1 .. Len(q) : f[i] = f[i - 1] + q[i].delay
  PROVE  \A i \in 0 .. Len(q) : Until(q, i) = f[i]
<1>1. Len(q) \in Nat
  BY LenProperties
<1>2. \A j \in 0 .. Len(q) : f[j] = IF j = 0 THEN 0 ELSE f[j - 1] + q[j].delay
  <2>1. \A j \in 0 .. Len(q) : j = 0 \/ (j \in 1 .. Len(q) /\ j # 0)
    BY <1>1
  <2> QED BY <2>1
<1>3. f = [j \in 0 .. Len(q) |-> IF j = 0 THEN 0 ELSE f[j - 1] + q[j].delay]
  BY <1>2
<1>4. IsSum(q, f)
  BY <1>3 DEF IsSum, Summed
<1> QED BY <1>4, UntilSum

LEMMA UntilGrows ==
  ASSUME NEW q \in Seq(Sleeper), NEW i \in 0 .. Len(q), NEW j \in i .. Len(q)
  PROVE  Until(q, i) <= Until(q, j)
<1> DEFINE Below == {k \in i .. Len(q) : Until(q, k) < Until(q, i)}
<1>1. Len(q) \in Nat /\ i \in 0 .. Len(q) /\ j \in i .. Len(q)
  BY LenProperties
<1>2. Below = {}
  <2> SUFFICES ASSUME Below # {} PROVE FALSE
    OBVIOUS
  <2>1. Below \in SUBSET Nat
    BY <1>1
  <2> HIDE DEF Below
  <2>2. PICK m \in Below : \A k \in Below : m <= k
    BY <2>1, LeastOf
  <2> USE DEF Below
  <2>3. m \in i .. Len(q) /\ Until(q, m) < Until(q, i)
    BY <2>2
  <2>4. Until(q, i) \in Nat /\ Until(q, m) \in Nat
    <3>1. m \in 0 .. Len(q)
      BY <1>1, <2>3
    <3> QED BY <1>1, <3>1, UntilSteps
  <2>5. m # i
    BY <2>3, <2>4
  <2>6. m \in 1 .. Len(q) /\ m - 1 \in i .. Len(q) /\ m - 1 \in 0 .. Len(q) /\ ~(m <= m - 1)
    BY <1>1, <2>3, <2>5
  <2>7. ~(Until(q, m - 1) < Until(q, i))
    BY <2>2, <2>6
  <2>8. /\ Until(q, m) = Until(q, m - 1) + q[m].delay /\ q[m].delay \in Nat
        /\ Until(q, m - 1) \in Nat
    BY <2>6, UntilSteps
  <2> QED BY <2>3, <2>4, <2>7, <2>8
<1>3. Until(q, i) \in Nat /\ Until(q, j) \in Nat
  <2>1. j \in 0 .. Len(q)
    BY <1>1
  <2> QED BY <1>1, <2>1, UntilSteps
<1>4. ~(Until(q, j) < Until(q, i))
  BY <1>1, <1>2
<1> QED BY <1>3, <1>4

-----------------------------------------------------------------------------
(* What a list says of its sleepers.                                        *)

LEMMA ListTypes ==
  ASSUME NEW q \in Seq(Sleeper)
  PROVE  /\ Len(q) \in Nat
         /\ \A i \in 1 .. Len(q) : q[i] \in Sleeper /\ q[i].task \in Client /\ q[i].delay \in Nat
         /\ q # <<>> => Len(q) \in Nat \ {0}
<1>1. \A i \in 1 .. Len(q) : q[i] \in Sleeper
  BY ElementOfSeq
<1> QED BY <1>1, LenProperties, EmptySeq DEF Sleeper

LEMMA NodeFields ==
  ASSUME NEW c \in Client, NEW d \in Nat
  PROVE  Node(c, d) \in Sleeper /\ Node(c, d).task = c /\ Node(c, d).delay = d
BY DEF Node, Sleeper

LEMMA LeftAt ==
  ASSUME NEW q \in Seq(Sleeper), Distinct(q), NEW i \in 1 .. Len(q)
  PROVE  q[i].task \in Sleepers(q) /\ Left(q)[q[i].task] = Until(q, i)
<1>1. q[i].task \in Sleepers(q)
  BY DEF Sleepers
<1>2. (CHOOSE j \in 1 .. Len(q) : q[j].task = q[i].task) = i
  BY DEF Distinct
<1> QED BY <1>1, <1>2 DEF Left

\* Every sleeper of a list has at least one tick left and at most the longest delay.
LEMMA LeftType ==
  ASSUME NEW q, DeltaList(q)
  PROVE  /\ DOMAIN Left(q) = Sleepers(q) /\ Sleepers(q) \subseteq Client
         /\ \A c \in Sleepers(q) : Left(q)[c] \in Delay
<1>1. q \in Seq(Sleeper) /\ Distinct(q)
  BY DEF DeltaList
<1>2. DOMAIN Left(q) = Sleepers(q)
  BY DEF Left
<1>3. \A i \in 1 .. Len(q) : q[i].task \in Client
  BY <1>1, ListTypes
<1>4. ASSUME NEW c \in Sleepers(q) PROVE Left(q)[c] \in Delay
  <2>1. PICK i \in 1 .. Len(q) : c = q[i].task
    BY DEF Sleepers
  <2>2. Left(q)[c] = Until(q, i)
    BY <1>1, <2>1, LeftAt
  <2>3. Len(q) \in Nat /\ i \in 1 .. Len(q)
    BY <1>1, ListTypes
  <2>4. q # <<>>
    BY <2>3
  <2>5. q[1].delay > 0 /\ Until(q, Len(q)) <= MAX_DELAY
    BY <2>4 DEF DeltaList
  <2>6. /\ 1 \in 0 .. Len(q) /\ 1 \in 1 .. Len(q) /\ i \in 1 .. Len(q) /\ i \in 0 .. Len(q)
        /\ Len(q) \in i .. Len(q) /\ 1 - 1 = 0 /\ Len(q) \in 0 .. Len(q)
    BY <2>3
  <2>7. Until(q, 1) <= Until(q, i) /\ Until(q, i) <= Until(q, Len(q))
    BY <1>1, <2>6, UntilGrows
  <2>8. Until(q, 1) = Until(q, 0) + q[1].delay /\ Until(q, 0) = 0 /\ q[1].delay \in Nat
    <3>1. Until(q, 1) = Until(q, 1 - 1) + q[1].delay /\ Until(q, 0) = 0 /\ q[1].delay \in Nat
      BY <1>1, <2>6, UntilSteps
    <3> QED BY <2>6, <3>1
  <2>9. Until(q, i) \in Nat /\ Until(q, Len(q)) \in Nat /\ MAX_DELAY \in Nat
    BY <1>1, <2>6, UntilSteps, ClockAssumption
  <2> QED BY <2>2, <2>5, <2>7, <2>8, <2>9 DEF Delay
<1> QED BY <1>2, <1>3, <1>4 DEF Sleepers

-----------------------------------------------------------------------------
(* delayQueuePush.                                                          *)

LEMMA PlaceFacts ==
  ASSUME NEW q \in Seq(Sleeper), NEW d \in Nat
  PROVE  /\ Place(q, d) \in 1 .. Len(q) + 1
         /\ \A j \in 1 .. Place(q, d) - 1 : d > Until(q, j)
         /\ Place(q, d) <= Len(q) => d <= Until(q, Place(q, d))
<1> DEFINE Fits == {j \in 1 .. Len(q) + 1 : j <= Len(q) => d <= Until(q, j)}
<1>1. Len(q) \in Nat /\ \A j \in 1 .. Len(q) : Until(q, j) \in Nat
  <2>1. Len(q) \in Nat
    BY LenProperties
  <2>2. \A j \in 1 .. Len(q) : j \in 0 .. Len(q)
    BY <2>1
  <2> QED BY <2>1, <2>2, UntilSteps
<1>2. Fits # {} /\ Fits \in SUBSET Nat
  <2>1. Len(q) + 1 \in 1 .. Len(q) + 1 /\ ~(Len(q) + 1 <= Len(q))
    BY <1>1
  <2>2. Len(q) + 1 \in Fits
    BY <2>1
  <2> QED BY <1>1, <2>2
<1> HIDE DEF Fits
<1>3. PICK m \in Fits : \A j \in Fits : m <= j
  BY <1>2, LeastOf
<1> USE DEF Fits
<1>4. \A j \in 1 .. m - 1 : d > Until(q, j)
  <2> SUFFICES ASSUME NEW j \in 1 .. m - 1 PROVE d > Until(q, j)
    OBVIOUS
  <2>1. m \in 1 .. Len(q) + 1
    BY <1>3
  <2>2. j \in 1 .. Len(q) /\ j \in 1 .. Len(q) + 1 /\ ~(m <= j)
    BY <1>1, <2>1
  <2>3. j \notin Fits
    BY <1>3, <2>2
  <2>4. ~(d <= Until(q, j)) /\ Until(q, j) \in Nat
    BY <1>1, <2>2, <2>3
  <2> QED BY <2>4
<1>5. \E i \in 1 .. Len(q) + 1 : /\ \A j \in 1 .. i - 1 : d > Until(q, j)
                                 /\ i <= Len(q) => d <= Until(q, i)
  BY <1>3, <1>4
<1> QED BY <1>5 DEF Place

\* The new node comes with what is left of its delay, and takes as much from the next.
LEMMA InsertedShape ==
  ASSUME NEW q \in Seq(Sleeper), NEW c \in Client, NEW d \in Delay
  PROVE  LET i == Place(q, d)
             r == Inserted(q, c, d)
         IN  /\ r \in Seq(Sleeper) /\ Len(r) = Len(q) + 1
             /\ r[i].task = c /\ r[i].delay = d - Until(q, i - 1)
             /\ \A j \in 1 .. i - 1 : r[j] = q[j]
             /\ \A j \in i .. Len(q) :
                  /\ r[j + 1].task = q[j].task
                  /\ r[j + 1].delay = IF j = i THEN q[i].delay - (d - Until(q, i - 1))
                                      ELSE q[j].delay
<1> DEFINE i == Place(q, d)
           r == Inserted(q, c, d)
<1> HIDE DEF i, r
<1>1. Len(q) \in Nat /\ d \in Nat /\ d > 0
  BY LenProperties, ClockAssumption DEF Delay
<1>2. /\ i \in 1 .. Len(q) + 1 /\ \A j \in 1 .. i - 1 : d > Until(q, j)
      /\ i <= Len(q) => d <= Until(q, i)
  BY <1>1, PlaceFacts DEF i
<1>3. PICK e \in Nat : e = d - Until(q, i - 1)
  <2>1. i - 1 \in 0 .. Len(q)
    BY <1>1, <1>2
  <2>2. Until(q, i - 1) \in Nat /\ Until(q, 0) = 0
    BY <2>1, UntilSteps
  <2>3. CASE i = 1
    <3>1. Until(q, i - 1) = 0
      BY <2>2, <2>3
    <3> QED BY <1>1, <3>1
  <2>4. CASE i # 1
    <3>1. i - 1 \in 1 .. i - 1
      BY <1>2, <2>4
    <3>2. d > Until(q, i - 1)
      BY <1>2, <3>1
    <3> QED BY <1>1, <2>2, <3>2
  <2> QED BY <2>3, <2>4
<1>4. Node(c, e) \in Sleeper /\ Node(c, e).task = c /\ Node(c, e).delay = e
  BY NodeFields
<1> DEFINE Shape ==
      /\ r \in Seq(Sleeper) /\ Len(r) = Len(q) + 1
      /\ r[i].task = c /\ r[i].delay = d - Until(q, i - 1)
      /\ \A j \in 1 .. i - 1 : r[j] = q[j]
      /\ \A j \in i .. Len(q) :
           /\ r[j + 1].task = q[j].task
           /\ r[j + 1].delay = IF j = i THEN q[i].delay - (d - Until(q, i - 1)) ELSE q[j].delay
<1>5. ASSUME i > Len(q) PROVE Shape
  <2>1. i = Len(q) + 1
    BY <1>1, <1>2, <1>5
  <2>2. r = Append(q, Node(c, e))
    BY <1>3, <1>5 DEF Inserted, i, r
  <2>3. /\ r \in Seq(Sleeper) /\ Len(r) = Len(q) + 1 /\ r[Len(q) + 1] = Node(c, e)
        /\ \A j \in 1 .. Len(q) : r[j] = q[j]
    BY <1>4, <2>2, AppendProperties
  <2>4. \A j \in 1 .. i - 1 : j \in 1 .. Len(q)
    BY <1>1, <2>1
  <2>5. \A j \in i .. Len(q) : FALSE
    BY <1>1, <2>1
  <2> QED BY <1>3, <1>4, <2>1, <2>3, <2>4, <2>5
<1>6. ASSUME i <= Len(q) PROVE Shape
  <2>1. i \in 1 .. Len(q) /\ ~(i > Len(q))
    BY <1>1, <1>2, <1>6
  <2>2. /\ q[i].delay \in Nat /\ q[i].task \in Client
        /\ Until(q, i) = Until(q, i - 1) + q[i].delay
    BY <2>1, UntilSteps
  <2>3. PICK g \in Nat : g = q[i].delay - e
    <3>1. i - 1 \in 0 .. Len(q)
      BY <1>1, <2>1
    <3>2. Until(q, i - 1) \in Nat /\ d <= Until(q, i)
      BY <1>2, <1>6, <3>1, UntilSteps
    <3> QED BY <1>1, <1>3, <2>2, <3>2
  <2>4. /\ Node(q[i].task, g) \in Sleeper /\ Node(q[i].task, g).task = q[i].task
        /\ Node(q[i].task, g).delay = g
    BY <2>2, NodeFields
  <2>5. r = SubSeq(q, 1, i - 1) \o <<Node(c, e), Node(q[i].task, g)>>
              \o SubSeq(q, i + 1, Len(q))
    <3>1. Inserted(q, c, d) = SubSeq(q, 1, i - 1)
            \o <<Node(c, d - Until(q, i - 1)),
                 Node(q[i].task, q[i].delay - Node(c, d - Until(q, i - 1)).delay)>>
            \o SubSeq(q, i + 1, Len(q))
      BY <2>1 DEF Inserted, i
    <3> QED BY <1>3, <1>4, <2>3, <3>1 DEF r
  <2>6. PICK x \in Sleeper, y \in Sleeper : x = Node(c, e) /\ y = Node(q[i].task, g)
    BY <1>4, <2>4
  <2>7. /\ r \in Seq(Sleeper) /\ Len(r) = Len(q) + 1 /\ r[i] = x /\ r[i + 1] = y
        /\ \A j \in 1 .. i - 1 : r[j] = q[j]
        /\ \A j \in i + 1 .. Len(q) : r[j + 1] = q[j]
    <3>1. r = SubSeq(q, 1, i - 1) \o <<x, y>> \o SubSeq(q, i + 1, Len(q))
      BY <2>5, <2>6
    <3>2. i \in 1 .. Len(q) /\ i \in Nat
      BY <1>1, <2>1
    <3>5. x \in Sleeper /\ y \in Sleeper
      BY <2>6
    <3> DEFINE s == Spliced(q, i, x, y)
    <3>3. s \in Seq(Sleeper) /\ Len(s) = Len(q) + 1
      BY <3>2, <3>5, SplicedFacts
    <3>8. s[i] = x
      BY <3>2, <3>5, SplicedFacts
    <3>9. s[i + 1] = y
      BY <3>2, <3>5, SplicedFacts
    <3>6. \A j \in 1 .. i - 1 : s[j] = q[j]
      BY <3>2, <3>5, SplicedFacts
    <3>7. \A j \in i + 1 .. Len(q) : s[j + 1] = q[j]
      BY <3>2, <3>5, SplicedFacts
    <3>4. r = s
      BY <3>1 DEF Spliced
    <3> HIDE DEF s
    <3> QED BY <3>3, <3>4, <3>6, <3>7, <3>8, <3>9
  <2>8. \A j \in i .. Len(q) : j = i \/ (j \in i + 1 .. Len(q) /\ j # i)
    BY <1>1, <2>1
  <2>9. r[i].task = c /\ r[i].delay = d - Until(q, i - 1)
    BY <1>3, <1>4, <2>6, <2>7
  <2>10. ASSUME NEW j \in i .. Len(q)
         PROVE  /\ r[j + 1].task = q[j].task
                /\ r[j + 1].delay = IF j = i THEN q[i].delay - (d - Until(q, i - 1))
                                    ELSE q[j].delay
    <3>1. CASE j = i
      <4>1. r[j + 1] = y
        BY <2>7, <3>1
      <4> QED BY <1>3, <2>3, <2>4, <2>6, <3>1, <4>1
    <3>2. CASE j # i
      <4>1. r[j + 1] = q[j]
        BY <2>7, <2>8, <3>2
      <4> QED BY <3>2, <4>1
    <3> QED BY <3>1, <3>2
  <2> QED BY <2>7, <2>9, <2>10
<1> HIDE DEF Shape
<1>7. Shape
  BY <1>1, <1>2, <1>5, <1>6
<1> QED BY <1>7 DEF Shape, i, r

\* A request enters the list and leaves the ticks of the others alone.
LEMMA InsertedList ==
  ASSUME NEW q, DeltaList(q), NEW c \in Client, c \notin Sleepers(q), NEW d \in Delay
  PROVE  LET r == Inserted(q, c, d)
         IN  /\ DeltaList(r) /\ Len(r) = Len(q) + 1
             /\ Sleepers(r) = Sleepers(q) \cup {c}
             /\ Left(r)[c] = d
             /\ \A x \in Sleepers(q) : Left(r)[x] = Left(q)[x]
<1> DEFINE i == Place(q, d)
           r == Inserted(q, c, d)
           n == Len(q)
           U(j) == Until(q, j)
           f == [j \in 0 .. n + 1 |-> IF j < i THEN U(j) ELSE IF j = i THEN d ELSE U(j - 1)]
<1>1. /\ q \in Seq(Sleeper) /\ Distinct(q) /\ n \in Nat /\ d \in Nat /\ d > 0 /\ d <= MAX_DELAY
      /\ MAX_DELAY \in Nat
  BY LenProperties, ClockAssumption DEF DeltaList, Delay
<1>2. /\ i \in 1 .. n + 1
      /\ \A j \in 1 .. i - 1 : d > U(j)
      /\ i <= n => d <= U(i)
  BY <1>1, PlaceFacts
<1>3. /\ r \in Seq(Sleeper) /\ Len(r) = n + 1
      /\ r[i].task = c /\ r[i].delay = d - U(i - 1)
      /\ \A j \in 1 .. i - 1 : r[j] = q[j]
      /\ \A j \in i .. n : /\ r[j + 1].task = q[j].task
                           /\ r[j + 1].delay = IF j = i THEN q[i].delay - (d - U(i - 1))
                                               ELSE q[j].delay
  BY <1>1, InsertedShape
<1>4. /\ U(0) = 0 /\ \A j \in 0 .. n : U(j) \in Nat
      /\ \A j \in 1 .. n : U(j) = U(j - 1) + q[j].delay /\ q[j].delay \in Nat
  BY <1>1, UntilSteps
<1> HIDE DEF i, r, n, U
<1>5. f \in [0 .. n + 1 -> Nat]
  <2> SUFFICES ASSUME NEW j \in 0 .. n + 1
               PROVE  (IF j < i THEN U(j) ELSE IF j = i THEN d ELSE U(j - 1)) \in Nat
    OBVIOUS
  <2>1. j < i => j \in 0 .. n
    BY <1>1, <1>2
  <2>2. ~(j < i) /\ j # i => j - 1 \in 0 .. n
    BY <1>1, <1>2
  <2> QED BY <1>1, <1>4, <2>1, <2>2
<1>6. f[0] = 0
  <2>1. 0 \in 0 .. n + 1 /\ 0 < i
    BY <1>1, <1>2
  <2> QED BY <1>4, <2>1
<1>7. ASSUME NEW j \in 1 .. n + 1
      PROVE  f[j] = f[j - 1] + r[j].delay
  <2>1. j \in 0 .. n + 1 /\ j - 1 \in 0 .. n + 1
    BY <1>1
  <2>2. CASE j < i
    <3>1. j \in 1 .. i - 1 /\ j \in 1 .. n /\ j - 1 < i
      BY <1>1, <1>2, <2>2
    <3>2. f[j] = U(j) /\ f[j - 1] = U(j - 1)
      BY <2>1, <2>2, <3>1
    <3>3. r[j] = q[j] /\ U(j) = U(j - 1) + q[j].delay
      BY <1>3, <1>4, <3>1
    <3> HIDE DEF f
    <3> QED BY <3>2, <3>3
  <2>3. CASE j = i
    <3>1. j - 1 < i /\ ~(j < i) /\ j - 1 \in 0 .. n
      BY <1>1, <1>2, <2>3
    <3>2. f[j] = d /\ f[j - 1] = U(j - 1)
      BY <2>1, <2>3, <3>1
    <3>3. r[j].delay = d - U(j - 1) /\ U(j - 1) \in Nat
      BY <1>3, <1>4, <2>3, <3>1
    <3> HIDE DEF f
    <3> QED BY <1>1, <3>2, <3>3
  <2>4. CASE j > i
    <3>1. PICK k \in i .. n : j = k + 1
      <4>1. j - 1 \in i .. n /\ j = (j - 1) + 1
        BY <1>1, <1>2, <2>4
      <4> QED BY <4>1
    <3>2. k \in 1 .. n /\ k \in 0 .. n /\ k - 1 \in 0 .. n /\ j - 1 = k /\ ~(j < i) /\ j # i
      BY <1>1, <1>2, <3>1
    <3>3. f[j] = U(k)
      BY <2>1, <3>2
    <3>4. U(k) = U(k - 1) + q[k].delay /\ q[k].delay \in Nat /\ U(k) \in Nat /\ U(k - 1) \in Nat
      BY <1>4, <3>2
    <3>5. CASE k = i
      <4>1. f[j - 1] = d
        BY <2>1, <3>2, <3>5
      <4>2. r[j].delay = q[k].delay - (d - U(k - 1))
        BY <1>3, <3>1, <3>5
      <4> HIDE DEF f
      <4> QED BY <1>1, <3>3, <3>4, <4>1, <4>2
    <3>6. CASE k # i
      <4>1. ~(k < i)
        BY <1>1, <1>2, <3>1
      <4>2. f[j - 1] = U(k - 1)
        BY <2>1, <3>2, <3>6, <4>1
      <4>3. r[j].delay = q[k].delay
        BY <1>3, <3>1, <3>6
      <4> HIDE DEF f
      <4> QED BY <3>3, <3>4, <4>2, <4>3
    <3> QED BY <3>5, <3>6
  <2> QED BY <1>1, <1>2, <2>2, <2>3, <2>4
<1>8. \A j \in 0 .. n + 1 : Until(r, j) = f[j]
  <2> HIDE DEF f
  <2> QED BY <1>3, <1>5, <1>6, <1>7, UntilIs
\* Where each node of r comes from.
<1>9. /\ i \in 1 .. n + 1 /\ Until(r, i) = d
      /\ \A j \in 1 .. i - 1 : j \in 1 .. n /\ j \in 1 .. n + 1 /\ Until(r, j) = U(j)
      /\ \A j \in i .. n : /\ j \in 1 .. n /\ j + 1 \in 1 .. n + 1 /\ j + 1 # i
                           /\ Until(r, j + 1) = U(j)
      /\ \A j \in 1 .. n + 1 : \/ j = i
                               \/ j \in 1 .. i - 1
                               \/ \E k \in i .. n : j = k + 1
      /\ \A j \in 1 .. n : j \in 1 .. i - 1 \/ j \in i .. n
  <2>1. i \in 0 .. n + 1 /\ ~(i < i) /\ f[i] = d
    BY <1>1, <1>2
  <2>2. ASSUME NEW j \in 1 .. i - 1
        PROVE  j \in 1 .. n /\ j \in 1 .. n + 1 /\ Until(r, j) = U(j)
    <3>1. j \in 1 .. n /\ j \in 1 .. n + 1 /\ j \in 0 .. n + 1 /\ j < i
      BY <1>1, <1>2
    <3>2. f[j] = U(j)
      BY <3>1
    <3> QED BY <1>8, <3>1, <3>2
  <2>3. ASSUME NEW j \in i .. n
        PROVE  j \in 1 .. n /\ j + 1 \in 1 .. n + 1 /\ j + 1 # i /\ Until(r, j + 1) = U(j)
    <3>1. /\ j \in 1 .. n /\ j + 1 \in 1 .. n + 1 /\ j + 1 \in 0 .. n + 1 /\ j + 1 # i
          /\ ~(j + 1 < i) /\ (j + 1) - 1 = j
      BY <1>1, <1>2
    <3>2. f[j + 1] = U(j)
      BY <3>1
    <3> QED BY <1>8, <3>1, <3>2
  <2>4. ASSUME NEW j \in 1 .. n + 1
        PROVE  j = i \/ j \in 1 .. i - 1 \/ \E k \in i .. n : j = k + 1
    <3>1. j > i => j - 1 \in i .. n /\ j = (j - 1) + 1
      BY <1>1, <1>2
    <3>2. j = i \/ j \in 1 .. i - 1 \/ j > i
      BY <1>1, <1>2
    <3> QED BY <3>1, <3>2
  <2>5. \A j \in 1 .. n : j \in 1 .. i - 1 \/ j \in i .. n
    BY <1>1, <1>2
  <2>6. Until(r, i) = d
    BY <1>8, <2>1
  <2> HIDE DEF f
  <2> QED BY <1>2, <2>2, <2>3, <2>4, <2>5, <2>6
<1> HIDE DEF f
<1>10. \A j \in 1 .. i - 1 : r[j].task = q[j].task
  BY <1>3
<1>11. \A j \in 1 .. n : q[j].task \in Sleepers(q) /\ q[j].task # c
  BY DEF Sleepers, n
<1>12. Distinct(r)
  <2> SUFFICES ASSUME NEW j \in 1 .. n + 1, NEW k \in 1 .. n + 1, r[j].task = r[k].task
               PROVE  j = k
    BY <1>3 DEF Distinct
  <2>1. \A a, b \in 1 .. n : q[a].task = q[b].task => a = b
    BY <1>1 DEF Distinct, n
  <2>2. CASE j = i
    BY <1>3, <1>9, <1>10, <1>11, <2>2
  <2>3. CASE k = i
    BY <1>3, <1>9, <1>10, <1>11, <2>3
  <2>4. CASE j # i /\ k # i
    <3>1. PICK a \in 1 .. n : /\ r[j].task = q[a].task
                              /\ (j = a /\ a \in 1 .. i - 1) \/ (j = a + 1 /\ a \in i .. n)
      BY <1>3, <1>9, <1>10, <2>4
    <3>2. PICK b \in 1 .. n : /\ r[k].task = q[b].task
                              /\ (k = b /\ b \in 1 .. i - 1) \/ (k = b + 1 /\ b \in i .. n)
      BY <1>3, <1>9, <1>10, <2>4
    <3>3. a = b
      BY <2>1, <3>1, <3>2
    <3>4. ~(a \in 1 .. i - 1 /\ a \in i .. n)
      BY <1>1, <1>2
    <3> QED BY <3>1, <3>2, <3>3, <3>4
  <2> QED BY <2>2, <2>3, <2>4
<1>13. Sleepers(r) = Sleepers(q) \cup {c}
  <2>1. Sleepers(r) = {r[j].task : j \in 1 .. n + 1} /\ Sleepers(q) = {q[j].task : j \in 1 .. n}
    BY <1>3 DEF Sleepers, n
  <2>2. ASSUME NEW j \in 1 .. n + 1 PROVE r[j].task \in Sleepers(q) \cup {c}
    BY <1>3, <1>9, <1>10, <1>11
  <2>3. ASSUME NEW j \in 1 .. n PROVE \E k \in 1 .. n + 1 : r[k].task = q[j].task
    BY <1>3, <1>9, <1>10
  <2>4. \E k \in 1 .. n + 1 : r[k].task = c
    BY <1>3, <1>9
  <2> QED BY <2>1, <2>2, <2>3, <2>4
<1>14. /\ r[1].delay > 0
       /\ Until(r, n + 1) <= MAX_DELAY
  <2>1. CASE i = 1
    <3>1. r[1].delay = d
      <4>1. i - 1 = 0
        BY <2>1
      <4>2. r[i].delay = d - 0
        BY <1>3, <1>4, <4>1
      <4> QED BY <1>1, <2>1, <4>2
    <3> QED
      <4>1. CASE n = 0
        <5>1. n + 1 = i
          BY <2>1, <4>1
        <5> QED BY <1>1, <1>9, <3>1, <5>1
      <4>2. CASE n # 0
        <5>1. n \in i .. n /\ q # <<>>
          BY <1>1, <2>1, <4>2 DEF n
        <5>2. U(n) <= MAX_DELAY
          BY <5>1 DEF DeltaList, n, U
        <5> QED BY <1>1, <1>9, <3>1, <5>1, <5>2
      <4> QED BY <4>1, <4>2
  <2>2. CASE i # 1
    <3>1. 1 \in 1 .. i - 1 /\ n # 0 /\ q # <<>>
      BY <1>1, <1>2, <2>2 DEF n
    <3>2. r[1] = q[1] /\ q[1].delay > 0 /\ U(n) <= MAX_DELAY
      BY <1>3, <3>1 DEF DeltaList, n, U
    <3>3. CASE i = n + 1
      BY <1>1, <1>9, <3>2, <3>3
    <3>4. CASE i # n + 1
      <4>1. n \in i .. n
        BY <1>1, <1>2, <3>4
      <4> QED BY <1>9, <3>2, <4>1
    <3> QED BY <3>3, <3>4
  <2> QED BY <2>1, <2>2
<1>15. DeltaList(r)
  BY <1>3, <1>12, <1>14 DEF DeltaList
<1>16. Left(r)[c] = d
  <2>1. Left(r)[r[i].task] = Until(r, i)
    BY <1>3, <1>9, <1>12, LeftAt
  <2> QED BY <1>3, <1>9, <2>1
<1>17. ASSUME NEW x \in Sleepers(q) PROVE Left(r)[x] = Left(q)[x]
  <2>1. PICK j \in 1 .. n : x = q[j].task
    BY DEF Sleepers, n
  <2>2. Left(q)[x] = U(j)
    BY <1>1, <2>1, LeftAt DEF n, U
  <2>3. PICK k \in 1 .. n + 1 : r[k].task = x /\ Until(r, k) = U(j)
    BY <1>3, <1>9, <1>10, <2>1
  <2>4. Left(r)[r[k].task] = Until(r, k)
    BY <1>3, <1>12, LeftAt
  <2> QED BY <2>2, <2>3, <2>4
<1>18. /\ DeltaList(r) /\ Len(r) = n + 1 /\ Sleepers(r) = Sleepers(q) \cup {c} /\ Left(r)[c] = d
       /\ \A x \in Sleepers(q) : Left(r)[x] = Left(q)[x]
  BY <1>3, <1>13, <1>15, <1>16, <1>17
<1> QED BY <1>18 DEF r, n

-----------------------------------------------------------------------------
(* A tick.                                                                  *)

LEMMA AgedShape ==
  ASSUME NEW q \in Seq(Sleeper), q # <<>>, q[1].delay > 0
  PROVE  LET a == Aged(q)
         IN  /\ a \in Seq(Sleeper) /\ Len(a) = Len(q)
             /\ \A j \in 1 .. Len(q) :
                  /\ a[j].task = q[j].task
                  /\ a[j].delay = IF j = 1 THEN q[j].delay - 1 ELSE q[j].delay
<1> DEFINE a == Aged(q)
<1>1. /\ Len(q) \in Nat \ {0} /\ q[1].task \in Client /\ q[1].delay \in Nat
  <2>1. Len(q) \in Nat \ {0}
    BY ListTypes
  <2>2. 1 \in 1 .. Len(q)
    BY <2>1
  <2> QED BY <2>1, <2>2, ListTypes
<1>2. PICK e \in Nat : e = q[1].delay - 1
  BY <1>1
<1>3. PICK x \in Sleeper : x = Node(q[1].task, e) /\ x.task = q[1].task /\ x.delay = e
  BY <1>1, NodeFields
<1>4. PICK t \in Seq(Sleeper) : /\ t = Tail(q) /\ Len(t) = Len(q) - 1
                                /\ \A j \in 1 .. Len(q) - 1 : t[j] = q[j + 1]
  <2>1. /\ Tail(q) \in Seq(Sleeper) /\ Len(Tail(q)) = Len(q) - 1
        /\ \A j \in 1 .. Len(Tail(q)) : Tail(q)[j] = q[j + 1]
    BY HeadTailProperties
  <2> QED BY <2>1
<1>5. a = <<x>> \o t
  BY <1>2, <1>3, <1>4 DEF Aged
<1> HIDE DEF a
<1>6. <<x>> \in Seq(Sleeper) /\ Len(<<x>>) = 1 /\ <<x>>[1] = x
  OBVIOUS
<1>7. PICK s \in Seq(Sleeper) : s = <<x>> /\ Len(s) = 1 /\ s[1] = x
  BY <1>6
<1>8. /\ a \in Seq(Sleeper) /\ Len(a) = Len(q)
      /\ \A j \in 1 .. Len(q) : a[j] = IF j <= 1 THEN s[j] ELSE t[j - 1]
  <2>1. /\ s \o t \in Seq(Sleeper) /\ Len(s \o t) = Len(s) + Len(t)
        /\ \A j \in 1 .. Len(s) + Len(t) : (s \o t)[j] = IF j <= Len(s) THEN s[j]
                                                         ELSE t[j - Len(s)]
    BY ConcatProperties
  <2>2. Len(s) + Len(t) = Len(q) /\ Len(s) = 1
    BY <1>1, <1>4, <1>7
  <2>3. a = s \o t
    BY <1>5, <1>7
  <2> QED BY <2>1, <2>2, <2>3
<1>9. ASSUME NEW j \in 1 .. Len(q)
      PROVE  /\ a[j].task = q[j].task
             /\ a[j].delay = IF j = 1 THEN q[j].delay - 1 ELSE q[j].delay
  <2>1. CASE j = 1
    <3>1. j <= 1
      BY <2>1
    <3>2. a[j] = x
      BY <1>7, <1>8, <2>1, <3>1
    <3> QED BY <1>2, <1>3, <2>1, <3>2
  <2>2. CASE j # 1
    <3>1. ~(j <= 1) /\ j - 1 \in 1 .. Len(q) - 1 /\ (j - 1) + 1 = j
      BY <1>1, <2>2
    <3>2. a[j] = q[j]
      BY <1>4, <1>8, <3>1
    <3> QED BY <2>2, <3>2
  <2> QED BY <2>1, <2>2
<1>10. /\ a \in Seq(Sleeper) /\ Len(a) = Len(q)
       /\ \A j \in 1 .. Len(q) :
            /\ a[j].task = q[j].task
            /\ a[j].delay = IF j = 1 THEN q[j].delay - 1 ELSE q[j].delay
  BY <1>8, <1>9
<1> QED BY <1>10 DEF a

LEMMA DueFacts ==
  ASSUME NEW a \in Seq(Sleeper)
  PROVE  /\ Due(a) \in 0 .. Len(a)
         /\ \A i \in 1 .. Due(a) : a[i].delay = 0
         /\ Due(a) < Len(a) => a[Due(a) + 1].delay > 0
<1> DEFINE n == Len(a)
           Stops == {j \in 0 .. n : j < n => a[j + 1].delay > 0}
<1>1. n \in Nat /\ \A j \in 1 .. n : a[j].delay \in Nat
  BY ListTypes
<1> HIDE DEF n
<1>2. Stops \in SUBSET Nat /\ Stops # {}
  <2>1. n \in 0 .. n /\ ~(n < n)
    BY <1>1
  <2>2. n \in Stops
    BY <2>1
  <2> QED BY <1>1, <2>2
<1> HIDE DEF Stops
<1>3. PICK m \in Stops : \A j \in Stops : m <= j
  BY <1>2, LeastOf
<1>4. m \in 0 .. n /\ (m < n => a[m + 1].delay > 0)
  BY <1>3 DEF Stops
<1>5. ASSUME NEW i \in 1 .. m PROVE a[i].delay <= 0
  <2>1. /\ i - 1 \in 0 .. n /\ i - 1 < n /\ (i - 1) + 1 = i /\ ~(m <= i - 1) /\ i \in 1 .. n
    BY <1>1, <1>4
  <2>2. i - 1 \notin Stops
    BY <1>3, <2>1
  <2>3. ~(a[i].delay > 0) /\ a[i].delay \in Nat
    BY <1>1, <2>1, <2>2 DEF Stops
  <2> QED BY <2>3
<1>6. \E k \in 0 .. Len(a) : /\ \A i \in 1 .. k : a[i].delay <= 0
                             /\ k < Len(a) => a[k + 1].delay > 0
  BY <1>4, <1>5 DEF n
<1>7. /\ Due(a) \in 0 .. Len(a)
      /\ \A i \in 1 .. Due(a) : a[i].delay <= 0
      /\ Due(a) < Len(a) => a[Due(a) + 1].delay > 0
  BY <1>6 DEF Due
<1>8. ASSUME NEW i \in 1 .. Due(a) PROVE a[i].delay = 0
  <2>1. i \in 1 .. n
    BY <1>1, <1>7 DEF n
  <2> QED BY <1>1, <1>7, <2>1
<1> QED BY <1>7, <1>8

\* A tick takes one from every sleeper of the list and wakes those that had one left.
LEMMA TickedList ==
  ASSUME NEW q, DeltaList(q)
  PROVE  LET a == Aged(q)
             n == Due(a)
             r == SubSeq(a, n + 1, Len(a))
         IN  /\ DeltaList(r) /\ n \in Nat /\ Len(r) + n = Len(q)
             /\ Sleepers(r) = {x \in Sleepers(q) : Left(q)[x] > 1}
             /\ \A x \in Sleepers(r) : Left(r)[x] = Left(q)[x] - 1
             /\ Sleepers(SubSeq(a, 1, n)) = {x \in Sleepers(q) : Left(q)[x] = 1}
<1> DEFINE a == Aged(q)
           n == Due(a)
           l == Len(q)
           r == SubSeq(a, n + 1, Len(a))
           s == SubSeq(a, 1, n)
           Goal ==
             /\ DeltaList(r) /\ n \in Nat /\ Len(r) + n = l
             /\ Sleepers(r) = {x \in Sleepers(q) : Left(q)[x] > 1}
             /\ \A x \in Sleepers(r) : Left(r)[x] = Left(q)[x] - 1
             /\ Sleepers(s) = {x \in Sleepers(q) : Left(q)[x] = 1}
<1>1. q \in Seq(Sleeper) /\ Distinct(q) /\ l \in Nat
  BY ListTypes DEF DeltaList
<1>2. CASE q = <<>>
  <2>1. a = <<>> /\ Len(a) = 0 /\ l = 0
    BY <1>2 DEF Aged
  <2>2. n \in 0 .. Len(a)
    BY <1>1, <1>2, <2>1, DueFacts
  <2>3. n = 0
    BY <2>1, <2>2
  <2>4. r = <<>> /\ s = <<>>
    <3>1. SubSeq(<<>>, 0 + 1, 0) = <<>> /\ SubSeq(<<>>, 1, 0) = <<>>
      BY SubSeqEmpty
    <3> QED BY <2>1, <2>3, <3>1
  <2>5. Sleepers(<<>>) = {}
    BY DEF Sleepers
  <2> HIDE DEF a, n, l, r, s
  <2>6. Goal
    BY <1>2, <2>1, <2>3, <2>4, <2>5
  <2> QED BY <2>6 DEF a, n, l, r, s
<1>3. CASE q # <<>>
  <2> DEFINE U(j) == Until(q, j)
             V(j) == Until(a, j)
  <2>1. l \in Nat \ {0} /\ q[1].delay > 0 /\ U(l) <= MAX_DELAY
    BY <1>1, <1>3, ListTypes DEF DeltaList
  <2>2. /\ a \in Seq(Sleeper) /\ Len(a) = l
        /\ \A j \in 1 .. l : /\ a[j].task = q[j].task
                             /\ a[j].delay = IF j = 1 THEN q[j].delay - 1 ELSE q[j].delay
    BY <1>1, <1>3, <2>1, AgedShape
  <2>3. /\ n \in 0 .. l
        /\ \A i \in 1 .. n : a[i].delay = 0
        /\ n < l => a[n + 1].delay > 0
    BY <2>2, DueFacts
  <2>4. /\ U(0) = 0 /\ \A j \in 0 .. l : U(j) \in Nat
        /\ \A j \in 1 .. l : U(j) = U(j - 1) + q[j].delay /\ q[j].delay \in Nat
    BY <1>1, UntilSteps
  <2>5. /\ V(0) = 0 /\ \A j \in 0 .. l : V(j) \in Nat
        /\ \A j \in 1 .. l : V(j) = V(j - 1) + a[j].delay /\ a[j].delay \in Nat
    BY <2>2, UntilSteps
  <2> HIDE DEF a, n, l, r, s, U, V
  <2>6. \A j \in 1 .. l : V(j) = U(j) - 1
    <3> DEFINE f == [j \in 0 .. l |-> IF j = 0 THEN 0 ELSE U(j) - 1]
    <3>1. ASSUME NEW j \in 1 .. l PROVE f[j] = f[j - 1] + a[j].delay
      <4>1. j \in 0 .. l /\ j # 0 /\ j - 1 \in 0 .. l
        BY <2>1
      <4>2. f[j] = U(j) - 1 /\ U(j) = U(j - 1) + q[j].delay /\ q[j].delay \in Nat
            /\ U(j - 1) \in Nat /\ U(j) \in Nat
        BY <2>4, <4>1
      <4>3. CASE j = 1
        <5>1. f[j - 1] = 0 /\ U(j - 1) = 0
          BY <2>4, <4>1, <4>3
        <5>2. a[j].delay = q[j].delay - 1
          BY <2>2, <4>3
        <5> HIDE DEF f
        <5> QED BY <4>2, <5>1, <5>2
      <4>4. CASE j # 1
        <5>1. f[j - 1] = U(j - 1) - 1
          BY <4>1, <4>4
        <5>2. a[j].delay = q[j].delay
          BY <2>2, <4>4
        <5> HIDE DEF f
        <5> QED BY <4>2, <5>1, <5>2
      <4> QED BY <4>3, <4>4
    <3>2. f \in [0 .. l -> {f[j] : j \in 0 .. l}]
      OBVIOUS
    <3>3. f[0] = 0
      BY <2>1
    <3>4. ASSUME NEW j \in 1 .. l PROVE f[j] = U(j) - 1 /\ j \in 0 .. l
      <4>1. j \in 0 .. l /\ j # 0
        BY <2>1
      <4> QED BY <4>1
    <3> HIDE DEF f
    <3>5. \A j \in 0 .. l : Until(a, j) = f[j]
      BY <2>2, <3>1, <3>2, <3>3, UntilIs
    <3> QED BY <3>4, <3>5 DEF V
  <2>7. V(n) = 0
    <3> DEFINE More == {j \in 0 .. n : V(j) # 0}
    <3>1. More = {}
      <4> SUFFICES ASSUME More # {} PROVE FALSE
        OBVIOUS
      <4>1. More \in SUBSET Nat
        BY <2>1, <2>3
      <4> HIDE DEF More
      <4>2. PICK m \in More : \A i \in More : m <= i
        BY <4>1, LeastOf
      <4>3. m \in 0 .. n /\ V(m) # 0
        BY <4>2 DEF More
      <4>4. m # 0
        BY <2>5, <4>3
      <4>5. m \in 1 .. n /\ m \in 1 .. l /\ m - 1 \in 0 .. n /\ ~(m <= m - 1)
        BY <2>1, <2>3, <4>3, <4>4
      <4>6. V(m - 1) = 0
        BY <4>2, <4>5 DEF More
      <4>7. V(m) = V(m - 1) + a[m].delay /\ a[m].delay = 0
        BY <2>3, <2>5, <4>5
      <4> QED BY <4>3, <4>6, <4>7
    <3>2. n \in 0 .. n
      BY <2>1, <2>3
    <3> QED BY <3>1, <3>2
  \* The nodes of r are those behind the n-th, and have ticks left.
  <2>8. /\ r \in Seq(Sleeper) /\ Len(r) = l - n
        /\ \A j \in 1 .. l - n : r[j] = a[n + j]
    BY <2>2, <2>3, Dropped DEF r
  <2>9. s \in Seq(Sleeper) /\ Len(s) = n /\ \A j \in 1 .. n : s[j] = a[j]
    BY <2>2, <2>3, Taken DEF s
  <2>10. ASSUME NEW j \in 1 .. l - n PROVE n + j \in 1 .. l /\ n + (j - 1) = (n + j) - 1
    BY <2>1, <2>3
  <2>11. ASSUME NEW j \in 0 .. l - n PROVE Until(r, j) = V(n + j)
    <3> DEFINE f == [i \in 0 .. l - n |-> V(n + i)]
    <3>1. f[0] = 0
      BY <2>1, <2>3, <2>7
    <3>2. ASSUME NEW i \in 1 .. l - n PROVE f[i] = f[i - 1] + r[i].delay
      <4>1. i \in 0 .. l - n /\ i - 1 \in 0 .. l - n
        BY <2>1, <2>3
      <4>2. f[i] = V(n + i) /\ f[i - 1] = V((n + i) - 1)
        BY <2>10, <4>1
      <4>3. V(n + i) = V((n + i) - 1) + a[n + i].delay
        BY <2>5, <2>10
      <4> QED BY <2>8, <4>2, <4>3
    <3>3. PICK S : f \in [0 .. l - n -> S]
      <4>1. f \in [0 .. l - n -> {f[i] : i \in 0 .. l - n}]
        OBVIOUS
      <4> QED BY <4>1
    <3>4. f[j] = V(n + j)
      OBVIOUS
    <3> HIDE DEF f
    <3>5. f \in [0 .. Len(r) -> S] /\ j \in 0 .. Len(r)
      BY <2>8, <3>3
    <3>6. \A i \in 1 .. Len(r) : f[i] = f[i - 1] + r[i].delay
      BY <2>8, <3>2
    <3>7. Until(r, j) = f[j]
      BY <2>8, <3>1, <3>5, <3>6, UntilIs
    <3> QED BY <3>4, <3>7
  <2>12. Distinct(r)
    <3> SUFFICES ASSUME NEW j \in 1 .. l - n, NEW k \in 1 .. l - n, r[j].task = r[k].task
                 PROVE  j = k
      BY <2>8 DEF Distinct
    <3>1. q[n + j].task = q[n + k].task
      BY <2>2, <2>8, <2>10
    <3>2. n + j = n + k
      BY <1>1, <2>10, <3>1 DEF Distinct, l
    <3> QED BY <2>1, <2>3, <3>2
  <2>13. ASSUME r # <<>> PROVE r[1].delay > 0 /\ Until(r, Len(r)) <= MAX_DELAY
    <3>1. Len(r) # 0
      BY <2>8, <2>13, EmptySeq
    <3>2. n < l /\ 1 \in 1 .. l - n /\ l - n \in 0 .. l - n /\ n + (l - n) = l /\ l \in 1 .. l
          /\ l \in 0 .. l
      BY <2>1, <2>3, <2>8, <3>1
    <3>3. r[1].delay > 0
      BY <2>3, <2>8, <3>2
    <3>4. Until(r, Len(r)) = U(l) - 1
      BY <2>6, <2>8, <2>11, <3>2
    <3>5. U(l) \in Nat /\ MAX_DELAY \in Nat
      BY <2>4, <3>2, ClockAssumption
    <3> QED BY <2>1, <3>3, <3>4, <3>5
  <2>14. DeltaList(r)
    BY <2>8, <2>12, <2>13 DEF DeltaList
  <2>15. ASSUME NEW j \in 1 .. l
         PROVE  /\ q[j].task \in Sleepers(q) /\ Left(q)[q[j].task] = V(j) + 1
                /\ j <= n => V(j) = 0
                /\ j > n => V(j) > 0
                /\ V(j) \in Nat
    <3>1. q[j].task \in Sleepers(q) /\ Left(q)[q[j].task] = U(j)
      BY <1>1, LeftAt DEF l, U
    <3>2. V(j) = U(j) - 1 /\ U(j) \in Nat /\ V(j) \in Nat /\ j \in 0 .. l
      <4>1. j \in 0 .. l
        BY <2>1
      <4> QED BY <2>4, <2>5, <2>6, <4>1
    <3>3. ASSUME j <= n PROVE V(j) = 0
      <4>1. n \in j .. Len(a)
        BY <2>1, <2>2, <2>3, <3>3
      <4>2. V(j) <= V(n)
        BY <2>2, <3>2, <4>1, UntilGrows DEF V
      <4> QED BY <2>7, <3>2, <4>2
    <3>4. ASSUME j > n PROVE V(j) > 0
      <4>1. n + 1 \in 1 .. l /\ n + 1 \in 0 .. l /\ n < l /\ (n + 1) - 1 = n /\ j \in n + 1 .. l
        BY <2>1, <2>3, <3>4
      <4>2. V(n + 1) = V(n) + a[n + 1].delay /\ a[n + 1].delay \in Nat /\ a[n + 1].delay > 0
        BY <2>3, <2>5, <4>1
      <4>3. V(n + 1) <= V(j)
        BY <2>2, <4>1, UntilGrows DEF V
      <4> QED BY <2>7, <3>2, <4>2, <4>3
    <3> QED BY <3>1, <3>2, <3>3, <3>4
  <2>16. Sleepers(q) = {q[j].task : j \in 1 .. l}
    BY DEF Sleepers, l
  <2>17. Sleepers(r) = {x \in Sleepers(q) : Left(q)[x] > 1}
    <3>1. Sleepers(r) = {r[j].task : j \in 1 .. l - n}
      BY <2>8 DEF Sleepers
    <3>2. ASSUME NEW j \in 1 .. l - n
          PROVE  r[j].task \in Sleepers(q) /\ Left(q)[r[j].task] > 1
      <4>1. n + j \in 1 .. l /\ n + j > n
        BY <2>1, <2>3
      <4>2. r[j].task = q[n + j].task
        BY <2>2, <2>8, <4>1
      <4>3. Left(q)[r[j].task] = V(n + j) + 1 /\ V(n + j) > 0 /\ V(n + j) \in Nat
        BY <2>15, <4>1, <4>2
      <4> QED BY <2>15, <4>1, <4>2, <4>3
    <3>3. ASSUME NEW x \in Sleepers(q), Left(q)[x] > 1
          PROVE  \E j \in 1 .. l - n : x = r[j].task
      <4>1. PICK k \in 1 .. l : x = q[k].task
        BY <2>16
      <4>2. V(k) \in Nat /\ V(k) + 1 > 1
        BY <2>15, <3>3, <4>1
      <4>3. ~(k <= n)
        BY <2>15, <4>2
      <4>4. k - n \in 1 .. l - n /\ n + (k - n) = k
        BY <2>1, <2>3, <4>3
      <4>5. r[k - n].task = x
        BY <2>2, <2>8, <4>1, <4>4
      <4> QED BY <4>4, <4>5
    <3> QED BY <3>1, <3>2, <3>3
  <2>18. ASSUME NEW x \in Sleepers(r) PROVE Left(r)[x] = Left(q)[x] - 1
    <3>1. PICK j \in 1 .. l - n : x = r[j].task
      BY <2>8 DEF Sleepers
    <3>2. j \in 1 .. Len(r) /\ j \in 0 .. l - n
      BY <2>1, <2>3, <2>8
    <3>3. Left(r)[x] = V(n + j)
      BY <2>8, <2>11, <2>12, <3>1, <3>2, LeftAt
    <3>4. x = q[n + j].task /\ n + j \in 1 .. l
      BY <2>2, <2>8, <2>10, <3>1
    <3>5. Left(q)[x] = V(n + j) + 1 /\ V(n + j) \in Nat
      BY <2>15, <3>4
    <3> QED BY <3>3, <3>5
  <2>19. Sleepers(s) = {x \in Sleepers(q) : Left(q)[x] = 1}
    <3>1. Sleepers(s) = {s[j].task : j \in 1 .. n}
      BY <2>9 DEF Sleepers
    <3>2. ASSUME NEW j \in 1 .. n
          PROVE  s[j].task \in Sleepers(q) /\ Left(q)[s[j].task] = 1
      <4>1. j \in 1 .. l /\ j <= n
        BY <2>1, <2>3
      <4>2. s[j].task = q[j].task
        BY <2>2, <2>9, <4>1
      <4> QED BY <2>15, <4>1, <4>2
    <3>3. ASSUME NEW x \in Sleepers(q), Left(q)[x] = 1
          PROVE  \E j \in 1 .. n : x = s[j].task
      <4>1. PICK k \in 1 .. l : x = q[k].task
        BY <2>16
      <4>2. V(k) \in Nat /\ V(k) + 1 = 1
        BY <2>15, <3>3, <4>1
      <4>3. ~(k > n)
        BY <2>15, <4>2
      <4>4. k \in 1 .. n
        BY <2>1, <2>3, <4>3
      <4>5. s[k].task = x
        BY <2>2, <2>9, <4>1, <4>4
      <4> QED BY <4>4, <4>5
    <3> QED BY <3>1, <3>2, <3>3
  <2>20. n \in Nat /\ Len(r) + n = l
    BY <2>1, <2>3, <2>8
  <2>21. Goal
    BY <2>14, <2>17, <2>18, <2>19, <2>20
  <2> QED BY <2>21 DEF a, n, l, r, s
<1> QED BY <1>2, <1>3

-----------------------------------------------------------------------------
(* Messages.                                                               *)

LEMMA MessageKinds ==
  ASSUME NEW m \in Message
  PROVE  /\ m.type \in {"delay", "time", "notify"}
         /\ m.type = "delay" <=> m \in DelayMessages
         /\ m.type = "time" <=> m \in TimeMessages
         /\ m.type = "notify" <=> m \in TickMessages
         /\ m \in Request <=> m.type # "notify"
         /\ m \in DelayMessages => /\ m.from \in Client /\ m.clock \in Clock /\ m.ticks \in Delay
                                   /\ m = DelayMessage(m.from, m.clock, m.ticks)
         /\ m \in TimeMessages => m.from \in Client /\ m = TimeMessage(m.from)
         /\ m \in TickMessages => m.clock \in Clock /\ m = TickMessage(m.clock)
         /\ m \in Request => m.from \in Client
<1>1. CASE m \in DelayMessages
  <2>1. m.type = "delay" /\ m \notin TimeMessages /\ m \notin TickMessages
    BY <1>1 DEF DelayMessages, TimeMessages, TickMessages
  <2>2. /\ m.from \in Client /\ m.clock \in Clock /\ m.ticks \in Delay
        /\ m = DelayMessage(m.from, m.clock, m.ticks)
    BY <1>1 DEF DelayMessages, DelayMessage
  <2> QED BY <1>1, <2>1, <2>2 DEF Request
<1>2. CASE m \in TimeMessages
  <2>1. m.type = "time" /\ m \notin DelayMessages /\ m \notin TickMessages
    BY <1>2 DEF DelayMessages, TimeMessages, TickMessages
  <2>2. m.from \in Client /\ m = TimeMessage(m.from)
    BY <1>2 DEF TimeMessages, TimeMessage
  <2> QED BY <1>2, <2>1, <2>2 DEF Request
<1>3. CASE m \in TickMessages
  <2>1. m.type = "notify" /\ m \notin DelayMessages /\ m \notin TimeMessages
    BY <1>3 DEF DelayMessages, TimeMessages, TickMessages
  <2>2. m.clock \in Clock /\ m = TickMessage(m.clock)
    BY <1>3 DEF TickMessages, TickMessage
  <2> QED BY <1>3, <2>1, <2>2 DEF Request
<1> QED BY <1>1, <1>2, <1>3 DEF Message, Request

LEMMA DelayMessageIs ==
  ASSUME NEW c \in Client, NEW k \in Clock, NEW d \in Delay
  PROVE  /\ DelayMessage(c, k, d) \in DelayMessages /\ DelayMessage(c, k, d) \in Message
         /\ DelayMessage(c, k, d).from = c /\ DelayMessage(c, k, d).clock = k
         /\ DelayMessage(c, k, d).ticks = d /\ DelayMessage(c, k, d).type = "delay"
BY DEF DelayMessage, DelayMessages, Message, Request

LEMMA TimeMessageIs ==
  ASSUME NEW c \in Client
  PROVE  /\ TimeMessage(c) \in TimeMessages /\ TimeMessage(c) \in Message
         /\ TimeMessage(c).from = c /\ TimeMessage(c).type = "time"
BY DEF TimeMessage, TimeMessages, Message, Request

LEMMA TickMessageIs ==
  ASSUME NEW k \in Clock
  PROVE  /\ TickMessage(k) \in TickMessages /\ TickMessage(k) \in Message
         /\ TickMessage(k).clock = k /\ TickMessage(k).type = "notify"
BY DEF TickMessage, TickMessages, Message

LEMMA MailFacts ==
  ASSUME inbox \in Seq(Message)
  PROVE  /\ Mail \subseteq Message
         /\ \A S : /\ Count(inbox, S) \in Nat
                   /\ Count(inbox, S) = 0 <=> Mail \cap S = {}
<1>1. Mail \subseteq Message
  <2>1. \A i \in 1 .. Len(inbox) : inbox[i] \in Message
    BY ElementOfSeq
  <2> QED BY <2>1 DEF Mail
<1>2. ASSUME NEW S
      PROVE  Count(inbox, S) \in Nat /\ (Count(inbox, S) = 0 <=> Mail \cap S = {})
  <2>1. Count(inbox, S) \in Nat
    BY PlacesFinite
  <2>2. Count(inbox, S) = 0 <=> \A i \in 1 .. Len(inbox) : inbox[i] \notin S
    BY CountZero
  <2> QED BY <2>1, <2>2 DEF Mail
<1> QED BY <1>1, <1>2

LEMMA MailPosted ==
  ASSUME inbox \in Seq(Message), NEW m \in Message, inbox' = Append(inbox, m)
  PROVE  /\ inbox' \in Seq(Message) /\ Mail' = Mail \cup {m}
         /\ \A S : Count(inbox', S) = Count(inbox, S) + One(m \in S)
         /\ \A c : m # TimeMessage(c) /\ TickAhead(c)' => TickAhead(c)
<1>1. /\ inbox' \in Seq(Message) /\ Len(inbox') = Len(inbox) + 1 /\ Len(inbox) \in Nat
      /\ inbox'[Len(inbox) + 1] = m
      /\ \A i \in 1 .. Len(inbox) : inbox'[i] = inbox[i]
  BY AppendProperties, LenProperties
<1>2. Mail' = Mail \cup {m}
  <2>1. Mail' = {inbox'[i] : i \in 1 .. Len(inbox) + 1}
    BY <1>1 DEF Mail
  <2>2. \A i \in 1 .. Len(inbox) + 1 : i \in 1 .. Len(inbox) \/ i = Len(inbox) + 1
    BY <1>1
  <2>3. /\ \A i \in 1 .. Len(inbox) : i \in 1 .. Len(inbox) + 1
        /\ Len(inbox) + 1 \in 1 .. Len(inbox) + 1
    BY <1>1
  <2> QED BY <1>1, <2>1, <2>2, <2>3 DEF Mail
<1>3. \A S : Count(inbox', S) = Count(inbox, S) + One(m \in S)
  BY CountAppend
<1>4. ASSUME NEW c, m # TimeMessage(c), TickAhead(c)' PROVE TickAhead(c)
  <2>1. PICK i \in 1 .. Len(inbox'), j \in 1 .. Len(inbox') :
          i < j /\ inbox'[i] = TickMessage("tick") /\ inbox'[j] = TimeMessage(c)
    BY <1>4 DEF TickAhead
  <2>2. j # Len(inbox) + 1
    BY <1>1, <1>4, <2>1
  <2>3. j \in 1 .. Len(inbox) /\ i \in 1 .. Len(inbox)
    BY <1>1, <2>1, <2>2
  <2> QED BY <1>1, <2>1, <2>3 DEF TickAhead
<1> QED BY <1>1, <1>2, <1>3, <1>4

LEMMA MailTaken ==
  ASSUME inbox \in Seq(Message), inbox # <<>>, inbox' = Tail(inbox), NEW m, m = Head(inbox)
  PROVE  /\ inbox' \in Seq(Message) /\ m \in Message /\ Mail = Mail' \cup {m}
         /\ \A S : Count(inbox', S) = Count(inbox, S) - One(m \in S)
         /\ \A c : TickAhead(c)' => TickAhead(c)
         /\ \A c : m = TickMessage("tick") /\ TimeMessage(c) \in Mail' => TickAhead(c)
<1>1. /\ inbox' \in Seq(Message) /\ Len(inbox') = Len(inbox) - 1 /\ Len(inbox) \in Nat \ {0}
      /\ m \in Message
  BY HeadTailProperties, EmptySeq
<1>2. m = inbox[1]
  OBVIOUS
<1>3. \A i \in 1 .. Len(inbox') : inbox'[i] = inbox[i + 1]
  BY HeadTailProperties
<1>4. /\ \A i \in 1 .. Len(inbox') : i + 1 \in 1 .. Len(inbox)
      /\ \A i \in 1 .. Len(inbox) : i = 1 \/ (i - 1 \in 1 .. Len(inbox') /\ (i - 1) + 1 = i)
      /\ 1 \in 1 .. Len(inbox)
  BY <1>1
<1>5. Mail = Mail' \cup {m}
  <2>1. ASSUME NEW x \in Mail PROVE x \in Mail' \cup {m}
    <3>1. PICK i \in 1 .. Len(inbox) : x = inbox[i]
      BY <2>1 DEF Mail
    <3>2. CASE i = 1
      BY <1>2, <3>1, <3>2
    <3>3. CASE i # 1
      <4>1. i - 1 \in 1 .. Len(inbox') /\ inbox'[i - 1] = x
        BY <1>3, <1>4, <3>1, <3>3
      <4> QED BY <4>1 DEF Mail
    <3> QED BY <3>2, <3>3
  <2>2. ASSUME NEW x \in Mail' PROVE x \in Mail
    <3>1. PICK i \in 1 .. Len(inbox') : x = inbox'[i]
      BY <2>2 DEF Mail
    <3>2. i + 1 \in 1 .. Len(inbox) /\ inbox[i + 1] = x
      BY <1>3, <1>4, <3>1
    <3> QED BY <3>2 DEF Mail
  <2>3. m \in Mail
    BY <1>2, <1>4 DEF Mail
  <2> QED BY <2>1, <2>2, <2>3
<1>6. \A S : Count(inbox', S) = Count(inbox, S) - One(m \in S)
  BY CountTail
<1>7. ASSUME NEW c, TickAhead(c)' PROVE TickAhead(c)
  <2>1. PICK i \in 1 .. Len(inbox'), j \in 1 .. Len(inbox') :
          i < j /\ inbox'[i] = TickMessage("tick") /\ inbox'[j] = TimeMessage(c)
    BY <1>7 DEF TickAhead
  <2>2. i + 1 \in 1 .. Len(inbox) /\ j + 1 \in 1 .. Len(inbox) /\ i + 1 < j + 1
    BY <1>1, <2>1
  <2>3. inbox[i + 1] = TickMessage("tick") /\ inbox[j + 1] = TimeMessage(c)
    BY <1>3, <2>1
  <2> QED BY <2>2, <2>3 DEF TickAhead
<1>8. ASSUME NEW c, m = TickMessage("tick"), TimeMessage(c) \in Mail' PROVE TickAhead(c)
  <2>1. PICK j \in 1 .. Len(inbox') : inbox'[j] = TimeMessage(c)
    BY <1>8 DEF Mail
  <2>2. j + 1 \in 1 .. Len(inbox) /\ 1 < j + 1 /\ inbox[j + 1] = TimeMessage(c)
    BY <1>1, <1>3, <2>1
  <2> QED BY <1>2, <1>4, <1>8, <2>2 DEF TickAhead
<1> QED BY <1>1, <1>5, <1>6, <1>7, <1>8

LEMMA NoTickAhead ==
  ASSUME NEW c, TickMessage("tick") \notin Mail
  PROVE  ~TickAhead(c)
BY DEF TickAhead, Mail

-----------------------------------------------------------------------------
(* The time, which wraps.                                                   *)

\* The time is no further from a target than half its range.
LEMMA SignedDistance ==
  ASSUME NEW t \in Time, NEW r \in -2 .. MAX_DELAY
  PROVE  (t + r) % TIME_COUNT \in Time /\ Signed(((t + r) % TIME_COUNT) - t) = r
<1> DEFINE N == TIME_COUNT
           H == N \div 2
           v == (t + r) % N
<1>1. /\ N \in Nat \ {0} /\ MAX_DELAY \in Nat \ {0} /\ N > 2 * MAX_DELAY + 2
      /\ t \in 0 .. N - 1 /\ r \in -2 .. MAX_DELAY
  BY ClockAssumption DEF Time
<1>2. PICK h \in Nat : h = H /\ 2 * h <= N /\ N <= 2 * h + 1
  <2>1. H \in Nat /\ 2 * H <= N /\ N <= 2 * H + 1
    BY <1>1
  <2> QED BY <2>1
<1>3. h >= 2 /\ MAX_DELAY + h <= N - 1
  BY <1>1, <1>2
<1> HIDE DEF H, N
<1>4. /\ v = IF t + r < 0 THEN t + r + N ELSE IF t + r < N THEN t + r ELSE t + r - N
      /\ v \in 0 .. N - 1
  <2>1. PICK a \in -N .. 2 * N - 1 : a = t + r
    BY <1>1
  <2>2. /\ a % N = IF a < 0 THEN a + N ELSE IF a < N THEN a ELSE a - N
        /\ a % N \in 0 .. N - 1
    BY <1>1, Wrapped
  <2>3. v = a % N
    BY <2>1
  <2> QED BY <1>1, <2>1, <2>2, <2>3
<1> HIDE DEF v
<1>5. ((v - t) + h) % N = r + h
  <2>1. r + h \in 0 .. N - 1
    BY <1>1, <1>3
  <2>2. (v - t) + h = r + h \/ (v - t) + h = r + h + N \/ (v - t) + h = r + h - N
    BY <1>1, <1>4
  <2>3. PICK w \in Int : w = (v - t) + h
    BY <1>1, <1>4
  <2>4. w \in -N .. 2 * N - 1
    BY <1>1, <2>1, <2>2, <2>3
  <2>5. w % N = IF w < 0 THEN w + N ELSE IF w < N THEN w ELSE w - N
    BY <1>1, <2>4, Wrapped
  <2>6. w % N = r + h
    <3>1. CASE w = r + h
      BY <1>1, <2>1, <2>5, <3>1
    <3>2. CASE w = r + h + N
      BY <1>1, <2>1, <2>5, <3>2
    <3>3. CASE w = r + h - N
      BY <1>1, <2>1, <2>5, <3>3
    <3> QED BY <2>2, <2>3, <3>1, <3>2, <3>3
  <2> QED BY <2>3, <2>6
<1>6. Signed(v - t) = (((v - t) + h) % N) - h
  BY <1>2 DEF Signed, H, N
<1>7. Signed(v - t) = r
  BY <1>1, <1>5, <1>6
<1> QED BY <1>4, <1>7 DEF v, N, Time

\* A tick brings the time one nearer to the target.
LEMMA OneNearer ==
  ASSUME NEW t \in Time, NEW r \in -2 .. MAX_DELAY
  PROVE  /\ (t + 1) % TIME_COUNT \in Time
         /\ (((t + 1) % TIME_COUNT) + (r - 1)) % TIME_COUNT = (t + r) % TIME_COUNT
<1> DEFINE N == TIME_COUNT
<1>1. /\ N \in Nat \ {0} /\ MAX_DELAY \in Nat \ {0} /\ N > 2 * MAX_DELAY + 2
      /\ t \in 0 .. N - 1 /\ r \in -2 .. MAX_DELAY
  BY ClockAssumption DEF Time
<1> HIDE DEF N
<1>2. PICK u \in Int : u = (t + 1) % N /\ u = (IF t + 1 < N THEN t + 1 ELSE 0) /\ u \in 0 .. N - 1
  <2>1. PICK a \in -N .. 2 * N - 1 : a = t + 1
    BY <1>1
  <2>2. /\ a % N = IF a < 0 THEN a + N ELSE IF a < N THEN a ELSE a - N
        /\ a % N \in 0 .. N - 1
    BY <1>1, Wrapped
  <2>3. a % N = IF a < N THEN a ELSE 0
    BY <1>1, <2>1, <2>2
  <2> QED BY <2>1, <2>2, <2>3
<1>3. (u + (r - 1)) % N = (t + r) % N
  <2>1. CASE t + 1 < N
    <3>1. u + (r - 1) = t + r
      BY <1>1, <1>2, <2>1
    <3> QED BY <3>1
  <2>2. CASE ~(t + 1 < N)
    <3>1. PICK a \in Int : a = r - 1 /\ u + (r - 1) = a /\ t + r = a + N
      BY <1>1, <1>2, <2>2
    <3>2. a \in -N .. 2 * N - 1 /\ a + N \in -N .. 2 * N - 1 /\ a < N /\ a + N >= 0
      BY <1>1, <3>1
    <3>3. a % N = IF a < 0 THEN a + N ELSE a
      BY <1>1, <3>2, Wrapped
    <3>4. (a + N) % N = IF a + N < N THEN a + N ELSE a
      <4>1. PICK b \in Int : b = a + N
        BY <1>1, <3>1
      <4>2. b % N = IF b < 0 THEN b + N ELSE IF b < N THEN b ELSE b - N
        BY <1>1, <3>2, <4>1, Wrapped
      <4> QED BY <1>1, <3>2, <4>1, <4>2
    <3> QED BY <1>1, <3>1, <3>3, <3>4
  <2> QED BY <2>1, <2>2
<1> QED BY <1>2, <1>3 DEF N, Time

-----------------------------------------------------------------------------
(* The invariant holds at the start, and every step keeps it.               *)

LEMMA ClockInvInit == Init => ClockInv
<1> SUFFICES ASSUME Init PROVE ClockInv
  OBVIOUS
<1> USE DEF Init
<1>1. TIME_COUNT \in Nat \ {0} /\ NODE_COUNT \in Nat /\ MAX_DELAY \in Nat
  BY ClockAssumption
<1>2. ClockTypes
  <2>1. \A T : <<>> \in Seq(T)
    BY EmptySeq
  <2>2. <<>> \in Seq(Sleeper) /\ <<>> \in Seq(Message)
    BY <2>1
  <2>3. queue \in [Clock -> Seq(Sleeper)]
    BY <2>2
  <2>4. absoluteTime \in Time /\ 0 \in Time
    BY <1>1 DEF Time
  <2> QED BY <1>1, <2>2, <2>3, <2>4 DEF ClockTypes
<1>3. Sleepers(<<>>) = {}
  <2>1. Len(<<>>) = 0
    BY EmptySeq
  <2> QED BY <2>1 DEF Sleepers
<1>4. ListsKept
  <2>1. <<>> \in Seq(Sleeper) /\ Len(<<>>) = 0
    BY EmptySeq
  <2>2. DeltaList(<<>>)
    BY <2>1 DEF DeltaList, Distinct
  <2> QED BY <1>1, <2>1, <2>2 DEF ListsKept
<1>5. \A S : Count(inbox, S) = 0
  BY CountEmpty
<1>6. Mail = {}
  <2>1. Len(inbox) = 0
    BY EmptySeq
  <2> QED BY <2>1 DEF Mail
<1>7. TicksOnce
  BY <1>5 DEF TicksOnce, One
<1>8. ClientsOnTime
  BY <1>3, <1>6 DEF ClientsOnTime, AwakeOnTime
<1>9. ClientsOnce
  BY <1>3, <1>5 DEF ClientsOnce, Asked, Sleeps, One
<1>10. RequestsFit
  BY <1>6 DEF RequestsFit
<1> QED BY <1>2, <1>4, <1>7, <1>8, <1>9, <1>10 DEF ClockInv

\* Who asks has one message under way and does not sleep yet.
LEMMA AskedFacts ==
  ASSUME ClockInv, ~failed, NEW c \in Client
  PROVE  /\ Asked(c) \in Nat
         /\ Asked(c) = 0 <=> \A m \in Mail \cap Request : m.from # c
         /\ client[c] \in {"run", "told"} => Asked(c) = 0 /\ ~Sleeps(c)
         /\ Asked(c) # 0 => /\ Asked(c) = 1 /\ ~Sleeps(c)
                            /\ client[c] \in {"time", "until", "sleep"}
         /\ Sleeps(c) => client[c] = "sleep"
<1>1. inbox \in Seq(Message) /\ ClientsOnce
  BY DEF ClockInv, ClockTypes
<1>2. Asked(c) \in Nat /\ (Asked(c) = 0 <=> Mail \cap From(c) = {})
  BY <1>1, MailFacts DEF Asked
<1>3. Mail \cap From(c) = {} <=> \A m \in Mail \cap Request : m.from # c
  BY DEF From
<1>4. /\ Asked(c) =
           One(client[c] \in {"time", "until"} \/ (client[c] = "sleep" /\ ~Sleeps(c)))
      /\ Sleeps(c) => client[c] = "sleep"
  BY <1>1 DEF ClientsOnce
<1>5. client[c] \in {"run", "told"} => Asked(c) = 0 /\ ~Sleeps(c)
  BY <1>4 DEF One
<1>6. Asked(c) # 0 => /\ Asked(c) = 1 /\ ~Sleeps(c)
                      /\ client[c] \in {"time", "until", "sleep"}
  BY <1>4 DEF One
<1> QED BY <1>2, <1>3, <1>4, <1>5, <1>6

\* What a client that no message and no list knows does leaves the others on time.
LEMMA OthersOnTime ==
  ASSUME ClockInv, ~failed, NEW c \in Client, client[c] \in {"run", "told"},
         UNCHANGED <<serverVars, notifier>>,
         \A x \in Client \ {c} : owed'[x] = owed[x] /\ until'[x] = until[x]
  PROVE  /\ \A m \in Mail \cap DelayMessages : OnTime(m.from, m.clock, m.ticks)'
         /\ \A k \in Clock : \A x \in Sleepers(queue[k]) : OnTime(x, k, Left(queue[k])[x])'
<1>1. (\A m \in Mail \cap Request : m.from # c) /\ ~Sleeps(c)
  BY AskedFacts
<1>2. ClientsOnTime /\ ListsKept /\ inbox \in Seq(Message)
  BY DEF ClockInv, ClockTypes
<1>3. ASSUME NEW m \in Mail \cap DelayMessages
      PROVE  OnTime(m.from, m.clock, m.ticks)'
  <2>1. m \in Mail \cap Request
    BY <1>3 DEF Request
  <2>2. m.from \in Client \ {c}
    BY <1>1, <1>3, <2>1 DEF DelayMessages
  <2>3. OnTime(m.from, m.clock, m.ticks)
    BY <1>2, <1>3 DEF ClientsOnTime
  <2> QED BY <2>2, <2>3 DEF OnTime, serverVars
<1>4. ASSUME NEW k \in Clock, NEW x \in Sleepers(queue[k])
      PROVE  OnTime(x, k, Left(queue[k])[x])'
  <2>1. x \in Client
    BY <1>2, LeftType DEF ListsKept
  <2>2. x # c
    BY <1>1 DEF Sleeps
  <2>3. OnTime(x, k, Left(queue[k])[x])
    BY <1>2 DEF ClientsOnTime
  <2> QED BY <2>1, <2>2, <2>3 DEF OnTime, serverVars
<1> QED BY <1>3, <1>4

LEMMA DelayAsked ==
  ASSUME ClockInv, ~failed, NEW c \in Client, NEW k \in Clock, NEW d \in Delay,
         client[c] \in {"run", "told"}, until[c] <= IF k = "tick" THEN d ELSE 0,
         AsksDelay(c, k, d), UNCHANGED <<serverVars, notifier, failed, until>>,
         target' \in [Client -> Time], reading' \in [Client -> Time],
         \A x \in Client \ {c} : target'[x] = target[x] /\ reading'[x] = reading[x]
  PROVE  ClockInv'
<1> DEFINE m == DelayMessage(c, k, d)
<1>1. /\ m \in DelayMessages /\ m \in Message /\ m.from = c /\ m.clock = k
      /\ m.ticks = d /\ m.type = "delay"
  BY DelayMessageIs
<1>2. /\ \A l \in Clock : m # TickMessage(l)
      /\ \A x \in Client : m # TimeMessage(x)
  <2>1. \A l \in Clock : TickMessage(l).type = "notify"
    BY TickMessageIs
  <2>2. \A x \in Client : TimeMessage(x).type = "time"
    BY TimeMessageIs
  <2> QED BY <1>1, <2>1, <2>2
<1>3. /\ inbox' = Append(inbox, m) /\ client' = [client EXCEPT ![c] = "sleep"]
      /\ owed' = [owed EXCEPT ![c] = d - 1]
  BY DEF AsksDelay, Posts
<1> HIDE DEF m
<1>4. ClockTypes /\ ClientsOnTime /\ ListsKept /\ TicksOnce /\ ClientsOnce /\ RequestsFit
  BY DEF ClockInv
<1>5. inbox \in Seq(Message)
  BY <1>4 DEF ClockTypes
<1>6. /\ inbox' \in Seq(Message) /\ Mail' = Mail \cup {m}
      /\ \A S : Count(inbox', S) = Count(inbox, S) + One(m \in S)
      /\ \A x : m # TimeMessage(x) /\ TickAhead(x)' => TickAhead(x)
  BY <1>1, <1>3, <1>5, MailPosted
<1>7. d - 1 \in Nat /\ d \in Nat /\ MAX_DELAY \in Nat
  BY ClockAssumption DEF Delay
<1>8. ClockTypes'
  <2>1. /\ client' \in [Client -> {"run", "time", "until", "told", "sleep"}]
        /\ owed' \in [Client -> Nat]
    BY <1>3, <1>4, <1>7 DEF ClockTypes
  <2> QED BY <1>4, <1>6, <2>1 DEF ClockTypes, serverVars
<1>9. ListsKept'
  BY <1>4 DEF ListsKept, serverVars
<1>10. TicksOnce'
  <2>1. ASSUME NEW l \in Clock
        PROVE  Count(inbox', {TickMessage(l)}) = Count(inbox, {TickMessage(l)})
    <3>1. One(m \in {TickMessage(l)}) = 0
      BY <1>2 DEF One
    <3>2. Count(inbox, {TickMessage(l)}) \in Nat
      BY <1>5, MailFacts
    <3> QED BY <1>6, <3>1, <3>2
  <2> QED BY <1>4, <2>1 DEF TicksOnce
<1>11. (\A x \in Mail \cap Request : x.from # c) /\ Asked(c) = 0 /\ ~Sleeps(c)
  BY AskedFacts
<1>12. ClientsOnTime'
  <2>1. \A x \in Client \ {c} : owed'[x] = owed[x] /\ until'[x] = until[x]
    BY <1>3, <1>4 DEF ClockTypes
  <2>2. /\ \A x \in Mail \cap DelayMessages : OnTime(x.from, x.clock, x.ticks)'
        /\ \A l \in Clock : \A x \in Sleepers(queue[l]) : OnTime(x, l, Left(queue[l])[x])'
    BY <2>1, OthersOnTime
  <2>3. OnTime(m.from, m.clock, m.ticks)'
    BY <1>1, <1>3, <1>4, <1>7 DEF OnTime, ClockTypes
  <2>4. ASSUME NEW x \in Client PROVE AwakeOnTime(x)'
    <3>1. CASE x = c
      BY <1>3, <1>4, <3>1 DEF AwakeOnTime, ClockTypes
    <3>2. CASE x # c
      <4>1. client'[x] = client[x] /\ owed'[x] = owed[x] /\ target'[x] = target[x]
            /\ reading'[x] = reading[x]
        BY <1>3, <1>4, <3>2 DEF ClockTypes
      <4>2. TickAhead(x)' => TickAhead(x)
        BY <1>2, <1>6
      <4>3. AwakeOnTime(x)
        BY <1>4 DEF ClientsOnTime
      <4> QED BY <4>1, <4>2, <4>3 DEF AwakeOnTime, Aims, serverVars
    <3> QED BY <3>1, <3>2
  <2>5. \A x \in Mail' \cap DelayMessages : OnTime(x.from, x.clock, x.ticks)'
    BY <1>6, <2>2, <2>3
  <2>6. \A l \in Clock : \A x \in Sleepers(queue'[l]) : OnTime(x, l, Left(queue[l])[x])'
    BY <2>2 DEF serverVars
  <2> QED BY <2>4, <2>5, <2>6 DEF ClientsOnTime
<1>13. ClientsOnce'
  <2>1. \A x : Sleeps(x)' <=> Sleeps(x)
    BY DEF Sleeps, serverVars
  <2>2. ASSUME NEW x \in Client
        PROVE  /\ Asked(x)' = Asked(x) + One(x = c)
               /\ Asked(x) \in Nat
    <3>1. m \in From(x) <=> x = c
      BY <1>1 DEF From, Request
    <3>2. Asked(x)' = Asked(x) + One(m \in From(x))
      BY <1>6 DEF Asked
    <3> QED BY <3>1, <3>2, AskedFacts DEF One
  <2>3. ASSUME NEW x \in Client
        PROVE  /\ Asked(x)' = One(client'[x] \in {"time", "until"}
                                    \/ (client'[x] = "sleep" /\ ~Sleeps(x)'))
               /\ Sleeps(x)' => client'[x] = "sleep"
    <3>1. CASE x = c
      <4>1. client'[x] = "sleep"
        BY <1>3, <1>4, <3>1 DEF ClockTypes
      <4> QED BY <1>11, <2>1, <2>2, <3>1, <4>1 DEF One
    <3>2. CASE x # c
      <4>1. client'[x] = client[x]
        BY <1>3, <1>4, <3>2 DEF ClockTypes
      <4>2. Asked(x)' = Asked(x)
        BY <2>2, <3>2 DEF One
      <4> QED BY <1>4, <2>1, <4>1, <4>2 DEF ClientsOnce
    <3> QED BY <3>1, <3>2
  <2>4. \A x \in Client : \A l, n \in Clock :
          x \in Sleepers(queue'[l]) /\ x \in Sleepers(queue'[n]) => l = n
    BY <1>4 DEF ClientsOnce, serverVars
  <2> QED BY <2>3, <2>4 DEF ClientsOnce
<1>14. RequestsFit'
  <2>1. ASSUME NEW x \in Mail' \cap Request
        PROVE  x.type = "delay" <=> client'[x.from] = "sleep"
    <3>1. CASE x = m
      <4>1. client'[c] = "sleep"
        BY <1>3, <1>4 DEF ClockTypes
      <4> QED BY <1>1, <3>1, <4>1
    <3>2. CASE x # m
      <4>1. x \in Mail \cap Request
        BY <1>6, <3>2
      <4>2. x.from \in Client \ {c}
        BY <1>11, <4>1, MessageKinds DEF Message
      <4>3. client'[x.from] = client[x.from]
        BY <1>3, <1>4, <4>2 DEF ClockTypes
      <4> QED BY <1>4, <4>1, <4>3 DEF RequestsFit
    <3> QED BY <3>1, <3>2
  <2> QED BY <2>1 DEF RequestsFit
<1> QED BY <1>8, <1>9, <1>10, <1>12, <1>13, <1>14 DEF ClockInv

LEMMA TimeAsked ==
  ASSUME ClockInv, ~failed, NEW c \in Client, NEW s \in {"time", "until"},
         client[c] = "run", inbox' = Append(inbox, TimeMessage(c)),
         client' = [client EXCEPT ![c] = s],
         UNCHANGED <<serverVars, notifier, reading, failed, owed>>,
         target' \in [Client -> Time], until' \in [Client -> Nat],
         \A x \in Client \ {c} : target'[x] = target[x] /\ until'[x] = until[x],
         s = "time" => until'[c] = 0,
         s = "until" => \E r \in -1 .. MAX_DELAY : Aims(c, absoluteTime, r)'
  PROVE  ClockInv'
<1> DEFINE m == TimeMessage(c)
<1>1. /\ m \in TimeMessages /\ m \in Message /\ m.from = c /\ m.type = "time"
      /\ m \in Request /\ m \notin DelayMessages
  <2>1. m \in TimeMessages /\ m \in Message /\ m.from = c /\ m.type = "time"
    BY TimeMessageIs
  <2> QED BY <2>1, MessageKinds
<1>2. /\ \A l \in Clock : m # TickMessage(l)
      /\ \A x \in Client : m = TimeMessage(x) => x = c
  <2>1. \A l \in Clock : TickMessage(l).type = "notify"
    BY TickMessageIs
  <2>2. \A x \in Client : TimeMessage(x).from = x
    BY TimeMessageIs
  <2> QED BY <1>1, <2>1, <2>2
<1>3. inbox' = Append(inbox, m)
  OBVIOUS
<1> HIDE DEF m
<1>4. ClockTypes /\ ClientsOnTime /\ ListsKept /\ TicksOnce /\ ClientsOnce /\ RequestsFit
  BY DEF ClockInv
<1>5. inbox \in Seq(Message)
  BY <1>4 DEF ClockTypes
<1>6. /\ inbox' \in Seq(Message) /\ Mail' = Mail \cup {m}
      /\ \A S : Count(inbox', S) = Count(inbox, S) + One(m \in S)
      /\ \A x : m # TimeMessage(x) /\ TickAhead(x)' => TickAhead(x)
  BY <1>1, <1>3, <1>5, MailPosted
<1>7. ClockTypes'
  <2>1. client' \in [Client -> {"run", "time", "until", "told", "sleep"}]
    BY <1>4 DEF ClockTypes
  <2> QED BY <1>4, <1>6, <2>1 DEF ClockTypes, serverVars
<1>8. /\ client'[c] = s /\ \A x \in Client \ {c} : client'[x] = client[x]
      /\ owed' = owed
  BY <1>4 DEF ClockTypes
<1>9. ListsKept'
  BY <1>4 DEF ListsKept, serverVars
<1>10. TicksOnce'
  <2>1. ASSUME NEW l \in Clock
        PROVE  Count(inbox', {TickMessage(l)}) = Count(inbox, {TickMessage(l)})
    <3>1. One(m \in {TickMessage(l)}) = 0
      BY <1>2 DEF One
    <3>2. Count(inbox, {TickMessage(l)}) \in Nat
      BY <1>5, MailFacts
    <3> QED BY <1>6, <3>1, <3>2
  <2> QED BY <1>4, <2>1 DEF TicksOnce
<1>11. (\A x \in Mail \cap Request : x.from # c) /\ Asked(c) = 0 /\ ~Sleeps(c)
  BY AskedFacts
<1>12. ClientsOnTime'
  <2>1. \A x \in Client \ {c} : owed'[x] = owed[x] /\ until'[x] = until[x]
    BY <1>8
  <2>2. /\ \A x \in Mail \cap DelayMessages : OnTime(x.from, x.clock, x.ticks)'
        /\ \A l \in Clock : \A x \in Sleepers(queue[l]) : OnTime(x, l, Left(queue[l])[x])'
    BY <2>1, OthersOnTime
  <2>3. ASSUME NEW x \in Client PROVE AwakeOnTime(x)'
    <3>1. AwakeOnTime(x)
      BY <1>4 DEF ClientsOnTime
    <3>2. CASE x = c
      <4>1. owed'[c] = 0
        BY <1>8, <3>1, <3>2 DEF AwakeOnTime
      <4>2. s = "until" => \E r \in -2 .. MAX_DELAY : Aims(c, absoluteTime, r)' /\ r > -2
        <5>1. \A r \in -1 .. MAX_DELAY : r \in -2 .. MAX_DELAY /\ r > -2
          BY ClockAssumption
        <5> QED BY <5>1
      <4> QED BY <1>8, <3>2, <4>1, <4>2 DEF AwakeOnTime
    <3>3. CASE x # c
      <4>1. client'[x] = client[x] /\ owed'[x] = owed[x] /\ target'[x] = target[x]
            /\ reading'[x] = reading[x] /\ until'[x] = until[x]
        BY <1>8, <3>3
      <4>2. TickAhead(x)' => TickAhead(x)
        BY <1>2, <1>6, <3>3
      <4> QED BY <3>1, <4>1, <4>2 DEF AwakeOnTime, Aims, serverVars
    <3> QED BY <3>2, <3>3
  <2>4. \A x \in Mail' \cap DelayMessages : OnTime(x.from, x.clock, x.ticks)'
    BY <1>1, <1>6, <2>2
  <2>5. \A l \in Clock : \A x \in Sleepers(queue'[l]) : OnTime(x, l, Left(queue[l])[x])'
    BY <2>2 DEF serverVars
  <2> QED BY <2>3, <2>4, <2>5 DEF ClientsOnTime
<1>13. ClientsOnce'
  <2>1. \A x : Sleeps(x)' <=> Sleeps(x)
    BY DEF Sleeps, serverVars
  <2>2. ASSUME NEW x \in Client
        PROVE  /\ Asked(x)' = Asked(x) + One(x = c)
               /\ Asked(x) \in Nat
    <3>1. m \in From(x) <=> x = c
      BY <1>1 DEF From
    <3>2. Asked(x)' = Asked(x) + One(m \in From(x))
      BY <1>6 DEF Asked
    <3> QED BY <3>1, <3>2, AskedFacts DEF One
  <2>3. ASSUME NEW x \in Client
        PROVE  /\ Asked(x)' = One(client'[x] \in {"time", "until"}
                                    \/ (client'[x] = "sleep" /\ ~Sleeps(x)'))
               /\ Sleeps(x)' => client'[x] = "sleep"
    <3>1. CASE x = c
      BY <1>8, <1>11, <2>1, <2>2, <3>1 DEF One
    <3>2. CASE x # c
      <4>1. client'[x] = client[x]
        BY <1>8, <3>2
      <4>2. Asked(x)' = Asked(x)
        BY <2>2, <3>2 DEF One
      <4> QED BY <1>4, <2>1, <4>1, <4>2 DEF ClientsOnce
    <3> QED BY <3>1, <3>2
  <2>4. \A x \in Client : \A l, n \in Clock :
          x \in Sleepers(queue'[l]) /\ x \in Sleepers(queue'[n]) => l = n
    BY <1>4 DEF ClientsOnce, serverVars
  <2> QED BY <2>3, <2>4 DEF ClientsOnce
<1>14. RequestsFit'
  <2>1. ASSUME NEW x \in Mail' \cap Request
        PROVE  x.type = "delay" <=> client'[x.from] = "sleep"
    <3>1. CASE x = m
      BY <1>1, <1>8, <3>1
    <3>2. CASE x # m
      <4>1. x \in Mail \cap Request
        BY <1>6, <3>2
      <4>2. x.from \in Client \ {c}
        BY <1>11, <4>1, MessageKinds DEF Message
      <4>3. client'[x.from] = client[x.from]
        BY <1>8, <4>2
      <4> QED BY <1>4, <4>1, <4>3 DEF RequestsFit
    <3> QED BY <3>1, <3>2
  <2> QED BY <2>1 DEF RequestsFit
<1> QED BY <1>7, <1>9, <1>10, <1>12, <1>13, <1>14 DEF ClockInv

\* The steps of a client.
LEMMA ClientSteps ==
  ASSUME ClockInv, NEW c \in Client,
         \/ \E k \in Clock, d \in Delay : DelayBy(c, k, d)
         \/ ClockTime(c)
         \/ \E x \in Ahead : DelayUntil(c, x)
         \/ DelayTheRest(c)
  PROVE  ClockInv'
<1>1. ClockTypes /\ AwakeOnTime(c)
  BY DEF ClockInv, ClientsOnTime
<1>2. ASSUME NEW k \in Clock, NEW d \in Delay, DelayBy(c, k, d) PROVE ClockInv'
  <2>1. /\ ~failed /\ client[c] = "run" /\ AsksDelay(c, k, d)
        /\ UNCHANGED <<serverVars, notifier, failed, until>> /\ UNCHANGED <<target, reading>>
    BY <1>2 DEF DelayBy
  <2>2. until[c] <= IF k = "tick" THEN d ELSE 0
    BY <1>1, <2>1 DEF AwakeOnTime, Delay
  <2>3. target' \in [Client -> Time] /\ reading' \in [Client -> Time]
    BY <1>1, <2>1 DEF ClockTypes
  <2> QED BY <2>1, <2>2, <2>3, DelayAsked
<1>3. ASSUME ClockTime(c) PROVE ClockInv'
  <2>1. /\ ~failed /\ client[c] = "run" /\ inbox' = Append(inbox, TimeMessage(c))
        /\ client' = [client EXCEPT ![c] = "time"]
        /\ UNCHANGED <<serverVars, notifier, reading, failed, owed>>
        /\ UNCHANGED <<target, until>>
    BY <1>3 DEF ClockTime, Posts
  <2>2. target' \in [Client -> Time] /\ until' \in [Client -> Nat] /\ until'[c] = 0
    BY <1>1, <2>1 DEF ClockTypes, AwakeOnTime
  <2> QED BY <2>1, <2>2, TimeAsked
<1>4. ASSUME NEW x \in Ahead, DelayUntil(c, x) PROVE ClockInv'
  <2>1. /\ ~failed /\ client[c] = "run" /\ inbox' = Append(inbox, TimeMessage(c))
        /\ client' = [client EXCEPT ![c] = "until"]
        /\ UNCHANGED <<serverVars, notifier, reading, failed, owed>>
        /\ target' = [target EXCEPT ![c] = (absoluteTime + x) % TIME_COUNT]
        /\ until' = [until EXCEPT ![c] = IF x > 0 THEN x ELSE 0]
    BY <1>4 DEF DelayUntil, Posts
  <2>2. x \in -1 .. MAX_DELAY /\ MAX_DELAY \in Nat
    BY ClockAssumption
  <2>3. (absoluteTime + x) % TIME_COUNT \in Time
    <3>1. x \in -2 .. MAX_DELAY
      BY <2>2
    <3> QED BY <1>1, <3>1, SignedDistance DEF ClockTypes
  <2>4. /\ target' \in [Client -> Time] /\ until' \in [Client -> Nat]
        /\ target'[c] = (absoluteTime + x) % TIME_COUNT
        /\ until'[c] = IF x > 0 THEN x ELSE 0
        /\ \A y \in Client \ {c} : target'[y] = target[y] /\ until'[y] = until[y]
    BY <1>1, <2>1, <2>2, <2>3 DEF ClockTypes
  <2>5. \E r \in -1 .. MAX_DELAY : Aims(c, absoluteTime, r)'
    <3>1. absoluteTime' = absoluteTime
      BY <2>1 DEF serverVars
    <3>2. until'[c] = 0 \/ until'[c] <= x
      BY <2>2, <2>4
    <3>3. Aims(c, absoluteTime, x)'
      BY <2>4, <3>1, <3>2 DEF Aims
    <3> QED BY <2>2, <3>3
  <2> QED BY <2>1, <2>4, <2>5, TimeAsked
<1>5. ASSUME DelayTheRest(c) PROVE ClockInv'
  <2> DEFINE d == Signed(target[c] - reading[c])
  <2>1. /\ ~failed /\ client[c] = "told"
        /\ \/ d > 0 /\ AsksDelay(c, "tick", d)
           \/ /\ d <= 0 /\ client' = [client EXCEPT ![c] = "run"]
              /\ UNCHANGED <<inbox, owed>>
        /\ target' = [target EXCEPT ![c] = 0] /\ reading' = [reading EXCEPT ![c] = 0]
        /\ UNCHANGED <<serverVars, notifier, failed, until>>
    BY <1>5 DEF DelayTheRest
  <2>2. PICK r \in -2 .. MAX_DELAY : Aims(c, reading[c], r)
    BY <1>1, <2>1 DEF AwakeOnTime
  <2>3. d = r
    BY <1>1, <2>2, SignedDistance DEF ClockTypes, Aims
  <2> HIDE DEF d
  <2>4. 0 \in Time /\ "tick" \in Clock /\ MAX_DELAY \in Nat
    BY ClockAssumption DEF Time
  <2>5. /\ target' \in [Client -> Time] /\ reading' \in [Client -> Time]
        /\ \A x \in Client \ {c} : target'[x] = target[x] /\ reading'[x] = reading[x]
    BY <1>1, <2>1, <2>4 DEF ClockTypes
  <2>6. CASE d > 0 /\ AsksDelay(c, "tick", d)
    <3>1. d \in Delay
      BY <2>2, <2>3, <2>4, <2>6 DEF Delay
    <3>2. until[c] <= d
      BY <1>1, <2>2, <2>3, <2>6 DEF Aims, ClockTypes
    <3> QED BY <2>1, <2>4, <2>5, <2>6, <3>1, <3>2, DelayAsked
  <2>7. CASE d <= 0 /\ client' = [client EXCEPT ![c] = "run"] /\ UNCHANGED <<inbox, owed>>
    <3>1. until[c] = 0
      BY <1>1, <2>2, <2>3, <2>7 DEF Aims, ClockTypes
    <3>2. ListsKept /\ TicksOnce /\ ClientsOnTime /\ ClientsOnce /\ RequestsFit
      BY <2>1 DEF ClockInv
    <3>3. /\ client'[c] = "run" /\ \A x \in Client \ {c} : client'[x] = client[x]
          /\ client' \in [Client -> {"run", "time", "until", "told", "sleep"}]
      BY <1>1, <2>7 DEF ClockTypes
    <3>4. ClockTypes'
      BY <1>1, <2>1, <2>5, <2>7, <3>3 DEF ClockTypes, serverVars
    <3>5. ListsKept' /\ TicksOnce'
      BY <2>1, <2>7, <3>2 DEF ListsKept, TicksOnce, serverVars
    <3>6. Mail' = Mail /\ \A x : (TickAhead(x)' <=> TickAhead(x)) /\ Asked(x)' = Asked(x)
      BY <2>7 DEF Mail, TickAhead, Asked
    <3>7. ClientsOnTime'
      <4>1. ASSUME NEW x \in Client PROVE AwakeOnTime(x)'
        <5>1. AwakeOnTime(x)
          BY <3>2 DEF ClientsOnTime
        <5>2. owed' = owed /\ until' = until /\ absoluteTime' = absoluteTime
          BY <2>1, <2>7 DEF serverVars
        <5>3. CASE x = c
          BY <2>1, <3>1, <3>3, <5>1, <5>2, <5>3 DEF AwakeOnTime
        <5>4. CASE x # c
          BY <2>5, <3>3, <3>6, <5>1, <5>2, <5>4 DEF AwakeOnTime, Aims
        <5> QED BY <5>3, <5>4
      <4>2. \A x \in Mail' \cap DelayMessages : OnTime(x.from, x.clock, x.ticks)'
        BY <2>1, <2>7, <3>2, <3>6 DEF ClientsOnTime, OnTime, serverVars
      <4>3. \A l \in Clock : \A x \in Sleepers(queue'[l]) : OnTime(x, l, Left(queue[l])[x])'
        BY <2>1, <2>7, <3>2 DEF ClientsOnTime, OnTime, serverVars
      <4> QED BY <4>1, <4>2, <4>3 DEF ClientsOnTime
    <3>8. ClientsOnce'
      <4>1. \A x : Sleeps(x)' <=> Sleeps(x)
        BY <2>1 DEF Sleeps, serverVars
      <4>2. ASSUME NEW x \in Client
            PROVE  /\ Asked(x)' = One(client'[x] \in {"time", "until"}
                                        \/ (client'[x] = "sleep" /\ ~Sleeps(x)'))
                   /\ Sleeps(x)' => client'[x] = "sleep"
        <5>1. CASE x = c
          <6>1. Asked(c) = 0 /\ ~Sleeps(c)
            BY <2>1, AskedFacts
          <6> QED BY <3>3, <3>6, <4>1, <5>1, <6>1 DEF One
        <5>2. CASE x # c
          BY <3>2, <3>3, <3>6, <4>1, <5>2 DEF ClientsOnce
        <5> QED BY <5>1, <5>2
      <4>3. \A x \in Client : \A l, n \in Clock :
              x \in Sleepers(queue'[l]) /\ x \in Sleepers(queue'[n]) => l = n
        BY <2>1, <3>2 DEF ClientsOnce, serverVars
      <4> QED BY <4>2, <4>3 DEF ClientsOnce
    <3>9. RequestsFit'
      <4>1. ASSUME NEW x \in Mail \cap Request
            PROVE  x.type = "delay" <=> client'[x.from] = "sleep"
        <5>1. x.from \in Client \ {c}
          BY <2>1, <4>1, AskedFacts, MessageKinds DEF Message
        <5> QED BY <3>2, <3>3, <4>1, <5>1 DEF RequestsFit
      <4> QED BY <3>6, <4>1 DEF RequestsFit
    <3> QED BY <3>4, <3>5, <3>7, <3>8, <3>9 DEF ClockInv
  <2> QED BY <2>1, <2>6, <2>7
<1> QED BY <1>2, <1>3, <1>4, <1>5

\* The steps of a timer and of a notifier.  An interrupt for whom it wakes the notifier
\* is one that its sleepers are no longer owed.
LEMMA TimerKeeps ==
  ASSUME ClockInv, NEW k \in Clock, TimerInterrupt(k)
  PROVE  ClockInv'
<1>1. /\ ~failed /\ notifier' = [notifier EXCEPT ![k] = IF @ = "await" THEN "woken" ELSE @]
      /\ owed' = [c \in Client |-> IF Sleeping(c, k) THEN Less(owed[c]) ELSE owed[c]]
      /\ UNCHANGED <<serverVars, inbox, clientVars, failed, until>>
  BY DEF TimerInterrupt
<1>2. ClockTypes /\ ListsKept /\ TicksOnce /\ ClientsOnTime /\ ClientsOnce /\ RequestsFit
  BY <1>1 DEF ClockInv
<1>3. /\ owed' \in [Client -> Nat]
      /\ \A c \in Client : /\ owed[c] \in Nat /\ owed'[c] \in Nat /\ owed'[c] <= owed[c]
                           /\ Sleeping(c, k) => owed'[c] = Less(owed[c])
  BY <1>1, <1>2 DEF ClockTypes, Less
<1>4. notifier' \in [Clock -> {"start", "await", "woken", "sent"}]
  BY <1>1, <1>2 DEF ClockTypes
<1>5. /\ \A l \in Clock \ {k} : notifier'[l] = notifier[l]
      /\ \A l \in Clock : notifier'[l] = "sent" <=> notifier[l] = "sent"
  BY <1>1, <1>2 DEF ClockTypes
<1>6. /\ queue' = queue /\ free' = free /\ absoluteTime' = absoluteTime /\ inbox' = inbox
      /\ client' = client /\ target' = target /\ reading' = reading /\ until' = until
      /\ failed' = failed
  BY <1>1 DEF serverVars, clientVars
<1>7. ClockTypes'
  BY <1>2, <1>3, <1>4, <1>6 DEF ClockTypes
<1>8. ListsKept' /\ TicksOnce'
  BY <1>2, <1>5, <1>6 DEF ListsKept, TicksOnce
<1>9. ASSUME NEW c \in Client, NEW l \in Clock, NEW n \in Nat \ {0}, OnTime(c, l, n), Sleeping(c, l)
      PROVE  OnTime(c, l, n)'
  <2>1. owed'[c] <= n
    BY <1>3, <1>9 DEF OnTime
  <2>2. until'[c] <= IF l = "tick" THEN n ELSE 0
    BY <1>6, <1>9 DEF OnTime
  <2>3. notifier'[l] \in {"woken", "sent"} => owed'[c] <= n - 1
    <3>1. CASE l = k
      <4>1. owed'[c] = Less(owed[c]) /\ owed[c] <= n
        BY <1>3, <1>9, <3>1 DEF OnTime
      <4> QED BY <1>3, <1>9, <4>1 DEF Less
    <3>2. CASE l # k
      BY <1>3, <1>5, <1>9, <3>2 DEF OnTime
    <3> QED BY <3>1, <3>2
  <2> QED BY <2>1, <2>2, <2>3 DEF OnTime
<1>10. ASSUME NEW m \in Mail \cap DelayMessages
       PROVE  OnTime(m.from, m.clock, m.ticks)'
  <2>1. m.from \in Client /\ m.clock \in Clock /\ m.ticks \in Nat \ {0} /\ m.type = "delay"
    BY <1>10 DEF DelayMessages, Delay
  <2>2. Sleeping(m.from, m.clock)
    BY <1>10, <2>1 DEF Sleeping, Mail
  <2>3. OnTime(m.from, m.clock, m.ticks)
    BY <1>2, <1>10 DEF ClientsOnTime
  <2> QED BY <1>9, <2>1, <2>2, <2>3
<1>11. ASSUME NEW l \in Clock, NEW c \in Sleepers(queue[l])
       PROVE  OnTime(c, l, Left(queue[l])[c])'
  <2>1. c \in Client /\ Left(queue[l])[c] \in Nat \ {0}
    BY <1>2, LeftType DEF ListsKept, Delay
  <2>2. Sleeping(c, l)
    BY DEF Sleeping
  <2>3. PICK n \in Nat \ {0} : n = Left(queue[l])[c]
    BY <2>1
  <2>4. OnTime(c, l, n)
    BY <1>2, <2>3 DEF ClientsOnTime
  <2>5. OnTime(c, l, n)'
    BY <1>9, <2>1, <2>2, <2>4
  <2> QED BY <1>6, <2>3, <2>5
<1>12. Mail' = Mail /\ \A x : (TickAhead(x)' <=> TickAhead(x)) /\ Asked(x)' = Asked(x)
  BY <1>6 DEF Mail, TickAhead, Asked
<1>13. ASSUME NEW c \in Client PROVE AwakeOnTime(c)'
  <2>1. AwakeOnTime(c)
    BY <1>2 DEF ClientsOnTime
  <2>2. owed[c] = 0 => owed'[c] = 0
    BY <1>3
  <2> QED BY <1>6, <1>12, <2>1, <2>2 DEF AwakeOnTime, Aims
<1>14. ClientsOnTime'
  BY <1>6, <1>10, <1>11, <1>12, <1>13 DEF ClientsOnTime
<1>15. ClientsOnce' /\ RequestsFit'
  <2>1. \A x : Sleeps(x)' <=> Sleeps(x)
    BY <1>6 DEF Sleeps
  <2>2. ClientsOnce'
    BY <1>2, <1>6, <1>12, <2>1 DEF ClientsOnce
  <2> QED BY <1>2, <1>6, <1>12, <2>2 DEF RequestsFit
<1> QED BY <1>7, <1>8, <1>14, <1>15 DEF ClockInv

\* Where a notifier is tells nobody more than he knew.
LEMMA StillOnTime ==
  ASSUME ClientsOnTime, NEW k \in Clock,
         notifier \in [Clock -> {"start", "await", "woken", "sent"}],
         NEW s, notifier' = [notifier EXCEPT ![k] = s],
         s \in {"woken", "sent"} => notifier[k] \in {"woken", "sent"},
         queue' = queue, owed' = owed, until' = until
  PROVE  /\ \A m \in Mail \cap DelayMessages : OnTime(m.from, m.clock, m.ticks)'
         /\ \A l \in Clock : \A c \in Sleepers(queue'[l]) : OnTime(c, l, Left(queue[l])[c])'
<1>1. ASSUME NEW c, NEW l \in Clock, NEW n, OnTime(c, l, n) PROVE OnTime(c, l, n)'
  <2>1. notifier'[l] \in {"woken", "sent"} => notifier[l] \in {"woken", "sent"}
    OBVIOUS
  <2> QED BY <1>1, <2>1 DEF OnTime
<1>2. \A m \in DelayMessages : m.clock \in Clock
  BY DEF DelayMessages
<1>3. \A m \in Mail \cap DelayMessages : OnTime(m.from, m.clock, m.ticks)'
  <2>1. ASSUME NEW m \in Mail \cap DelayMessages
        PROVE  OnTime(m.from, m.clock, m.ticks)'
    <3>1. OnTime(m.from, m.clock, m.ticks) /\ m.clock \in Clock
      BY <1>2, <2>1 DEF ClientsOnTime
    <3>2. PICK l \in Clock : l = m.clock
      BY <3>1
    <3>3. PICK c : c = m.from
      OBVIOUS
    <3>4. PICK n : n = m.ticks
      OBVIOUS
    <3>5. OnTime(c, l, n)
      BY <3>1, <3>2, <3>3, <3>4
    <3>6. OnTime(c, l, n)'
      BY <1>1, <3>5
    <3> QED BY <3>2, <3>3, <3>4, <3>6
  <2> QED BY <2>1
<1>4. ASSUME NEW l \in Clock, NEW c \in Sleepers(queue[l])
      PROVE  OnTime(c, l, Left(queue[l])[c])'
  <2>1. PICK n : n = Left(queue[l])[c]
    OBVIOUS
  <2>2. OnTime(c, l, n)
    BY <2>1 DEF ClientsOnTime
  <2>3. OnTime(c, l, n)'
    BY <1>1, <2>2
  <2> QED BY <2>1, <2>3
<1> QED BY <1>3, <1>4

LEMMA AwaitKeeps ==
  ASSUME ClockInv, NEW k \in Clock, NotifierAwait(k)
  PROVE  ClockInv'
<1>1. /\ ~failed /\ notifier[k] = "start" /\ notifier' = [notifier EXCEPT ![k] = "await"]
      /\ UNCHANGED <<serverVars, inbox, clientVars, failed, owed, until>>
  BY DEF NotifierAwait
<1>2. ClockTypes /\ ListsKept /\ TicksOnce /\ ClientsOnTime /\ ClientsOnce /\ RequestsFit
  BY <1>1 DEF ClockInv
<1>3. /\ queue' = queue /\ free' = free /\ absoluteTime' = absoluteTime /\ inbox' = inbox
      /\ client' = client /\ target' = target /\ reading' = reading /\ until' = until
      /\ failed' = failed /\ owed' = owed
  BY <1>1 DEF serverVars, clientVars
<1>4. /\ notifier' \in [Clock -> {"start", "await", "woken", "sent"}]
      /\ \A l \in Clock : notifier'[l] = "sent" <=> notifier[l] = "sent"
  BY <1>1, <1>2 DEF ClockTypes
<1>5. ClockTypes'
  BY <1>2, <1>3, <1>4 DEF ClockTypes
<1>6. ListsKept' /\ TicksOnce'
  BY <1>2, <1>3, <1>4 DEF ListsKept, TicksOnce
<1>7. Mail' = Mail /\ \A x : (TickAhead(x)' <=> TickAhead(x)) /\ Asked(x)' = Asked(x)
  BY <1>3 DEF Mail, TickAhead, Asked
<1>8. ClientsOnTime'
  <2>1. /\ \A m \in Mail \cap DelayMessages : OnTime(m.from, m.clock, m.ticks)'
        /\ \A l \in Clock : \A c \in Sleepers(queue'[l]) : OnTime(c, l, Left(queue[l])[c])'
    BY <1>1, <1>2, <1>3, StillOnTime DEF ClockTypes
  <2>2. ASSUME NEW c \in Client PROVE AwakeOnTime(c)'
    BY <1>2, <1>3, <1>7 DEF ClientsOnTime, AwakeOnTime, Aims
  <2> QED BY <1>7, <2>1, <2>2 DEF ClientsOnTime
<1>9. ClientsOnce' /\ RequestsFit'
  <2>1. \A x : Sleeps(x)' <=> Sleeps(x)
    BY <1>3 DEF Sleeps
  <2>2. ClientsOnce'
    BY <1>2, <1>3, <1>7, <2>1 DEF ClientsOnce
  <2> QED BY <1>2, <1>3, <1>7, <2>2 DEF RequestsFit
<1> QED BY <1>5, <1>6, <1>8, <1>9 DEF ClockInv

LEMMA SendKeeps ==
  ASSUME ClockInv, NEW k \in Clock, NotifierSend(k)
  PROVE  ClockInv'
<1> DEFINE m == TickMessage(k)
<1>1. /\ ~failed /\ notifier[k] = "woken" /\ notifier' = [notifier EXCEPT ![k] = "sent"]
      /\ UNCHANGED <<serverVars, clientVars, failed, owed, until>> /\ inbox' = Append(inbox, m)
  BY DEF NotifierSend, Posts
<1>2. ClockTypes /\ ListsKept /\ TicksOnce /\ ClientsOnTime /\ ClientsOnce /\ RequestsFit
  BY <1>1 DEF ClockInv
<1>3. /\ queue' = queue /\ free' = free /\ absoluteTime' = absoluteTime
      /\ client' = client /\ target' = target /\ reading' = reading /\ until' = until
      /\ failed' = failed /\ owed' = owed
  BY <1>1 DEF serverVars, clientVars
<1>4. /\ m \in Message /\ m.type = "notify" /\ m.clock = k
      /\ m \notin Request /\ m \notin DelayMessages
  <2>1. m \in Message /\ m.type = "notify" /\ m.clock = k
    BY TickMessageIs
  <2> QED BY <2>1, MessageKinds
<1>5. /\ \A l \in Clock : m \in {TickMessage(l)} <=> l = k
      /\ \A x \in Client : m # TimeMessage(x)
  <2>1. \A l \in Clock : TickMessage(l).clock = l
    BY TickMessageIs
  <2>2. \A x \in Client : TimeMessage(x).type = "time"
    BY TimeMessageIs
  <2>3. m = TickMessage(k)
    OBVIOUS
  <2> HIDE DEF m
  <2> QED BY <1>4, <2>1, <2>2, <2>3
<1> HIDE DEF m
<1>6. /\ inbox' \in Seq(Message) /\ Mail' = Mail \cup {m}
      /\ \A S : Count(inbox', S) = Count(inbox, S) + One(m \in S)
      /\ \A x : m # TimeMessage(x) /\ TickAhead(x)' => TickAhead(x)
  BY <1>1, <1>2, <1>4, MailPosted DEF ClockTypes
<1>7. /\ notifier' \in [Clock -> {"start", "await", "woken", "sent"}] /\ notifier'[k] = "sent"
      /\ \A l \in Clock \ {k} : notifier'[l] = notifier[l]
  BY <1>1, <1>2 DEF ClockTypes
<1>8. ClockTypes'
  BY <1>2, <1>3, <1>6, <1>7 DEF ClockTypes
<1>9. ListsKept'
  BY <1>2, <1>3 DEF ListsKept
<1>10. TicksOnce'
  <2>1. ASSUME NEW l \in Clock
        PROVE  Count(inbox', {TickMessage(l)}) = One(notifier'[l] = "sent")
    <3>1. /\ Count(inbox', {TickMessage(l)}) = Count(inbox, {TickMessage(l)}) + One(l = k)
          /\ Count(inbox, {TickMessage(l)}) = One(notifier[l] = "sent")
      BY <1>2, <1>5, <1>6 DEF TicksOnce, One
    <3>2. CASE l = k
      BY <1>1, <1>7, <3>1, <3>2 DEF One
    <3>3. CASE l # k
      BY <1>7, <3>1, <3>3 DEF One
    <3> QED BY <3>2, <3>3
  <2> QED BY <2>1 DEF TicksOnce
<1>11. ASSUME NEW x \in Client PROVE Asked(x)' = Asked(x)
  <2>1. m \notin From(x)
    BY <1>4 DEF From
  <2>2. Asked(x)' = Asked(x) + One(m \in From(x)) /\ Asked(x) \in Nat
    BY <1>1, <1>6, AskedFacts DEF Asked
  <2> QED BY <2>1, <2>2 DEF One
<1>12. ClientsOnTime'
  <2>1. /\ \A x \in Mail \cap DelayMessages : OnTime(x.from, x.clock, x.ticks)'
        /\ \A l \in Clock : \A c \in Sleepers(queue'[l]) : OnTime(c, l, Left(queue[l])[c])'
    BY <1>1, <1>2, <1>3, StillOnTime DEF ClockTypes
  <2>2. ASSUME NEW c \in Client PROVE AwakeOnTime(c)'
    <3>1. TickAhead(c)' => TickAhead(c)
      BY <1>5, <1>6
    <3> QED BY <1>2, <1>3, <3>1 DEF ClientsOnTime, AwakeOnTime, Aims
  <2>3. Mail' \cap DelayMessages = Mail \cap DelayMessages
    BY <1>4, <1>6
  <2> QED BY <2>1, <2>2, <2>3 DEF ClientsOnTime
<1>13. ClientsOnce' /\ RequestsFit'
  <2>1. \A x : Sleeps(x)' <=> Sleeps(x)
    BY <1>3 DEF Sleeps
  <2>2. ClientsOnce'
    BY <1>2, <1>3, <1>11, <2>1 DEF ClientsOnce
  <2>3. Mail' \cap Request = Mail \cap Request
    BY <1>4, <1>6
  <2> QED BY <1>2, <1>3, <2>2, <2>3 DEF RequestsFit
<1> QED BY <1>8, <1>9, <1>10, <1>12, <1>13 DEF ClockInv

\* What the server leaves behind when it takes a message m.
Takes(m) ==
  /\ inbox # <<>> /\ m = Head(inbox) /\ inbox' = Tail(inbox)
  /\ ~failed /\ owed' = owed

LEMMA TakenFacts ==
  ASSUME ClockInv, NEW m, Takes(m)
  PROVE  /\ m \in Message /\ m \in Mail /\ inbox' \in Seq(Message) /\ Mail = Mail' \cup {m}
         /\ \A S : Count(inbox', S) = Count(inbox, S) - One(m \in S)
         /\ \A c : TickAhead(c)' => TickAhead(c)
         /\ \A c : m = TickMessage("tick") /\ TimeMessage(c) \in Mail' => TickAhead(c)
         /\ \A k \in Clock : m = TickMessage(k)
                \/ Count(inbox', {TickMessage(k)}) = Count(inbox, {TickMessage(k)})
         /\ \A c \in Client :
              /\ Asked(c) \in Nat /\ Asked(c)' = Asked(c) - One(m \in Request /\ m.from = c)
              /\ Asked(c)' = 0 => \A x \in Mail' \cap Request : x.from # c
<1>1. inbox \in Seq(Message) /\ inbox # <<>> /\ m = Head(inbox) /\ inbox' = Tail(inbox)
  BY DEF ClockInv, ClockTypes, Takes
<1>2. /\ inbox' \in Seq(Message) /\ m \in Message /\ Mail = Mail' \cup {m}
      /\ \A S : Count(inbox', S) = Count(inbox, S) - One(m \in S)
      /\ \A c : TickAhead(c)' => TickAhead(c)
      /\ \A c : m = TickMessage("tick") /\ TimeMessage(c) \in Mail' => TickAhead(c)
  BY <1>1, MailTaken
<1>3. \A S : Count(inbox, S) \in Nat
  BY <1>1, MailFacts
<1>4. ASSUME NEW k \in Clock, m # TickMessage(k)
      PROVE  Count(inbox', {TickMessage(k)}) = Count(inbox, {TickMessage(k)})
  <2>1. One(m \in {TickMessage(k)}) = 0
    BY <1>4 DEF One
  <2> QED BY <1>2, <1>3, <2>1
<1>5. ASSUME NEW c \in Client
      PROVE  Asked(c) \in Nat /\ Asked(c)' = Asked(c) - One(m \in Request /\ m.from = c)
  <2>1. m \in From(c) <=> m \in Request /\ m.from = c
    BY DEF From
  <2> QED BY <1>2, <1>3, <2>1 DEF Asked, One
<1>6. ASSUME NEW c \in Client, Asked(c)' = 0
      PROVE  \A x \in Mail' \cap Request : x.from # c
  <2>1. Mail' \cap From(c) = {}
    <3>1. Count(inbox', From(c)) = 0
      BY <1>6 DEF Asked
    <3>2. \A i \in 1 .. Len(inbox') : inbox'[i] \notin From(c)
      BY <1>2, <3>1, CountZero
    <3> QED BY <3>2 DEF Mail
  <2> QED BY <2>1 DEF From
<1> QED BY <1>2, <1>4, <1>5, <1>6

LEMMA TakenOnTime ==
  ASSUME ClockInv, NEW m, Takes(m), notifier' = notifier, until' = until
  PROVE  \A x \in Mail' \cap DelayMessages : OnTime(x.from, x.clock, x.ticks)'
<1>1. ClientsOnTime /\ owed' = owed
  BY DEF ClockInv, Takes
<1>2. Mail = Mail' \cup {m}
  BY TakenFacts
<1> QED BY <1>1, <1>2 DEF ClientsOnTime, OnTime

LEMMA DelayServed ==
  ASSUME ClockInv, NEW m, Takes(m), ServeDelay(m)
  PROVE  ClockInv'
<1> DEFINE c == m.from
           k == m.clock
           d == m.ticks
<1>1. ClockTypes /\ ListsKept /\ TicksOnce /\ ClientsOnTime /\ ClientsOnce /\ RequestsFit
  BY DEF ClockInv, Takes
<1>2. /\ m \in Message /\ m \in Mail /\ inbox' \in Seq(Message) /\ Mail = Mail' \cup {m}
      /\ \A x : TickAhead(x)' => TickAhead(x)
      /\ \A l \in Clock : m = TickMessage(l)
             \/ Count(inbox', {TickMessage(l)}) = Count(inbox, {TickMessage(l)})
      /\ \A x \in Client :
           Asked(x) \in Nat /\ Asked(x)' = Asked(x) - One(m \in Request /\ m.from = x)
  BY TakenFacts
<1>3. /\ m.type = "delay" /\ m \in DelayMessages /\ m \in Request
      /\ c \in Client /\ k \in Clock /\ d \in Delay
  BY <1>2, MessageKinds DEF ServeDelay
<1>4. /\ owed' = owed /\ absoluteTime' = absoluteTime /\ notifier' = notifier /\ until' = until
      /\ client' = client /\ target' = target /\ reading' = reading
  BY DEF Takes, ServeDelay, clientVars
<1>5. client[c] = "sleep" /\ Asked(c) = 1 /\ Asked(c)' = 0 /\ ~Sleeps(c)
  <2>1. client[c] = "sleep"
    BY <1>1, <1>2, <1>3 DEF RequestsFit
  <2>2. Asked(c) # 0 /\ ~failed
    BY <1>2, <1>3, AskedFacts DEF Takes
  <2>3. Asked(c) = 1 /\ ~Sleeps(c)
    BY <1>3, <2>2, AskedFacts
  <2> QED BY <1>2, <1>3, <2>1, <2>3 DEF One
<1>6. TicksOnce'
  <2>1. \A l \in Clock : m # TickMessage(l)
    BY <1>3, TickMessageIs
  <2> QED BY <1>1, <1>2, <1>4, <2>1 DEF TicksOnce
<1>7. \A x \in Client : AwakeOnTime(x)'
  BY <1>1, <1>2, <1>4 DEF ClientsOnTime, AwakeOnTime, Aims
<1>8. \A x \in Mail' \cap DelayMessages : OnTime(x.from, x.clock, x.ticks)'
  BY <1>4, TakenOnTime
<1>9. CASE failed' = TRUE /\ UNCHANGED <<queue, free>>
  <2>1. ClockTypes'
    BY <1>1, <1>2, <1>4, <1>9 DEF ClockTypes
  <2>2. ListsKept'
    BY <1>1, <1>9 DEF ListsKept
  <2>3. \A l \in Clock : \A x \in Sleepers(queue'[l]) : OnTime(x, l, Left(queue[l])[x])'
    BY <1>1, <1>4, <1>9 DEF ClientsOnTime, OnTime
  <2> QED BY <1>6, <1>7, <1>8, <1>9, <2>1, <2>2, <2>3 DEF ClockInv, ClientsOnTime
<1>10. CASE /\ free[k] > 0 /\ UNCHANGED failed
            /\ queue' = [queue EXCEPT ![k] = Inserted(@, c, d)]
            /\ free' = [free EXCEPT ![k] = @ - 1]
  <2>1. PICK q : q = queue[k] /\ DeltaList(q) /\ free[k] + Len(q) = NODE_COUNT /\ q \in Seq(Sleeper)
    BY <1>1, <1>3 DEF ListsKept, DeltaList
  <2>2. PICK r : r = Inserted(q, c, d)
    OBVIOUS
  <2>3. c \notin Sleepers(q)
    BY <1>3, <1>5, <2>1 DEF Sleeps
  <2>4. /\ DeltaList(r) /\ Len(r) = Len(q) + 1
        /\ Sleepers(r) = Sleepers(q) \cup {c} /\ Left(r)[c] = d
        /\ \A x \in Sleepers(q) : Left(r)[x] = Left(q)[x]
    BY <1>3, <2>1, <2>2, <2>3, InsertedList
  <2>5. /\ queue'[k] = r /\ \A l \in Clock \ {k} : queue'[l] = queue[l]
        /\ free'[k] = free[k] - 1 /\ \A l \in Clock \ {k} : free'[l] = free[l]
        /\ queue' \in [Clock -> Seq(Sleeper)] /\ free' \in [Clock -> Nat]
    <3>1. r \in Seq(Sleeper)
      BY <2>4 DEF DeltaList
    <3>2. queue' = [queue EXCEPT ![k] = r] /\ queue \in [Clock -> Seq(Sleeper)]
      BY <1>1, <1>10, <2>1, <2>2 DEF ClockTypes
    <3>3. free \in [Clock -> Nat] /\ free[k] > 0 /\ free' = [free EXCEPT ![k] = @ - 1]
      BY <1>1, <1>10 DEF ClockTypes
    <3>4. /\ queue'[k] = r /\ \A l \in Clock \ {k} : queue'[l] = queue[l]
          /\ queue' \in [Clock -> Seq(Sleeper)]
      BY <1>3, <3>1, <3>2
    <3>5. /\ free'[k] = free[k] - 1 /\ \A l \in Clock \ {k} : free'[l] = free[l]
          /\ free' \in [Clock -> Nat]
      BY <1>3, <3>3
    <3> QED BY <3>4, <3>5
  <2>6. ClockTypes'
    BY <1>1, <1>2, <1>4, <1>10, <2>5 DEF ClockTypes
  <2>7. ListsKept'
    <3>1. ASSUME NEW l \in Clock
          PROVE  DeltaList(queue'[l]) /\ free'[l] + Len(queue'[l]) = NODE_COUNT
      <4>1. CASE l = k
        <5>1. Len(q) \in Nat /\ free[k] \in Nat
          BY <1>1, <1>3, <2>1, LenProperties DEF ClockTypes
        <5>2. free'[k] = free[k] - 1 /\ Len(r) = Len(q) + 1 /\ free[k] + Len(q) = NODE_COUNT
          BY <2>1, <2>4, <2>5
        <5>3. free'[k] + Len(r) = NODE_COUNT
          BY <5>1, <5>2
        <5>4. queue'[l] = r /\ DeltaList(r)
          BY <2>4, <2>5, <4>1
        <5> QED BY <4>1, <5>3, <5>4
      <4>2. CASE l # k
        BY <1>1, <2>5, <4>2 DEF ListsKept
      <4> QED BY <4>1, <4>2
    <3> QED BY <3>1 DEF ListsKept
  <2>8. ASSUME NEW l \in Clock, NEW x \in Sleepers(queue'[l])
        PROVE  OnTime(x, l, Left(queue[l])[x])'
    <3>1. CASE l = k /\ x = c
      <4>1. OnTime(c, k, d)
        BY <1>1, <1>2, <1>3 DEF ClientsOnTime
      <4>2. Left(queue'[l])[x] = d
        BY <2>4, <2>5, <3>1
      <4> QED BY <1>4, <3>1, <4>1, <4>2 DEF OnTime
    <3>2. CASE l = k /\ x # c
      <4>1. x \in Sleepers(queue[k]) /\ Left(queue'[l])[x] = Left(queue[k])[x]
        BY <2>1, <2>4, <2>5, <2>8, <3>2
      <4>2. OnTime(x, k, Left(queue[k])[x])
        BY <1>1, <1>3, <4>1 DEF ClientsOnTime
      <4> QED BY <1>4, <3>2, <4>1, <4>2 DEF OnTime
    <3>3. CASE l # k
      <4>1. queue'[l] = queue[l]
        BY <2>5, <3>3
      <4>2. OnTime(x, l, Left(queue[l])[x])
        BY <1>1, <2>8, <4>1 DEF ClientsOnTime
      <4> QED BY <1>4, <4>1, <4>2 DEF OnTime
    <3> QED BY <3>1, <3>2, <3>3
  <2>9. ClientsOnTime'
    BY <1>7, <1>8, <2>8 DEF ClientsOnTime
  <2>10. \A l \in Clock : \A x :
           x \in Sleepers(queue'[l]) <=> x \in Sleepers(queue[l]) \/ (l = k /\ x = c)
    BY <2>1, <2>4, <2>5
  <2>11. ASSUME NEW x \in Client
         PROVE  /\ Asked(x)' = One(client'[x] \in {"time", "until"}
                                     \/ (client'[x] = "sleep" /\ ~Sleeps(x)'))
                /\ Sleeps(x)' => client'[x] = "sleep"
                /\ \A l, n \in Clock :
                     x \in Sleepers(queue'[l]) /\ x \in Sleepers(queue'[n]) => l = n
    <3>1. CASE x = c
      <4>1. Sleeps(x)'
        BY <1>3, <2>10, <3>1 DEF Sleeps
      <4>2. \A l \in Clock : x \in Sleepers(queue'[l]) => l = k
        BY <1>5, <2>10, <3>1 DEF Sleeps
      <4> QED BY <1>4, <1>5, <3>1, <4>1, <4>2 DEF One
    <3>2. CASE x # c
      <4>1. \A l \in Clock : x \in Sleepers(queue'[l]) <=> x \in Sleepers(queue[l])
        BY <2>10, <3>2
      <4>2. Sleeps(x)' <=> Sleeps(x)
        BY <4>1 DEF Sleeps
      <4>3. Asked(x)' = Asked(x)
        <5>1. One(m \in Request /\ m.from = x) = 0
          BY <3>2 DEF One
        <5> QED BY <1>2, <5>1
      <4> QED BY <1>1, <1>4, <4>1, <4>2, <4>3 DEF ClientsOnce
    <3> QED BY <3>1, <3>2
  <2>12. ClientsOnce'
    BY <2>11 DEF ClientsOnce
  <2>13. RequestsFit'
    BY <1>1, <1>2, <1>4 DEF RequestsFit
  <2> QED BY <1>6, <2>6, <2>7, <2>9, <2>12, <2>13 DEF ClockInv
<1> QED BY <1>9, <1>10 DEF ServeDelay

LEMMA TimeServed ==
  ASSUME ClockInv, NEW m, Takes(m), ServeTime(m)
  PROVE  ClockInv'
<1> DEFINE c == m.from
<1>1. ClockTypes /\ ListsKept /\ TicksOnce /\ ClientsOnTime /\ ClientsOnce /\ RequestsFit
  BY DEF ClockInv, Takes
<1>2. /\ m \in Message /\ m \in Mail /\ inbox' \in Seq(Message) /\ Mail = Mail' \cup {m}
      /\ \A x : TickAhead(x)' => TickAhead(x)
      /\ \A l \in Clock : m = TickMessage(l)
             \/ Count(inbox', {TickMessage(l)}) = Count(inbox, {TickMessage(l)})
      /\ \A x \in Client :
           /\ Asked(x) \in Nat /\ Asked(x)' = Asked(x) - One(m \in Request /\ m.from = x)
           /\ Asked(x)' = 0 => \A y \in Mail' \cap Request : y.from # x
  BY TakenFacts
<1>3. m.type = "time" /\ m \in TimeMessages /\ m \in Request /\ c \in Client
  BY <1>2, MessageKinds DEF ServeTime
<1>4. /\ owed' = owed /\ absoluteTime' = absoluteTime /\ notifier' = notifier /\ until' = until
      /\ target' = target /\ queue' = queue /\ free' = free /\ failed' = failed
  BY DEF Takes, ServeTime, serverVars
<1>5. Asked(c) = 1 /\ Asked(c)' = 0 /\ ~Sleeps(c)
  <2>1. Asked(c) # 0 /\ ~failed
    BY <1>2, <1>3, AskedFacts DEF Takes
  <2>2. Asked(c) = 1 /\ ~Sleeps(c)
    BY <1>3, <2>1, AskedFacts
  <2> QED BY <1>2, <1>3, <2>2 DEF One
<1>6. /\ client' \in [Client -> {"run", "time", "until", "told", "sleep"}]
      /\ reading' \in [Client -> Time]
      /\ \A x \in Client \ {c} : client'[x] = client[x] /\ reading'[x] = reading[x]
      /\ \/ client[c] = "time" /\ client'[c] = "run"
         \/ client[c] = "until" /\ client'[c] = "told" /\ reading'[c] = absoluteTime
  <2>1. CASE client[c] = "time" /\ client' = [client EXCEPT ![c] = "run"] /\ UNCHANGED reading
    BY <1>1, <1>3, <2>1 DEF ClockTypes
  <2>2. CASE /\ client[c] = "until" /\ client' = [client EXCEPT ![c] = "told"]
             /\ reading' = [reading EXCEPT ![c] = absoluteTime]
    BY <1>1, <1>3, <2>2 DEF ClockTypes
  <2> QED BY <2>1, <2>2 DEF ServeTime
<1>7. ClockTypes'
  BY <1>1, <1>2, <1>4, <1>6 DEF ClockTypes
<1>8. ListsKept'
  BY <1>1, <1>4 DEF ListsKept
<1>9. TicksOnce'
  <2>1. \A l \in Clock : m # TickMessage(l)
    BY <1>3, TickMessageIs
  <2> QED BY <1>1, <1>2, <1>4, <2>1 DEF TicksOnce
<1>10. ASSUME NEW x \in Client PROVE AwakeOnTime(x)'
  <2>1. AwakeOnTime(x)
    BY <1>1 DEF ClientsOnTime
  <2>2. CASE x # c
    BY <1>2, <1>4, <1>6, <2>1, <2>2 DEF AwakeOnTime, Aims
  <2>3. CASE x = c /\ client[c] = "time" /\ client'[c] = "run"
    BY <1>4, <2>1, <2>3 DEF AwakeOnTime
  <2>4. CASE x = c /\ client[c] = "until" /\ client'[c] = "told" /\ reading'[c] = absoluteTime
    <3>1. PICK r \in -2 .. MAX_DELAY : Aims(c, absoluteTime, r)
      BY <2>1, <2>4 DEF AwakeOnTime
    <3>2. Aims(c, reading[c], r)'
      BY <1>4, <2>4, <3>1 DEF Aims
    <3>3. owed'[c] = 0
      BY <1>4, <2>1, <2>4 DEF AwakeOnTime
    <3> QED BY <2>4, <3>2, <3>3 DEF AwakeOnTime
  <2> QED BY <1>6, <2>2, <2>3, <2>4
<1>11. ClientsOnTime'
  <2>1. \A x \in Mail' \cap DelayMessages : OnTime(x.from, x.clock, x.ticks)'
    BY <1>4, TakenOnTime
  <2>2. \A l \in Clock : \A x \in Sleepers(queue'[l]) : OnTime(x, l, Left(queue[l])[x])'
    BY <1>1, <1>4 DEF ClientsOnTime, OnTime
  <2> QED BY <1>10, <2>1, <2>2 DEF ClientsOnTime
<1>12. ClientsOnce'
  <2>1. \A x : Sleeps(x)' <=> Sleeps(x)
    BY <1>4 DEF Sleeps
  <2>2. ASSUME NEW x \in Client
        PROVE  /\ Asked(x)' = One(client'[x] \in {"time", "until"}
                                    \/ (client'[x] = "sleep" /\ ~Sleeps(x)'))
               /\ Sleeps(x)' => client'[x] = "sleep"
    <3>1. CASE x = c
      BY <1>5, <1>6, <2>1, <3>1 DEF One
    <3>2. CASE x # c
      <4>1. One(m \in Request /\ m.from = x) = 0
        BY <3>2 DEF One
      <4>2. Asked(x)' = Asked(x)
        BY <1>2, <4>1
      <4> QED BY <1>1, <1>6, <2>1, <3>2, <4>2 DEF ClientsOnce
    <3> QED BY <3>1, <3>2
  <2>3. \A x \in Client : \A l, n \in Clock :
          x \in Sleepers(queue'[l]) /\ x \in Sleepers(queue'[n]) => l = n
    BY <1>1, <1>4 DEF ClientsOnce
  <2> QED BY <2>2, <2>3 DEF ClientsOnce
<1>13. RequestsFit'
  <2>1. ASSUME NEW x \in Mail' \cap Request
        PROVE  x.type = "delay" <=> client'[x.from] = "sleep"
    <3>1. x \in Mail \cap Request
      BY <1>2
    <3>2. x.from \in Client \ {c}
      BY <1>2, <1>3, <1>5, <2>1, MessageKinds DEF Message
    <3> QED BY <1>1, <1>6, <3>1, <3>2 DEF RequestsFit
  <2> QED BY <2>1 DEF RequestsFit
<1> QED BY <1>7, <1>8, <1>9, <1>11, <1>12, <1>13 DEF ClockInv

LEMMA TickServed ==
  ASSUME ClockInv, NEW m, Takes(m), ServeTick(m)
  PROVE  ClockInv'
<1> DEFINE k == m.clock
<1>1. ClockTypes /\ ListsKept /\ TicksOnce /\ ClientsOnTime /\ ClientsOnce /\ RequestsFit /\ ~failed
  BY DEF ClockInv, Takes
<1>2. /\ m \in Message /\ m \in Mail /\ inbox' \in Seq(Message) /\ Mail = Mail' \cup {m}
      /\ \A S : Count(inbox', S) = Count(inbox, S) - One(m \in S)
      /\ \A x : TickAhead(x)' => TickAhead(x)
      /\ \A x : m = TickMessage("tick") /\ TimeMessage(x) \in Mail' => TickAhead(x)
      /\ \A l \in Clock : m = TickMessage(l)
             \/ Count(inbox', {TickMessage(l)}) = Count(inbox, {TickMessage(l)})
      /\ \A x \in Client :
           Asked(x) \in Nat /\ Asked(x)' = Asked(x) - One(m \in Request /\ m.from = x)
  BY TakenFacts
<1>3. /\ m.type = "notify" /\ k \in Clock /\ m = TickMessage(k)
      /\ m \notin Request /\ m \notin DelayMessages
  BY <1>2, MessageKinds DEF ServeTick
<1>4. PICK q : q = queue[k] /\ DeltaList(q) /\ free[k] + Len(q) = NODE_COUNT /\ q \in Seq(Sleeper)
  BY <1>1, <1>3 DEF ListsKept, DeltaList
<1>5. PICK a : a = Aged(q)
  OBVIOUS
<1>6. PICK n : n = Due(a)
  OBVIOUS
<1>7. PICK r : r = SubSeq(a, n + 1, Len(a))
  OBVIOUS
<1>8. PICK s : s = SubSeq(a, 1, n)
  OBVIOUS
<1>9. /\ notifier' = [notifier EXCEPT ![k] = "start"]
      /\ queue' = [queue EXCEPT ![k] = r]
      /\ free' = [free EXCEPT ![k] = @ + n]
      /\ client' = [x \in Client |-> IF x \in Sleepers(s) THEN "run" ELSE client[x]]
      /\ absoluteTime' = IF k = "tick" THEN (absoluteTime + 1) % TIME_COUNT ELSE absoluteTime
      /\ until' = [x \in Client |-> IF k = "tick" THEN Less(until[x]) ELSE until[x]]
      /\ target' = target /\ reading' = reading /\ failed' = failed /\ owed' = owed
  BY <1>4, <1>5, <1>6, <1>7, <1>8 DEF ServeTick, FreeAfter, Takes
<1>10. /\ DeltaList(r) /\ n \in Nat /\ Len(r) + n = Len(q)
       /\ Sleepers(r) = {x \in Sleepers(q) : Left(q)[x] > 1}
       /\ \A x \in Sleepers(r) : Left(r)[x] = Left(q)[x] - 1
       /\ Sleepers(s) = {x \in Sleepers(q) : Left(q)[x] = 1}
  BY <1>4, <1>5, <1>6, <1>7, <1>8, TickedList
<1>11. \A x \in Sleepers(q) : x \in Client /\ Left(q)[x] \in Nat \ {0} /\ Left(q)[x] \in Delay
  BY <1>4, LeftType DEF Delay
<1> HIDE DEF k
<1>12. /\ queue'[k] = r /\ (\A l \in Clock \ {k} : queue'[l] = queue[l])
       /\ queue' \in [Clock -> Seq(Sleeper)]
  <2>1. r \in Seq(Sleeper)
    BY <1>10 DEF DeltaList
  <2> QED BY <1>1, <1>3, <1>9, <2>1 DEF ClockTypes
<1>13. /\ free'[k] = free[k] + n /\ (\A l \in Clock \ {k} : free'[l] = free[l])
       /\ free' \in [Clock -> Nat] /\ free[k] \in Nat
  BY <1>1, <1>3, <1>9, <1>10 DEF ClockTypes
<1>14. /\ notifier'[k] = "start" /\ (\A l \in Clock \ {k} : notifier'[l] = notifier[l])
       /\ notifier' \in [Clock -> {"start", "await", "woken", "sent"}]
  BY <1>1, <1>3, <1>9 DEF ClockTypes
<1>15. /\ \A x \in Client : client'[x] = IF x \in Sleepers(s) THEN "run" ELSE client[x]
       /\ client' \in [Client -> {"run", "time", "until", "told", "sleep"}]
  BY <1>1, <1>9 DEF ClockTypes
<1>16. /\ until' \in [Client -> Nat]
       /\ \A x \in Client : /\ until[x] \in Nat /\ until'[x] \in Nat /\ until'[x] <= until[x]
                            /\ k = "tick" => until'[x] = Less(until[x])
                            /\ until[x] = 0 => until'[x] = 0
                            /\ k # "tick" => until'[x] = until[x]
  BY <1>1, <1>9 DEF ClockTypes, Less
<1>17. absoluteTime' \in Time
  <2>1. absoluteTime \in Time /\ 0 \in -2 .. MAX_DELAY
    BY <1>1, ClockAssumption DEF ClockTypes
  <2> QED BY <1>9, <2>1, OneNearer
<1>18. ClockTypes'
  BY <1>1, <1>2, <1>9, <1>12, <1>13, <1>14, <1>15, <1>16, <1>17 DEF ClockTypes
<1>19. ListsKept'
  <2>1. ASSUME NEW l \in Clock PROVE DeltaList(queue'[l]) /\ free'[l] + Len(queue'[l]) = NODE_COUNT
    <3>1. CASE l = k
      <4>1. DeltaList(queue'[l])
        BY <1>10, <1>12, <3>1
      <4>2. Len(r) \in Nat
        BY <1>10, LenProperties DEF DeltaList
      <4>3. /\ free'[k] = free[k] + n /\ Len(r) + n = Len(q)
            /\ free[k] + Len(q) = NODE_COUNT /\ n \in Nat
        BY <1>4, <1>10, <1>13
      <4>4. free'[k] + Len(r) = NODE_COUNT
        BY <1>13, <4>2, <4>3
      <4> QED BY <1>12, <3>1, <4>1, <4>4
    <3>2. CASE l # k
      BY <1>1, <1>12, <1>13, <3>2 DEF ListsKept
    <3> QED BY <3>1, <3>2
  <2> QED BY <2>1 DEF ListsKept
<1>20. /\ notifier[k] = "sent" /\ Count(inbox', {TickMessage(k)}) = 0
  <2>1. /\ Count(inbox, {TickMessage(k)}) = One(notifier[k] = "sent")
        /\ Count(inbox, {TickMessage(k)}) # 0
    <3>1. Mail \cap {TickMessage(k)} # {} /\ inbox \in Seq(Message)
      BY <1>1, <1>2, <1>3 DEF ClockTypes
    <3> QED BY <1>1, <1>3, <3>1, MailFacts DEF TicksOnce
  <2>2. notifier[k] = "sent"
    BY <2>1 DEF One
  <2>3. Count(inbox', {TickMessage(k)}) = Count(inbox, {TickMessage(k)}) - 1
    BY <1>2, <1>3 DEF One
  <2> QED BY <2>1, <2>2, <2>3 DEF One
<1>21. TicksOnce'
  <2>1. ASSUME NEW l \in Clock
        PROVE  Count(inbox', {TickMessage(l)}) = One(notifier'[l] = "sent")
    <3>1. CASE l = k
      BY <1>14, <1>20, <3>1 DEF One
    <3>2. CASE l # k
      <4>1. m # TickMessage(l)
        BY <1>3, <3>2, TickMessageIs
      <4> QED BY <1>1, <1>2, <1>14, <3>2, <4>1 DEF TicksOnce
    <3> QED BY <3>1, <3>2
  <2> QED BY <2>1 DEF TicksOnce
<1>22. ASSUME NEW x \in Client
       PROVE  /\ Asked(x)' = Asked(x)
              /\ Asked(x) # 0 => x \notin Sleepers(s) /\ client'[x] = client[x]
  <2>1. Asked(x)' = Asked(x)
    BY <1>2, <1>3 DEF One
  <2>2. ASSUME Asked(x) # 0 PROVE x \notin Sleepers(s)
    <3>1. ~Sleeps(x)
      BY <1>1, <2>2, AskedFacts
    <3> QED BY <1>3, <1>4, <1>10, <3>1 DEF Sleeps
  <2> QED BY <1>15, <2>1, <2>2
<1>23. ASSUME NEW x \in Mail' \cap Request
       PROVE  /\ x.from \in Client /\ Asked(x.from) = 1 /\ client'[x.from] = client[x.from]
              /\ x \in Mail \cap Request
  <2>1. x \in Mail \cap Request /\ x.from \in Client
    BY <1>2, <1>23, MessageKinds DEF Message
  <2>2. Asked(x.from) # 0
    BY <1>1, <2>1, AskedFacts
  <2>3. Asked(x.from) = 1
    BY <1>1, <2>1, <2>2, AskedFacts
  <2> QED BY <1>22, <2>1, <2>2, <2>3
<1>24. ASSUME NEW x \in Mail' \cap DelayMessages
       PROVE  OnTime(x.from, x.clock, x.ticks)'
  <2>1. OnTime(x.from, x.clock, x.ticks)
    BY <1>1, <1>2, <1>24 DEF ClientsOnTime
  <2>2. x.from \in Client /\ x.clock \in Clock /\ x.ticks \in Nat
    BY <1>24 DEF DelayMessages, Delay
  <2>3. owed'[x.from] = owed[x.from] /\ until'[x.from] <= until[x.from]
    BY <1>9, <1>16, <2>2
  <2>4. notifier'[x.clock] \in {"woken", "sent"} => notifier[x.clock] \in {"woken", "sent"}
    BY <1>14, <2>2
  <2>5. until'[x.from] <= IF x.clock = "tick" THEN x.ticks ELSE 0
    BY <1>16, <2>1, <2>2, <2>3 DEF OnTime
  <2> QED BY <2>1, <2>3, <2>4, <2>5 DEF OnTime
<1>25. ASSUME NEW l \in Clock, NEW x \in Sleepers(queue'[l])
       PROVE  OnTime(x, l, Left(queue[l])[x])'
  <2>1. CASE l = k
    <3>1. x \in Sleepers(q) /\ Left(q)[x] > 1 /\ Left(queue'[l])[x] = Left(q)[x] - 1
      BY <1>10, <1>12, <1>25, <2>1
    <3>2. OnTime(x, k, Left(q)[x])
      BY <1>1, <1>3, <1>4, <3>1 DEF ClientsOnTime
    <3>3. PICK b \in Nat : b = Left(q)[x] /\ x \in Client
      BY <1>11, <3>1
    <3>4. b > 1 /\ owed[x] <= b - 1 /\ until[x] <= IF k = "tick" THEN b ELSE 0
      BY <1>20, <3>1, <3>2, <3>3 DEF OnTime
    <3>5. owed'[x] <= b - 1
      BY <1>9, <3>4
    <3>6. until'[x] <= IF k = "tick" THEN b - 1 ELSE 0
      BY <1>16, <3>3, <3>4 DEF Less
    <3>7. notifier'[l] \notin {"woken", "sent"}
      BY <1>14, <2>1
    <3>8. Left(queue'[l])[x] = b - 1
      BY <3>1, <3>3
    <3> QED BY <2>1, <3>5, <3>6, <3>7, <3>8 DEF OnTime
  <2>2. CASE l # k
    <3>1. queue'[l] = queue[l] /\ notifier'[l] = notifier[l] /\ owed'[x] = owed[x]
      BY <1>9, <1>12, <1>14, <2>2
    <3>2. x \in Client /\ Left(queue[l])[x] \in Nat
      BY <1>1, <1>25, <3>1, LeftType DEF ListsKept, Delay
    <3>3. OnTime(x, l, Left(queue[l])[x])
      BY <1>1, <1>25, <3>1 DEF ClientsOnTime
    <3>4. PICK b \in Nat : b = Left(queue[l])[x]
      BY <3>2
    <3>5. until'[x] <= IF l = "tick" THEN b ELSE 0
      BY <1>16, <3>2, <3>3, <3>4 DEF OnTime
    <3> QED BY <3>1, <3>3, <3>4, <3>5 DEF OnTime
  <2> QED BY <2>1, <2>2
<1>26. ASSUME NEW x \in Client PROVE AwakeOnTime(x)'
  <2>1. AwakeOnTime(x)
    BY <1>1 DEF ClientsOnTime
  <2>2. CASE x \in Sleepers(s)
    <3>1. x \in Sleepers(q) /\ Left(q)[x] = 1 /\ client'[x] = "run"
      BY <1>10, <1>15, <2>2
    <3>2. OnTime(x, k, 1)
      BY <1>1, <1>3, <1>4, <3>1 DEF ClientsOnTime
    <3>3. owed'[x] = 0
      <4>1. owed[x] \in Nat /\ owed[x] <= 0
        BY <1>1, <1>20, <3>2 DEF OnTime, ClockTypes
      <4> QED BY <1>9, <4>1
    <3>4. until'[x] = 0
      BY <1>16, <3>2 DEF OnTime, Less
    <3> QED BY <3>1, <3>3, <3>4 DEF AwakeOnTime
  <2>3. CASE x \notin Sleepers(s)
    <3>1. client'[x] = client[x] /\ owed'[x] = owed[x]
      BY <1>9, <1>15, <2>3
    <3>2. client[x] \in {"run", "time"} => until'[x] = 0
      BY <1>16, <2>1 DEF AwakeOnTime
    <3>3. ASSUME client[x] = "told" PROVE \E u \in -2 .. MAX_DELAY : Aims(x, reading[x], u)'
      <4>1. PICK u \in -2 .. MAX_DELAY : Aims(x, reading[x], u)
        BY <2>1, <3>3 DEF AwakeOnTime
      <4>2. until'[x] = 0 \/ until'[x] <= u
        BY <1>16, <4>1 DEF Aims
      <4>3. Aims(x, reading[x], u)'
        BY <1>9, <4>1, <4>2 DEF Aims
      <4> QED BY <4>3
    <3>4. ASSUME client[x] = "until"
          PROVE  \E u \in -2 .. MAX_DELAY : Aims(x, absoluteTime, u)' /\ (TickAhead(x)' => u > -2)
      <4>1. PICK u \in -2 .. MAX_DELAY : Aims(x, absoluteTime, u) /\ (TickAhead(x) => u > -2)
        BY <2>1, <3>4 DEF AwakeOnTime
      <4>2. CASE k # "tick"
        BY <1>2, <1>9, <1>16, <4>1, <4>2 DEF Aims
      <4>3. CASE k = "tick"
        <5>1. TimeMessage(x) \in Mail'
          <6>1. Asked(x) = 1
            BY <1>1, <3>4 DEF ClientsOnce, One
          <6>2. PICK y \in Mail \cap Request : y.from = x
            BY <1>1, <6>1, AskedFacts
          <6>3. y \in Mail'
            BY <1>2, <1>3, <6>2
          <6>4. y.type # "delay"
            BY <1>1, <3>4, <6>2 DEF RequestsFit
          <6>5. y = TimeMessage(x)
            BY <6>2, <6>4, MessageKinds DEF Message
          <6> QED BY <6>3, <6>5
        <5>2. u > -2
          BY <1>2, <1>3, <4>1, <4>3, <5>1
        <5>3. ~TickAhead(x)'
          <6>1. inbox' \in Seq(Message) /\ Count(inbox', {TickMessage("tick")}) = 0
            BY <1>2, <1>20, <4>3
          <6>2. \A i \in 1 .. Len(inbox') : inbox'[i] # TickMessage("tick")
            BY <6>1, CountZero
          <6> QED BY <6>2 DEF TickAhead
        <5>4. u - 1 \in -2 .. MAX_DELAY /\ MAX_DELAY \in Nat
          BY <5>2, ClockAssumption
        <5>5. Aims(x, absoluteTime, u - 1)'
          <6>1. target'[x] = (absoluteTime' + (u - 1)) % TIME_COUNT
            BY <1>1, <1>9, <4>1, <4>3, OneNearer DEF Aims, ClockTypes
          <6>2. until'[x] = 0 \/ until'[x] <= u - 1
            BY <1>16, <4>1, <4>3 DEF Aims, Less
          <6> QED BY <6>1, <6>2 DEF Aims
        <5> QED BY <5>3, <5>4, <5>5
      <4> QED BY <4>2, <4>3
    <3> QED BY <2>1, <3>1, <3>2, <3>3, <3>4 DEF AwakeOnTime
  <2> QED BY <2>2, <2>3
<1>27. ClientsOnTime'
  BY <1>24, <1>25, <1>26 DEF ClientsOnTime
<1>28. \A l \in Clock : \A x : x \in Sleepers(queue'[l]) <=>
         x \in Sleepers(queue[l]) /\ ~(l = k /\ x \in Sleepers(s))
  <2>1. \A x \in Sleepers(q) : Left(q)[x] > 1 <=> Left(q)[x] # 1
    BY <1>11
  <2>2. \A x : x \in Sleepers(r) <=> x \in Sleepers(q) /\ x \notin Sleepers(s)
    BY <1>10, <2>1
  <2> QED BY <1>4, <1>12, <2>2
<1>29. ASSUME NEW x \in Client
       PROVE  /\ Asked(x)' = One(client'[x] \in {"time", "until"}
                                   \/ (client'[x] = "sleep" /\ ~Sleeps(x)'))
              /\ Sleeps(x)' => client'[x] = "sleep"
              /\ \A l, j \in Clock :
                   x \in Sleepers(queue'[l]) /\ x \in Sleepers(queue'[j]) => l = j
  <2>1. CASE x \in Sleepers(s)
    <3>1. Sleeps(x) /\ client'[x] = "run" /\ x \in Sleepers(queue[k])
      BY <1>3, <1>4, <1>10, <1>15, <2>1 DEF Sleeps
    <3>2. Asked(x) = 0
      BY <1>1, <3>1, AskedFacts
    <3>3. \A l \in Clock : x \notin Sleepers(queue'[l])
      BY <1>1, <1>3, <1>28, <2>1, <3>1 DEF ClientsOnce
    <3>4. ~Sleeps(x)'
      BY <3>3 DEF Sleeps
    <3> QED BY <1>22, <3>1, <3>2, <3>3, <3>4 DEF One
  <2>2. CASE x \notin Sleepers(s)
    <3>1. \A l \in Clock : x \in Sleepers(queue'[l]) <=> x \in Sleepers(queue[l])
      BY <1>28, <2>2
    <3>2. Sleeps(x)' <=> Sleeps(x)
      BY <3>1 DEF Sleeps
    <3> QED BY <1>1, <1>15, <1>22, <2>2, <3>1, <3>2 DEF ClientsOnce
  <2> QED BY <2>1, <2>2
<1>30. ClientsOnce'
  BY <1>29 DEF ClientsOnce
<1>31. RequestsFit'
  BY <1>1, <1>23 DEF RequestsFit
<1> QED BY <1>18, <1>19, <1>21, <1>27, <1>30, <1>31 DEF ClockInv

LEMMA ClockInvStep ==
  ASSUME ClockInv, [Next]_vars
  PROVE  ClockInv'
<1>1. CASE UNCHANGED vars
  <2>1. /\ absoluteTime' = absoluteTime /\ queue' = queue /\ free' = free /\ inbox' = inbox
        /\ notifier' = notifier /\ client' = client /\ target' = target
        /\ reading' = reading /\ failed' = failed /\ owed' = owed /\ until' = until
    BY <1>1 DEF vars, serverVars, clientVars
  <2>2. ClockTypes'
    BY <2>1 DEF ClockInv, ClockTypes
  <2>3. ListsKept' /\ TicksOnce'
    BY <2>1 DEF ClockInv, ListsKept, TicksOnce
  <2>4. Mail' = Mail /\ \A x : (TickAhead(x)' <=> TickAhead(x)) /\ Asked(x)' = Asked(x)
    BY <2>1 DEF Mail, TickAhead, Asked
  <2>5. ClientsOnTime'
    BY <2>1, <2>4 DEF ClockInv, ClientsOnTime, AwakeOnTime, Aims, OnTime
  <2>6. ~failed' => ClientsOnce' /\ RequestsFit'
    BY <2>1, <2>4 DEF ClockInv, ClientsOnce, RequestsFit, Sleeps
  <2> QED BY <2>2, <2>3, <2>5, <2>6 DEF ClockInv
<1>2. CASE Serve
  <2>1. PICK m : m = Head(inbox)
    OBVIOUS
  <2>2. Takes(m) /\ (ServeDelay(m) \/ ServeTime(m) \/ ServeTick(m))
    BY <1>2, <2>1 DEF Serve, Takes
  <2> QED BY <2>2, DelayServed, TimeServed, TickServed
<1>3. CASE Hung
  BY <1>1, <1>3 DEF Hung
<1> QED BY <1>1, <1>2, <1>3, ClientSteps, TimerKeeps, AwaitKeeps, SendKeeps DEF Next

LEMMA ClockInvHolds == Spec => []ClockInv
<1>1. ClockInv /\ [Next]_vars => ClockInv'
  BY ClockInvStep
<1> QED BY <1>1, ClockInvInit, PTL DEF Spec

-----------------------------------------------------------------------------
(* What follows from the invariant.                                         *)

\* The server's state, the lists of both clocks and what it knows of its clients keep
\* their types (ClockServer.c:10-41).
THEOREM ClockTypeCorrect == Spec => []TypeOK
<1>1. ClockInv => TypeOK
  <2> SUFFICES ASSUME ClockInv PROVE TypeOK
    OBVIOUS
  <2>1. ClockTypes /\ ListsKept
    BY DEF ClockInv
  <2>2. ASSUME NEW k \in Clock
        PROVE  /\ free[k] \in 0 .. NODE_COUNT
               /\ \A i \in 1 .. Len(queue[k]) : queue[k][i] \in [task : Client, delay : Nat]
    <3>1. queue[k] \in Seq(Sleeper) /\ free[k] \in Nat /\ free[k] + Len(queue[k]) = NODE_COUNT
      BY <2>1 DEF ClockTypes, ListsKept
    <3>2. Len(queue[k]) \in Nat
      BY <3>1, LenProperties
    <3>3. free[k] \in 0 .. NODE_COUNT
      BY <3>1, <3>2, ClockAssumption
    <3> QED BY <3>1, <3>3, ListTypes DEF Sleeper
  <2>3. free \in [Clock -> 0 .. NODE_COUNT]
    BY <2>1, <2>2 DEF ClockTypes
  <2> QED BY <2>1, <2>2, <2>3 DEF TypeOK, ClockTypes
<1> QED BY <1>1, ClockInvHolds, PTL

LEMMA FewSleepers ==
  ASSUME NEW q, DeltaList(q)
  PROVE  Len(q) \in Nat /\ Cardinality(Client) \in Nat /\ Len(q) <= Cardinality(Client)
<1> DEFINE f == [i \in 1 .. Len(q) |-> q[i].task]
<1>1. /\ Len(q) \in Nat
      /\ \A i \in 1 .. Len(q) : q[i].task \in Client
  BY ListTypes DEF DeltaList
<1>2. f \in [1 .. Len(q) -> Client]
  BY <1>1
<1>3. \A i, j \in 1 .. Len(q) : f[i] = f[j] => i = j
  BY DEF DeltaList, Distinct
<1>4. f \in Injection(1 .. Len(q), Client)
  BY <1>2, <1>3, Fun_IsInj
<1>5. IsFiniteSet(1 .. Len(q)) /\ Cardinality(1 .. Len(q)) = Len(q)
  BY <1>1, FS_Interval
<1>6. IsFiniteSet(Client)
  BY ClockAssumption
<1>7. Cardinality(1 .. Len(q)) <= Cardinality(Client)
  BY <1>4, <1>5, <1>6, FS_Injection DEF ExistsInjection
<1> QED BY <1>1, <1>5, <1>6, <1>7, FS_CardinalityType

\* Every client that waits has one message under way or one node in one list, no node
\* leaks, and each notifier has its one tick under way while it waits for the server to
\* answer: nobody is answered who does not wait, nobody who waits is forgotten
\* (ClockServer.c:43-158).
THEOREM SleepersStayExact == Spec => []SleepersExact
<1>1. ClockInv => SleepersExact
  <2> SUFFICES ASSUME ClockInv PROVE SleepersExact
    OBVIOUS
  <2>1. ClockTypes /\ ListsKept /\ TicksOnce /\ Mail \subseteq Message
    BY MailFacts DEF ClockInv, ClockTypes
  <2>2. ASSUME NEW c \in Client, ~failed
        PROVE  Cardinality({i \in 1 .. Len(inbox) : inbox[i].type # "notify" /\ inbox[i].from = c})
                 + Cardinality({p \in Clock \X (1 .. Cardinality(Client)) :
                                  p[2] <= Len(queue[p[1]]) /\ queue[p[1]][p[2]].task = c})
                 = IF client[c] \in {"time", "until", "sleep"} THEN 1 ELSE 0
    <3> DEFINE N == {p \in Clock \X (1 .. Cardinality(Client)) :
                       p[2] <= Len(queue[p[1]]) /\ queue[p[1]][p[2]].task = c}
               P == {i \in 1 .. Len(inbox) : inbox[i].type # "notify" /\ inbox[i].from = c}
    <3>1. ClientsOnce
      BY <2>2 DEF ClockInv
    <3>2. Cardinality(P) = Asked(c)
      <4>1. \A i \in 1 .. Len(inbox) : inbox[i] \in Message
        BY <2>1 DEF Mail
      <4>2. \A i \in 1 .. Len(inbox) :
              inbox[i].type # "notify" /\ inbox[i].from = c <=> inbox[i] \in From(c)
        BY <4>1, MessageKinds DEF From
      <4>3. P = Places(inbox, From(c))
        BY <4>2 DEF Places
      <4> QED BY <4>3 DEF Asked, Count
    <3>3. CASE Sleeps(c)
      <4>1. PICK k \in Clock : c \in Sleepers(queue[k])
        BY <3>3 DEF Sleeps
      <4>2. PICK i \in 1 .. Len(queue[k]) : queue[k][i].task = c
        BY <4>1 DEF Sleepers
      <4>3. \A l \in Clock : /\ DeltaList(queue[l]) /\ Len(queue[l]) \in Nat
                             /\ Len(queue[l]) <= Cardinality(Client) /\ Cardinality(Client) \in Nat
        BY <2>1, FewSleepers DEF ListsKept
      <4>4. <<k, i>> \in N
        BY <4>2, <4>3
      <4>5. ASSUME NEW p \in N PROVE p = <<k, i>>
        <5>1. p[1] \in Clock /\ p[2] \in 1 .. Len(queue[p[1]]) /\ queue[p[1]][p[2]].task = c
          BY <4>3
        <5>2. c \in Sleepers(queue[p[1]])
          BY <5>1 DEF Sleepers
        <5>3. p[1] = k
          BY <3>1, <4>1, <5>1, <5>2 DEF ClientsOnce
        <5>4. p[2] = i
          BY <4>2, <4>3, <5>1, <5>3 DEF DeltaList, Distinct
        <5> QED BY <5>3, <5>4
      <4>6. N = {<<k, i>>}
        BY <4>4, <4>5
      <4>7. Cardinality(N) = 1
        BY <4>6, FS_Singleton
      <4>8. client[c] = "sleep" /\ Asked(c) = 0
        BY <3>1, <3>3 DEF ClientsOnce, One
      <4> HIDE DEF N, P
      <4> QED BY <3>2, <4>7, <4>8 DEF N, P
    <3>4. CASE ~Sleeps(c)
      <4>1. \A l \in Clock : Len(queue[l]) \in Nat
        BY <2>1, LenProperties DEF ClockTypes
      <4>2. ASSUME NEW p \in N PROVE FALSE
        <5>1. p[1] \in Clock /\ p[2] \in Nat \ {0} /\ p[2] <= Len(queue[p[1]])
              /\ queue[p[1]][p[2]].task = c
          OBVIOUS
        <5>2. p[2] \in 1 .. Len(queue[p[1]])
          BY <4>1, <5>1
        <5> QED BY <3>4, <5>1, <5>2 DEF Sleeps, Sleepers
      <4>3. Cardinality(N) = 0
        BY <4>2, FS_EmptySet
      <4>4. Asked(c) = One(client[c] \in {"time", "until", "sleep"})
        BY <3>1, <3>4 DEF ClientsOnce, One
      <4> HIDE DEF N, P
      <4>5. Cardinality(P) + Cardinality(N) =
              IF client[c] \in {"time", "until", "sleep"} THEN 1 ELSE 0
        BY <3>2, <4>3, <4>4 DEF One
      <4> QED BY <4>5 DEF N, P
    <3> QED BY <3>3, <3>4
  <2>3. ASSUME NEW k \in Clock
        PROVE  Cardinality({i \in 1 .. Len(inbox) : inbox[i] = TickMessage(k)}) =
                 IF notifier[k] = "sent" THEN 1 ELSE 0
    <3>1. {i \in 1 .. Len(inbox) : inbox[i] = TickMessage(k)} = Places(inbox, {TickMessage(k)})
      BY DEF Places
    <3> QED BY <2>1, <3>1 DEF TicksOnce, Count, One
  <2>4. \A k \in Clock : free[k] + Len(queue[k]) = NODE_COUNT
    BY <2>1 DEF ListsKept
  <2> QED BY <2>2, <2>3, <2>4, Zenon DEF SleepersExact
<1> QED BY <1>1, ClockInvHolds, PTL

\* No sleeper is due and left behind, and none has more ticks to wait than anybody asks
\* for, whatever the time wraps around (clockService.c:41-44, ClockServer.c:110-158).
THEOREM DelaysStayBounded == Spec => []DelaysBounded
<1>1. ClockInv => DelaysBounded
  BY DEF ClockInv, ListsKept, DeltaList, DelaysBounded
<1> QED BY <1>1, ClockInvHolds, PTL

\* Nobody returns from a delay before its ticks, or before its target, have passed,
\* though interrupts are lost, ticks wait in the server's queue and the time it computes
\* with is old and wraps (clockService.c:5-47, ClockServer.c:67-108).
THEOREM NobodyIsEarly == Spec => []NeverEarly
<1>1. ClockInv => NeverEarly
  BY DEF ClockInv, ClientsOnTime, AwakeOnTime, NeverEarly
<1> QED BY <1>1, ClockInvHolds, PTL

-----------------------------------------------------------------------------
(* The delta lists as alarm clocks.                                         *)

LEMMA InsertedLeft ==
  ASSUME NEW q, DeltaList(q), NEW c \in Client, c \notin Sleepers(q), NEW d \in Delay
  PROVE  Left(Inserted(q, c, d)) =
           [x \in DOMAIN Left(q) \cup {c} |-> IF x = c THEN d ELSE Left(q)[x]]
<1>1. PICK r : r = Inserted(q, c, d)
  OBVIOUS
<1>2. /\ Sleepers(r) = Sleepers(q) \cup {c} /\ Left(r)[c] = d
      /\ \A x \in Sleepers(q) : Left(r)[x] = Left(q)[x]
  BY <1>1, InsertedList
<1>3. DOMAIN Left(q) = Sleepers(q) /\ DOMAIN Left(r) = Sleepers(r)
  BY DEF Left
<1>4. Left(r) = [x \in Sleepers(r) |-> Left(r)[x]]
  BY DEF Left
<1>5. \A x \in Sleepers(r) : Left(r)[x] = IF x = c THEN d ELSE Left(q)[x]
  BY <1>2
<1> QED BY <1>1, <1>2, <1>3, <1>4, <1>5

LEMMA TickedLeft ==
  ASSUME NEW q, DeltaList(q)
  PROVE  LET a == Aged(q)
         IN  Left(SubSeq(a, Due(a) + 1, Len(a))) =
               [x \in {y \in DOMAIN Left(q) : Left(q)[y] > 1} |-> Left(q)[x] - 1]
<1>1. PICK a : a = Aged(q)
  OBVIOUS
<1>2. PICK r : r = SubSeq(a, Due(a) + 1, Len(a))
  OBVIOUS
<1>3. /\ Sleepers(r) = {x \in Sleepers(q) : Left(q)[x] > 1}
      /\ \A x \in Sleepers(r) : Left(r)[x] = Left(q)[x] - 1
  BY <1>1, <1>2, TickedList
<1>4. DOMAIN Left(q) = Sleepers(q)
  BY DEF Left
<1>5. Left(r) = [x \in Sleepers(r) |-> Left(r)[x]]
  BY DEF Left
<1>6. Left(r) = [x \in {y \in DOMAIN Left(q) : Left(q)[y] > 1} |-> Left(q)[x] - 1]
  BY <1>3, <1>4, <1>5
<1> QED BY <1>1, <1>2, <1>6

LEMMA AlarmStep ==
  ASSUME ClockInv, [Next]_vars
  PROVE  \/ \E k \in Clock : \/ Alarms!Tick(k)
                             \/ \E c \in Client, d \in Delay : Alarms!Sleep(k, c, d)
         \/ queue' = queue
<1> DEFINE R == [l \in Clock |-> Remaining(l)]
<1>1. \A l \in Clock : R[l] = Left(queue[l]) /\ R'[l] = Left(queue'[l])
  BY DEF Remaining, Left
<1>2. /\ DOMAIN R = Clock /\ DOMAIN R' = Clock
      /\ R = [l \in Clock |-> R[l]] /\ R' = [l \in Clock |-> R'[l]]
  OBVIOUS
<1>3. ClockTypes /\ ListsKept
  BY DEF ClockInv
<1>4. ASSUME NEW m, Takes(m), ServeDelay(m), queue' # queue
      PROVE  \E k \in Clock, c \in Client, d \in Delay : Alarms!Sleep(k, c, d)
  <2> DEFINE c == m.from
             k == m.clock
             d == m.ticks
  <2>1. m \in Mail /\ m \in Message /\ m.type = "delay"
    BY <1>4, TakenFacts DEF ServeDelay
  <2>2. m \in Mail \cap Request /\ c \in Client /\ k \in Clock /\ d \in Delay
    BY <2>1, MessageKinds DEF Request
  <2>3. queue' = [queue EXCEPT ![k] = Inserted(@, c, d)]
    BY <1>4 DEF ServeDelay
  <2>4. ~Sleeps(c)
    <3>1. ~failed
      BY <1>4 DEF Takes
    <3>2. Asked(c) # 0
      BY <2>2, <3>1, AskedFacts
    <3> QED BY <2>2, <3>1, <3>2, AskedFacts
  <2>5. c \notin Sleepers(queue[k]) /\ DeltaList(queue[k])
    BY <1>3, <2>2, <2>4 DEF Sleeps, ListsKept
  <2> HIDE DEF c, k, d, R
  <2>6. Left(Inserted(queue[k], c, d)) =
          [x \in DOMAIN R[k] \cup {c} |-> IF x = c THEN d ELSE R[k][x]]
    BY <1>1, <2>2, <2>5, InsertedLeft
  <2>7. /\ queue'[k] = Inserted(queue[k], c, d)
        /\ \A l \in Clock \ {k} : queue'[l] = queue[l]
    BY <1>3, <2>2, <2>3 DEF ClockTypes
  <2>8. /\ R'[k] = [x \in DOMAIN R[k] \cup {c} |-> IF x = c THEN d ELSE R[k][x]]
        /\ \A l \in Clock \ {k} : R'[l] = R[l]
    BY <1>1, <2>2, <2>6, <2>7
  <2>9. R' = [R EXCEPT ![k] = [x \in DOMAIN @ \cup {c} |-> IF x = c THEN d ELSE @[x]]]
    BY <1>2, <2>2, <2>8
  <2>10. ~Alarms!Asleep(c)
    <3>1. \A l \in Clock : DOMAIN R[l] = Sleepers(queue[l])
      BY <1>1 DEF Left
    <3> QED BY <2>4, <3>1 DEF Alarms!Asleep, Sleeps, R
  <2>11. Alarms!Sleep(k, c, d)
    BY <2>9, <2>10 DEF Alarms!Sleep, R
  <2> QED BY <2>2, <2>11
<1>5. ASSUME NEW m, Takes(m), ServeTick(m)
      PROVE  \E k \in Clock : Alarms!Tick(k)
  <2> DEFINE k == m.clock
             a == Aged(queue[k])
  <2>1. m \in Message /\ m.type = "notify"
    BY <1>5, TakenFacts DEF ServeTick
  <2>2. k \in Clock
    BY <2>1, MessageKinds
  <2>3. queue' = [queue EXCEPT ![k] = SubSeq(a, Due(a) + 1, Len(a))]
    BY <1>5 DEF ServeTick
  <2> HIDE DEF k, R
  <2>4. Left(SubSeq(a, Due(a) + 1, Len(a))) =
          [x \in {y \in DOMAIN R[k] : R[k][y] > 1} |-> R[k][x] - 1]
    <3>1. DeltaList(queue[k]) /\ R[k] = Left(queue[k])
      BY <1>1, <1>3, <2>2 DEF ListsKept
    <3>2. Left(SubSeq(a, Due(a) + 1, Len(a))) =
            [x \in {y \in DOMAIN Left(queue[k]) : Left(queue[k])[y] > 1} |-> Left(queue[k])[x] - 1]
      BY <3>1, TickedLeft
    <3> QED BY <3>1, <3>2
  <2> HIDE DEF a
  <2>5. /\ queue'[k] = SubSeq(a, Due(a) + 1, Len(a))
        /\ \A l \in Clock \ {k} : queue'[l] = queue[l]
    BY <1>3, <2>2, <2>3 DEF ClockTypes
  <2>6. /\ R'[k] = [x \in {y \in DOMAIN R[k] : R[k][y] > 1} |-> R[k][x] - 1]
        /\ \A l \in Clock \ {k} : R'[l] = R[l]
    BY <1>1, <2>2, <2>4, <2>5
  <2>7. R' = [R EXCEPT ![k] = [x \in {y \in DOMAIN @ : @[y] > 1} |-> @[x] - 1]]
    BY <1>2, <2>2, <2>6
  <2>8. Alarms!Tick(k)
    BY <2>7 DEF Alarms!Tick, R
  <2> QED BY <2>2, <2>8
<1>6. CASE Serve
  <2>1. PICK m : m = Head(inbox)
    OBVIOUS
  <2>2. Takes(m) /\ (ServeDelay(m) \/ ServeTime(m) \/ ServeTick(m))
    BY <1>6, <2>1 DEF Serve, Takes
  <2>3. ServeTime(m) => queue' = queue
    BY DEF ServeTime, serverVars
  <2> QED BY <1>4, <1>5, <2>2, <2>3
<1>7. ASSUME NEW c \in Client
      PROVE  /\ \A k \in Clock, d \in Delay : DelayBy(c, k, d) => queue' = queue
             /\ ClockTime(c) => queue' = queue
             /\ \A x \in Ahead : DelayUntil(c, x) => queue' = queue
             /\ DelayTheRest(c) => queue' = queue
  BY DEF DelayBy, ClockTime, DelayUntil, DelayTheRest, serverVars
<1>8. ASSUME NEW k \in Clock
      PROVE  TimerInterrupt(k) \/ NotifierAwait(k) \/ NotifierSend(k) => queue' = queue
  BY DEF TimerInterrupt, NotifierAwait, NotifierSend, serverVars
<1>9. UNCHANGED vars \/ Hung => queue' = queue
  BY DEF vars, serverVars, Hung
<1> QED BY <1>6, <1>7, <1>8, <1>9 DEF Next

\* The server keeps the promise of the alarm clocks: the d-th tick after a delay of d is
\* taken wakes its client, and no other tick does (ClockServer.c:50-158).
THEOREM ClockImplementsAlarms == Spec => ImplementsAlarmClock
<1>1. Init => Alarms!Init
  <2> SUFFICES ASSUME Init PROVE [k \in Clock |-> Remaining(k)] = [k \in Clock |-> [c \in {} |-> 0]]
    BY DEF Alarms!Init
  <2>1. \A k \in Clock : Sleepers(queue[k]) = {}
    <3>1. Len(<<>>) = 0
      BY EmptySeq
    <3> QED BY <3>1 DEF Init, Sleepers
  <2>2. \A k \in Clock : Remaining(k) = [c \in {} |-> 0]
    BY <2>1 DEF Remaining
  <2> QED BY <2>2
<1>2. ASSUME ClockInv, [Next]_vars
      PROVE  [Alarms!Next]_([k \in Clock |-> Remaining(k)])
  <2>1. CASE queue' = queue
    BY <2>1 DEF Remaining
  <2>2. CASE \E k \in Clock : \/ Alarms!Tick(k)
                              \/ \E c \in Client, d \in Delay : Alarms!Sleep(k, c, d)
    BY <2>2 DEF Alarms!Next
  <2> QED BY <1>2, <2>1, <2>2, AlarmStep
<1>3. ClockInv /\ [Next]_vars => [Alarms!Next]_([k \in Clock |-> Remaining(k)])
  BY <1>2
<1> QED BY <1>1, <1>3, ClockInvHolds, PTL DEF Spec, ImplementsAlarmClock, Alarms!Spec
=============================================================================
