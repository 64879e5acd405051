--------------------------- MODULE Lifetime_proofs ---------------------------
(***************************************************************************)
(* Theorems about DriverLifetime and the lists of Blist.                   *)
(***************************************************************************)
EXTENDS DriverLifetime, DataInduction

-----------------------------------------------------------------------------
(* Linked lists                                                            *)

\* The buffers of s are linked one behind the other, and first is the first of them.
LinkedAs(first, next, s) ==
  /\ s \in Seq(Buffers) /\ IsInjective(s)
  /\ first = IF s = <<>> THEN NULL ELSE s[1]
  /\ \A i \in 1 .. Len(s) : next[s[i]] = IF i = Len(s) THEN NULL ELSE s[i + 1]

\* What Follow computes step by step.
Walk(f, first, next, n) ==
  f = [k \in 0 .. n |->
        IF k = 0 THEN <<>>
        ELSE LET s == f[k - 1]
                 b == IF s = <<>> THEN first ELSE next[Last(s)]
             IN  IF b = NULL THEN s ELSE Append(s, b)]

\* No list is longer than there are buffers.
LEMMA ShortLists ==
  ASSUME NEW s \in Seq(Buffers), IsInjective(s)
  PROVE  Cardinality(Buffers) \in Nat /\ Len(s) <= Cardinality(Buffers)
<1>1. IsFiniteSet(Buffers)
  BY BlistAssumption
<1>2. s \in Injection(1 .. Len(s), Buffers)
  BY DEF Injection
<1>3. Cardinality(1 .. Len(s)) = Len(s)
  <2>1. PICK n \in Nat : n = Len(s)
    OBVIOUS
  <2>2. Cardinality(1 .. n) = n
    BY FS_Interval
  <2> QED
    BY <2>1, <2>2
<1> QED
  BY <1>1, <1>2, <1>3, FS_Injection, FS_CardinalityType

\* Following the pointers yields the buffers in the order in which they are linked.
LEMMA FollowIs ==
  ASSUME NEW first, NEW next, NEW s, LinkedAs(first, next, s)
  PROVE  Follow(first, next) = s
<1> DEFINE n == Cardinality(Buffers) + 1
           e == [k \in 0 .. n |-> SubSeq(s, 1, IF k <= Len(s) THEN k ELSE Len(s))]
           g == CHOOSE f : Walk(f, first, next, n)
<1>1. s \in Seq(Buffers) /\ IsInjective(s) /\ Len(s) \in Nat
  BY DEF LinkedAs
<1>2. n \in Nat /\ Len(s) < n
  BY <1>1, ShortLists
<1>3. \A i \in 1 .. Len(s) : s[i] \in Buffers /\ s[i] # NULL
  BY <1>1, BlistAssumption
<1>4. Follow(first, next) = g[n]
  BY Zenon DEF Follow, Walk
<1> HIDE DEF n
<1>5. ASSUME NEW k \in 1 .. n
      PROVE  e[k] = LET t == e[k - 1]
                        b == IF t = <<>> THEN first ELSE next[Last(t)]
                    IN  IF b = NULL THEN t ELSE Append(t, b)
  <2>1. k - 1 \in 0 .. n /\ k \in 0 .. n /\ k \in Nat /\ k >= 1
    BY <1>2
  <2>2. CASE k <= Len(s)
    <3>1. e[k] = SubSeq(s, 1, k) /\ e[k - 1] = SubSeq(s, 1, k - 1)
      BY <2>1, <2>2, <1>1
    <3>2. SubSeq(s, 1, k) = Append(SubSeq(s, 1, k - 1), s[k])
      BY <2>1, <2>2, <1>1
    <3>3. s[k] # NULL
      BY <1>3, <2>1, <2>2, <1>1
    <3>4. CASE k = 1
      <4>1. e[k - 1] = <<>> /\ first = s[k]
        <5>1. Len(s) >= 1 /\ s # <<>>
          BY <3>4, <2>2, <1>1
        <5>2. SubSeq(s, 1, 0) = <<>>
          BY <1>1
        <5>3. k - 1 = 0 /\ first = s[k]
          BY <5>1, <3>4 DEF LinkedAs
        <5> HIDE DEF e
        <5> QED
          BY <5>2, <5>3, <3>1
      <4> QED
        BY <4>1, <3>1, <3>2, <3>3
    <3>5. CASE k # 1
      <4>1. Len(e[k - 1]) = k - 1 /\ e[k - 1][k - 1] = s[k - 1] /\ e[k - 1] # <<>>
        BY <3>1, <3>5, <2>1, <2>2, <1>1
      <4>2. k - 1 \in 1 .. Len(s) /\ k - 1 # Len(s) /\ k - 1 + 1 = k
        BY <3>5, <2>1, <2>2, <1>1
      <4>3. next[s[k - 1]] = s[k]
        BY <4>2 DEF LinkedAs
      <4>4. next[Last(e[k - 1])] = s[k]
        BY <4>1, <4>3 DEF Last
      <4> QED
        BY <4>1, <4>4, <3>1, <3>2, <3>3
    <3> QED
      BY <3>4, <3>5
  <2>3. CASE k > Len(s)
    <3>1. e[k] = s /\ e[k - 1] = s
      BY <2>1, <2>3, <1>1
    <3>2. (IF s = <<>> THEN first ELSE next[Last(s)]) = NULL
      <4>1. CASE s = <<>>
        BY <4>1 DEF LinkedAs
      <4>2. CASE s # <<>>
        <5>1. Len(s) \in 1 .. Len(s)
          BY <4>2, <1>1
        <5> QED
          BY <4>2, <5>1 DEF LinkedAs, Last
      <4> QED
        BY <4>1, <4>2
    <3> HIDE DEF e
    <3> QED
      BY <3>1, <3>2
  <2> QED
    BY <2>1, <2>2, <2>3, <1>1
<1>6. e[0] = <<>>
  BY <1>1, <1>2
<1>7. Walk(e, first, next, n)
  <2>1. \A k \in 0 .. n : k = 0 \/ k \in 1 .. n
    BY <1>2
  <2> HIDE DEF e
  <2>2. DOMAIN e = 0 .. n /\ e = [k \in 0 .. n |-> e[k]]
    BY DEF e
  <2> QED
    BY <1>5, <1>6, <2>1, <2>2 DEF Walk
<1>8. Walk(g, first, next, n)
  BY <1>7, Zenon
<1>9. e[n] = s
  BY <1>1, <1>2
<1> HIDE DEF e, g
<1>10. SameSteps(e, g, n)
  <2>1. g[0] = <<>>
    BY <1>2, <1>8 DEF Walk
  <2>2. \A k \in 1 .. n : e[k - 1] = g[k - 1] => e[k] = g[k]
    <3> SUFFICES ASSUME NEW k \in 1 .. n, e[k - 1] = g[k - 1] PROVE e[k] = g[k]
      OBVIOUS
    <3>1. k \in 0 .. n /\ k # 0
      BY <1>2
    <3>2. g[k] = LET t == g[k - 1]
                     b == IF t = <<>> THEN first ELSE next[Last(t)]
                 IN  IF b = NULL THEN t ELSE Append(t, b)
      BY <3>1, <1>8 DEF Walk
    <3> QED
      BY <3>2, <1>5
  <2> QED
    BY <2>1, <2>2, <1>6 DEF SameSteps
<1>11. e[n] = g[n]
  <2>1. \A k \in 0 .. n : e[k] = g[k]
    BY <1>2, <1>10, RecursionUnique
  <2> QED
    BY <2>1, <1>2
<1> QED
  BY <1>4, <1>9, <1>11

-----------------------------------------------------------------------------
(* The inductive invariant                                                 *)

HoldPcs == {"append_next", "append_link", "append_tail", "pop_head", "pop_tail", "pop_next",
            "unlock"}
AppendPcs == {"append_lock", "append_next", "append_link", "append_tail", "unlock", "done"}
PopPcs == {"pop_lock", "pop_head", "pop_tail", "pop_next", "unlock", "done"}

\* Places at which a context is in no list function, in pop_blist, or may be in append_blist.
IdlePlaces == {"out", "gather", "given", "loaded", "starting", "stopping", "removing",
               "cleanup_arch", "gone"}
PopPlaces == {"popped", "waiting", "freeing_empty", "freeing_full"}
AppendPlaces == {"appended", "giving", "returning", "allocating", "flushing"}

PlacesOf(kind) ==
  CASE kind = "irq" -> {"out", "gather", "popped", "appended"}
    [] kind = "ipi" -> {"out", "giving", "given"}
    [] kind = "reader" -> {"out", "waiting", "returning"}
    [] OTHER -> {"out", "allocating", "loaded", "starting", "stopping", "removing",
                 "cleanup_arch", "flushing", "freeing_empty", "freeing_full", "gone"}

LifeTypes ==
  /\ head \in [Lists -> Buffers \cup {NULL}] /\ tail \in [Lists -> Buffers \cup {NULL}]
  /\ nextBuffer \in [Buffers -> Buffers \cup {NULL}]
  /\ lock \in [Lists -> Ctxs \cup {NULL}]
  /\ op \in [Ctxs -> [pc : {"none"} \cup AppendPcs \cup PopPcs, list : Lists \cup {NULL},
                      b : Buffers \cup {NULL}]]
  /\ at \in [Ctxs -> IdlePlaces \cup PopPlaces \cup AppendPlaces]
  /\ \A x \in Ctxs : at[x] \in PlacesOf(x[2])
  /\ alive \in SUBSET Buffers /\ lbuffer \in [Cpus -> Buffers \cup {NULL}]
  /\ counting \in [Cpus -> BOOLEAN] /\ pending \in [Cpus -> BOOLEAN]
  /\ build \in Builds /\ installed \in BOOLEAN /\ opened \in BOOLEAN
  /\ shutdown \in 0 .. 2 /\ todo \in SUBSET Cpus /\ made \in Nat /\ starts \in Nat

\* The list a place has to do with.
ListAt(place) ==
  IF place \in {"popped", "freeing_empty", "giving", "returning", "allocating"}
  THEN "empty" ELSE "full"

\* What a context does in a list function follows from where it is in its caller.
CallRight(place, call) ==
  /\ place \in IdlePlaces => call = NoCall
  /\ place \in PopPlaces =>
       /\ call.pc \in PopPcs /\ call.list = ListAt(place)
       /\ call.pc \in {"pop_lock", "pop_head"} => call.b = NULL
       /\ call.pc \in {"pop_tail", "pop_next"} => call.b # NULL
  /\ place \in AppendPlaces =>
       \/ call = NoCall /\ place \in {"allocating", "flushing"}
       \/ call.pc \in AppendPcs /\ call.list = ListAt(place) /\ call.b # NULL

CallInv == \A x \in Ctxs : CallRight(at[x], op[x])

\* The lock of a list belongs to the one context inside its critical section.
LockInv ==
  /\ \A l \in Lists : lock[l] # NULL => op[lock[l]].list = l /\ op[lock[l]].pc \in HoldPcs
  /\ \A x \in Ctxs : op[x].pc \in HoldPcs => lock[op[x].list] = x

\* No interrupt of the CPU is under way or will come.
Still(c) == ~counting[c] /\ ~pending[c] /\ at[Irq(c)] = "out"

\* On Intel 1 is written to status only while sampling is off.  Otherwise an NMI finds the
\* buffer that startCtrs has just given back still in lbuffer, and puts it in a second list.
IntelStopsFirst == "intel" \notin Restarts

\* Who can be in the driver at the places of the process that loads, starts and unloads.
PhaseInv ==
  /\ opened => at[Admin] \in {"loaded", "starting", "stopping"}
  /\ at[Admin] = "out" => ~installed
  /\ at[Admin] = "starting" => starts # 0 /\ shutdown = 0
  /\ \A c \in Cpus :
       /\ InDriver(Ipi(c)) =>
            at[Admin] = "starting" /\ c \in todo /\ at[Irq(c)] = "out"
       /\ at[Admin] \in {"out", "flushing", "freeing_empty", "freeing_full", "gone"} =>
            ~installed /\ at[Irq(c)] = "out"
       /\ at[Admin] \in {"out", "freeing_empty", "freeing_full", "gone"} => lbuffer[c] = NULL
  /\ build = "intel" => \A c \in Cpus :
       /\ at[Admin] = "starting" /\ c \in todo => Still(c)
       /\ at[Admin] \in {"stopping", "removing"} /\ c \notin todo => ~counting[c] /\ ~pending[c]
       /\ starts = 0 => Still(c)
       /\ shutdown = 2 => Still(c)

\* The process of a reader is in the driver only as long as the device exists.
ReaderInv == ReadersClosed => \A x \in Readers : InDriver(x) => opened

\* The pointers of a list link the buffers of its chain.
ChainInv == \A l \in Lists : LinkedAs(head[l], nextBuffer, Chain(l))

TailRight(l) == tail[l] = IF Chain(l) = <<>> THEN NULL ELSE Last(Chain(l))

\* tail lags behind head only inside a critical section.
Lags(l) == lock[l] # NULL /\ op[lock[l]].pc \in {"append_tail", "pop_tail"}

\* What a context knows of the list and the buffer it is working on.
Knows(x) ==
  LET l == op[x].list
      b == op[x].b IN
  /\ op[x].pc = "append_link" => nextBuffer[b] = NULL
  /\ op[x].pc = "append_tail" => Chain(l) # <<>> /\ Last(Chain(l)) = b
  /\ op[x].pc = "pop_tail" => Chain(l) = <<>> \/ TailRight(l)
  /\ op[x].pc = "unlock" /\ at[x] \in AppendPlaces => b \in ToSet(Chain(l))

TailInv ==
  /\ \A l \in Lists : TailRight(l) \/ Lags(l)
  /\ \A x \in Ctxs : Knows(x)

\* The buffer a list function is working on, while no list has it.
Held(x) ==
  IF op[x].pc \in {"append_lock", "append_next", "append_link"} \/ at[x] \in PopPlaces
  THEN op[x].b ELSE NULL

\* The CPU's buffer is being given to a list; lbuffer is set to NULL later.
Away(c) ==
  \/ at[Irq(c)] = "appended" \/ at[Ipi(c)] = "giving"
  \/ at[Admin] = "flushing" /\ op[Admin].b = lbuffer[c]

\* The buffer a CPU records in.
Kept(c) == IF Away(c) THEN NULL ELSE lbuffer[c]

\* What the callers know of their CPU's buffer.
HandInv ==
  /\ \A c \in Cpus :
       /\ at[Irq(c)] = "popped" => lbuffer[c] = NULL
       /\ at[Irq(c)] = "appended" => op[Irq(c)].b = lbuffer[c]
       /\ at[Ipi(c)] = "giving" => op[Ipi(c)].b = lbuffer[c]
       /\ lbuffer[c] # NULL => lbuffer[c] \in alive
  /\ at[Admin] = "flushing" =>
       /\ op[Admin] # NoCall => \E c \in Cpus : op[Admin].b = lbuffer[c]
       /\ \A c, d \in Cpus : lbuffer[c] = lbuffer[d] /\ lbuffer[c] # NULL => c = d

\* A buffer is in one list, with one context or with one CPU.
OwnInv ==
  /\ \A x, y \in Ctxs : Held(x) = Held(y) /\ Held(x) # NULL => x = y
  /\ \A c, d \in Cpus : Kept(c) = Kept(d) /\ Kept(c) # NULL => c = d
  /\ \A x \in Ctxs, c \in Cpus : Held(x) # NULL => Held(x) # Kept(c)
  /\ \A x \in Ctxs, l \in Lists : Held(x) \notin ToSet(Chain(l))
  /\ \A c \in Cpus, l \in Lists : Kept(c) \notin ToSet(Chain(l))
  /\ \A l, k \in Lists : l # k => ToSet(Chain(l)) \cap ToSet(Chain(k)) = {}

\* Exactly the allocated buffers are somewhere.
AliveInv ==
  /\ \A x \in Ctxs : Held(x) # NULL => Held(x) \in alive
  /\ \A c \in Cpus : Kept(c) # NULL => Kept(c) \in alive
  /\ \A l \in Lists : ToSet(Chain(l)) \subseteq alive
  /\ \A b \in alive :
       \/ \E x \in Ctxs : Held(x) = b
       \/ \E c \in Cpus : Kept(c) = b
       \/ \E l \in Lists : b \in ToSet(Chain(l))

\* While buffers are allocated there is one left to allocate.
MadeInv ==
  /\ at[Admin] = "out" => alive = {}
  /\ at[Admin] = "allocating" => Cardinality(alive) <= made

\* A list that was found empty at the end stays empty.
EmptyInv ==
  ReadersClosed =>
    /\ at[Admin] = "freeing_empty" /\ op[Admin].pc \in {"unlock", "done"} /\ op[Admin].b = NULL
         => Chain("empty") = <<>>
    /\ at[Admin] = "freeing_full" => Chain("empty") = <<>>
    /\ at[Admin] = "freeing_full" /\ op[Admin].pc \in {"unlock", "done"} /\ op[Admin].b = NULL
         => Chain("full") = <<>>
    /\ at[Admin] = "gone" => alive = {}

LifeInv ==
  /\ LifeTypes /\ CallInv /\ LockInv /\ PhaseInv /\ ReaderInv
  /\ ChainInv /\ TailInv /\ HandInv /\ OwnInv /\ AliveInv /\ MadeInv /\ EmptyInv

-----------------------------------------------------------------------------
(* What the steps of append_blist and pop_blist do to a linked list        *)

\* The elements of a sequence.
LEMMA InSet ==
  ASSUME NEW s \in Seq(Buffers)
  PROVE  \A b : b \in ToSet(s) <=> \E i \in 1 .. Len(s) : s[i] = b
BY DEF ToSet

\* The pointer to the first buffer tells whether there is one.
LEMMA FirstOf ==
  ASSUME NEW first, NEW next, NEW s, LinkedAs(first, next, s)
  PROVE  /\ first = NULL <=> s = <<>>
         /\ s # <<>> => first \in ToSet(s) /\ Last(s) \in ToSet(s)
         /\ ToSet(s) \subseteq Buffers /\ NULL \notin ToSet(s)
<1>1. s \in Seq(Buffers) /\ first = IF s = <<>> THEN NULL ELSE s[1]
  BY DEF LinkedAs
<1>2. \A i \in 1 .. Len(s) : s[i] \in Buffers /\ s[i] # NULL
  BY <1>1, BlistAssumption
<1>3. s # <<>> => 1 \in 1 .. Len(s) /\ Len(s) \in 1 .. Len(s)
  BY <1>1
<1> QED
  BY <1>1, <1>2, <1>3, InSet DEF Last

\* The last pointer is NULL.
LEMMA LastOf ==
  ASSUME NEW first, NEW next, NEW s, LinkedAs(first, next, s), s # <<>>
  PROVE  next[Last(s)] = NULL
<1>1. s \in Seq(Buffers) /\ Len(s) \in 1 .. Len(s)
  BY DEF LinkedAs
<1> QED
  BY <1>1 DEF LinkedAs, Last

\* Writing the pointer of a buffer that is not in the list does not disturb it.
LEMMA LinkFrame ==
  ASSUME NEW first, NEW next, NEW s, LinkedAs(first, next, s),
         NEW next2, NEW c, c \notin ToSet(s), \A b \in Buffers \ {c} : next2[b] = next[b]
  PROVE  LinkedAs(first, next2, s)
<1>1. s \in Seq(Buffers)
  BY DEF LinkedAs
<1>2. \A i \in 1 .. Len(s) : s[i] \in Buffers \ {c}
  BY <1>1, InSet
<1> QED
  BY <1>1, <1>2 DEF LinkedAs

\* The first buffer of an empty list.
LEMMA LinkFirst ==
  ASSUME NEW next, NEW b \in Buffers, next[b] = NULL
  PROVE  LinkedAs(b, next, <<b>>)
<1>1. <<b>> \in Seq(Buffers) /\ Len(<<b>>) = 1 /\ <<b>>[1] = b /\ <<b>> # <<>>
  OBVIOUS
<1> QED
  BY <1>1 DEF LinkedAs, IsInjective

\* A buffer is linked behind the last one.
LEMMA LinkBehind ==
  ASSUME NEW first, NEW next, NEW s, LinkedAs(first, next, s), s # <<>>,
         NEW b \in Buffers, b \notin ToSet(s), next[b] = NULL,
         NEW next2, next2[Last(s)] = b, \A d \in Buffers \ {Last(s)} : next2[d] = next[d]
  PROVE  LinkedAs(first, next2, Append(s, b))
<1> DEFINE n == Len(s)
           t == Append(s, b)
<1>1. s \in Seq(Buffers) /\ n \in Nat /\ n >= 1 /\ t \in Seq(Buffers) /\ t # <<>> /\ t[1] = s[1]
  BY DEF LinkedAs
<1>2. Len(t) = n + 1 /\ t[n + 1] = b /\ \A i \in 1 .. n : t[i] = s[i]
  BY <1>1
<1>3. \A i \in 1 .. n : s[i] \in Buffers /\ s[i] # b
  BY <1>1, InSet
<1>4. \A i, j \in 1 .. n : s[i] = s[j] => i = j
  BY <1>1 DEF LinkedAs, IsInjective
<1> HIDE DEF t
<1>5. IsInjective(t)
  <2>1. DOMAIN t = 1 .. n + 1
    BY <1>1, <1>2
  <2>2. \A i \in 1 .. n + 1 : i = n + 1 \/ i \in 1 .. n
    BY <1>1
  <2> HIDE DEF n
  <2> QED
    BY <2>1, <2>2, <1>2, <1>3, <1>4 DEF IsInjective
<1>6. ASSUME NEW i \in 1 .. n + 1 PROVE next2[t[i]] = IF i = n + 1 THEN NULL ELSE t[i + 1]
  <2>1. n \in 1 .. n /\ n # n + 1 /\ Last(s) = s[n]
    BY <1>1 DEF Last
  <2>2. CASE i = n + 1
    BY <2>1, <2>2, <1>2, <1>3
  <2>3. CASE i = n
    BY <2>1, <2>3, <1>2
  <2>4. CASE i # n /\ i # n + 1
    <3>1. i \in 1 .. n /\ i + 1 \in 1 .. n /\ i # n
      BY <2>4, <1>1
    <3>2. t[i] = s[i] /\ t[i + 1] = s[i + 1] /\ s[i] # Last(s) /\ s[i] \in Buffers
      BY <3>1, <2>1, <1>2, <1>3, <1>4
    <3>3. next[s[i]] = s[i + 1]
      BY <3>1 DEF LinkedAs
    <3> QED
      BY <3>2, <3>3, <2>4
  <2> QED
    BY <2>2, <2>3, <2>4
<1> HIDE DEF n
<1>7. first = t[1]
  BY <1>1 DEF LinkedAs
<1>8. \A i \in 1 .. Len(t) : next2[t[i]] = IF i = Len(t) THEN NULL ELSE t[i + 1]
  BY <1>2, <1>6
<1> QED
  BY <1>1, <1>5, <1>7, <1>8 DEF LinkedAs, t

\* Without its first buffer a linked list is one from the second on.
LEMMA LinkTail ==
  ASSUME NEW first, NEW next, NEW s, LinkedAs(first, next, s), s # <<>>
  PROVE  /\ LinkedAs(next[first], next, Tail(s))
         /\ first \notin ToSet(Tail(s)) /\ first = s[1]
         /\ ToSet(Tail(s)) \subseteq ToSet(s)
         /\ \A b \in ToSet(s) : b = first \/ b \in ToSet(Tail(s))
         /\ Tail(s) # <<>> => Last(Tail(s)) = Last(s)
<1> DEFINE n == Len(s)
           t == Tail(s)
<1>1. s \in Seq(Buffers) /\ n \in Nat /\ n >= 1 /\ t \in Seq(Buffers) /\ first = s[1]
  BY DEF LinkedAs
<1>2. Len(t) = n - 1 /\ \A i \in 1 .. n - 1 : t[i] = s[i + 1]
  BY <1>1
<1>3. \A i, j \in 1 .. n : s[i] = s[j] => i = j
  BY <1>1 DEF LinkedAs, IsInjective
<1>4. \A i \in 1 .. n : next[s[i]] = IF i = n THEN NULL ELSE s[i + 1]
  BY DEF LinkedAs
<1>5. \A i \in 1 .. n - 1 : i + 1 \in 1 .. n /\ i \in 1 .. n /\ i + 1 # 1
  BY <1>1
<1> HIDE DEF t, n
<1>6. t = <<>> <=> n = 1
  <2>1. t = <<>> <=> Len(t) = 0
    BY <1>1
  <2> QED
    BY <2>1, <1>1, <1>2
<1>7. DOMAIN t = 1 .. n - 1 /\ 1 \in 1 .. n
  BY <1>1, <1>2
<1>8. IsInjective(t)
  <2>1. \A i, j \in 1 .. n - 1 : i + 1 = j + 1 => i = j
    BY <1>1
  <2> QED
    BY <2>1, <1>2, <1>3, <1>5, <1>7 DEF IsInjective
<1>9. next[first] = IF t = <<>> THEN NULL ELSE t[1]
  <2>1. CASE n = 1
    BY <2>1, <1>1, <1>4, <1>6, <1>7
  <2>2. CASE n # 1
    <3>1. 1 \in 1 .. n - 1 /\ t[1] = s[1 + 1] /\ next[s[1]] = s[1 + 1]
      BY <2>2, <1>1, <1>2, <1>4, <1>7
    <3> QED
      BY <3>1, <2>2, <1>1, <1>6
  <2> QED
    BY <2>1, <2>2
<1>10. ASSUME NEW i \in 1 .. n - 1 PROVE next[t[i]] = IF i = n - 1 THEN NULL ELSE t[i + 1]
  <2>1. t[i] = s[i + 1] /\ i + 1 \in 1 .. n
    BY <1>2, <1>5
  <2>2. CASE i = n - 1
    BY <2>1, <2>2, <1>1, <1>4
  <2>3. CASE i # n - 1
    <3>1. i + 1 \in 1 .. n - 1 /\ i + 1 # n
      BY <2>3, <1>1
    <3> QED
      BY <2>1, <2>3, <3>1, <1>2, <1>4
  <2> QED
    BY <2>2, <2>3
<1>11. \A i \in 1 .. Len(t) : next[t[i]] = IF i = Len(t) THEN NULL ELSE t[i + 1]
  BY <1>2, <1>10
<1>12. LinkedAs(next[first], next, t)
  BY <1>1, <1>8, <1>9, <1>11 DEF LinkedAs
<1>13. \A b : b \in ToSet(t) <=> \E i \in 1 .. n - 1 : s[i + 1] = b
  <2>1. \A b : b \in ToSet(t) <=> \E i \in 1 .. n - 1 : t[i] = b
    BY <1>1, <1>2, InSet
  <2> QED
    BY <2>1, <1>2
<1>14. \A b : b \in ToSet(s) <=> \E i \in 1 .. n : s[i] = b
  BY <1>1, InSet DEF n
<1>15. first \notin ToSet(t)
  BY <1>1, <1>3, <1>5, <1>7, <1>13
<1>16. ToSet(t) \subseteq ToSet(s)
  BY <1>5, <1>13, <1>14
<1>17. ASSUME NEW b \in ToSet(s) PROVE b = first \/ b \in ToSet(t)
  <2>1. PICK i \in 1 .. n : s[i] = b
    BY <1>14
  <2>2. i = 1 \/ (i - 1 \in 1 .. n - 1 /\ i - 1 + 1 = i)
    BY <1>1
  <2> QED
    BY <2>1, <2>2, <1>1, <1>13
<1>18. t # <<>> => Last(t) = Last(s)
  <2>1. t # <<>> => n - 1 \in 1 .. n - 1 /\ n - 1 + 1 = n
    BY <1>1, <1>6
  <2>2. Last(t) = t[n - 1] /\ Last(s) = s[n]
    BY <1>2 DEF Last, n
  <2> QED
    BY <2>1, <2>2, <1>2
<1> QED
  BY <1>1, <1>12, <1>15, <1>16, <1>17, <1>18 DEF t

-----------------------------------------------------------------------------
(* Steps of one context, and the lemmas that frame them                    *)

\* The contexts of a machine: two per CPU, the loading process and the readers.
LEMMA Contexts ==
  /\ Admin \in Ctxs /\ Admin[2] = "admin"
  /\ Readers \subseteq Ctxs /\ \A x \in Readers : x[2] = "reader" /\ x # Admin
  /\ \A c \in Cpus :
       /\ Irq(c) \in Ctxs /\ Irq(c)[2] = "irq" /\ Irq(c) # Admin /\ Irq(c) \notin Readers
       /\ Ipi(c) \in Ctxs /\ Ipi(c)[2] = "ipi" /\ Ipi(c) # Admin /\ Ipi(c) \notin Readers
  /\ \A c, d \in Cpus : Irq(c) # Ipi(d) /\ (Irq(c) = Irq(d) => c = d) /\ (Ipi(c) = Ipi(d) => c = d)
  /\ \A x \in Ctxs : x = Admin \/ x \in Readers \/ \E c \in Cpus : x = Irq(c) \/ x = Ipi(c)
BY LifetimeAssumption DEF AllCtxs, Irq, Ipi, Admin, Readers

\* Each kind of context is at the places of its kind.
LEMMA Places ==
  ASSUME LifeTypes
  PROVE  /\ \A c \in Cpus : at[Irq(c)] \in PlacesOf("irq") /\ at[Ipi(c)] \in PlacesOf("ipi")
         /\ at[Admin] \in PlacesOf("admin") /\ \A x \in Readers : at[x] \in PlacesOf("reader")
BY Contexts DEF LifeTypes

\* A step of one context.
By(x) ==
  /\ x \in Ctxs
  /\ \A y \in Ctxs \ {x} : op'[y] = op[y] /\ at'[y] = at[y]

\* A step that is not inside a critical section, and leaves none.
Calls(x) ==
  /\ By(x) /\ op[x].pc \notin HoldPcs /\ op'[x].pc \notin HoldPcs
  /\ UNCHANGED <<head, tail, nextBuffer, lock>>

\* The part of the invariant that does not look into the lists.
CtlInv == LifeTypes /\ CallInv /\ LockInv /\ PhaseInv /\ ReaderInv

\* Calling or leaving a list function keeps the calls and the locks in order.
LEMMA CallsInv ==
  ASSUME LifeTypes, CallInv, LockInv, NEW x, Calls(x), CallRight(at'[x], op'[x])
  PROVE  CallInv' /\ LockInv'
<1>1. CallInv'
  BY DEF By, Calls, CallInv
<1>2. LockInv'
  BY BlistAssumption DEF By, Calls, LockInv, LifeTypes, HoldPcs
<1> QED
  BY <1>1, <1>2

\* A context goes from one of its places to another.
LEMMA MoveTypes ==
  ASSUME LifeTypes, NEW x \in Ctxs, NEW p \in PlacesOf(x[2]), at' = [at EXCEPT ![x] = p]
  PROVE  /\ at' \in [Ctxs -> IdlePlaces \cup PopPlaces \cup AppendPlaces]
         /\ \A y \in Ctxs : at'[y] \in PlacesOf(y[2])
<1>1. p \in IdlePlaces \cup PopPlaces \cup AppendPlaces
  BY DEF PlacesOf, IdlePlaces, PopPlaces, AppendPlaces
<1> QED
  BY <1>1 DEF LifeTypes

\* As long as fewer buffers were asked for than there are, one is not allocated.
LEMMA Spare ==
  ASSUME LifeTypes, MadeInv, at[Admin] = "allocating", made < Cardinality(Buffers)
  PROVE  \E x \in Buffers : x \notin alive
<1>1. IsFiniteSet(Buffers) /\ alive \subseteq Buffers
  BY BlistAssumption DEF LifeTypes
<1>2. Cardinality(alive) \in Nat /\ Cardinality(Buffers) \in Nat
  BY <1>1, FS_Subset, FS_CardinalityType
<1>3. alive # Buffers
  BY <1>2 DEF MadeInv, LifeTypes
<1> QED
  BY <1>1, <1>3

\* The PMU interrupt: every step is one of its context outside the critical sections, and the
\* control part of the invariant holds after it.
LEMMA IrqControl ==
  ASSUME CtlInv
  PROVE  /\ \A c \in Cpus : Interrupt(c) => Calls(Irq(c)) /\ CtlInv'
         /\ \A c \in Cpus : Unexplained(c) => Calls(Irq(c)) /\ CtlInv'
         /\ \A c \in Cpus : NeedsBuffer(c) => Calls(Irq(c)) /\ CtlInv'
         /\ \A c \in Cpus : NewBuffer(c) => Calls(Irq(c)) /\ CtlInv'
         /\ \A c \in Cpus : Missed(c) => Calls(Irq(c)) /\ CtlInv'
         /\ \A c \in Cpus : Sample(c) => Calls(Irq(c)) /\ CtlInv'
         /\ \A c \in Cpus : Published(c) => Calls(Irq(c)) /\ CtlInv'
<1> USE DEF CtlInv
<1>1. ASSUME NEW c \in Cpus, Interrupt(c) PROVE Calls(Irq(c)) /\ CtlInv'
  <2>1. /\ Calls(Irq(c)) /\ CallRight(at'[Irq(c)], op'[Irq(c)])
        /\ at' \in [Ctxs -> IdlePlaces \cup PopPlaces \cup AppendPlaces]
        /\ \A y \in Ctxs : at'[y] \in PlacesOf(y[2])
    <3>1. op[Irq(c)] = NoCall /\ UNCHANGED <<head, tail, nextBuffer, lock, op>> /\ Irq(c) \in Ctxs
      BY <1>1, Contexts DEF Interrupt, Taken, CallInv, CallRight, InDriver, IdlePlaces, listVars
    <3>2. at' = [at EXCEPT ![Irq(c)] = "gather"]
      BY <1>1 DEF Interrupt, Move
    <3>3. Calls(Irq(c)) /\ at'[Irq(c)] = "gather"
      BY <3>1, <3>2 DEF LifeTypes, NoCall, HoldPcs, Calls, By
    <3>4. CallRight("gather", NoCall) /\ "gather" \in PlacesOf("irq")
      BY DEF CallRight, IdlePlaces, PopPlaces, AppendPlaces, PlacesOf
    <3> QED
      BY <3>1, <3>2, <3>3, <3>4, Contexts, MoveTypes
  <2>2. LifeTypes'
    BY <1>1, <2>1 DEF Interrupt, Taken, LifeTypes, listVars, ctlVars
  <2>3. PhaseInv'
    BY <1>1, Contexts, Places, LifetimeAssumption
    DEF Interrupt, Taken, listVars, workVars, hwVars, ctlVars, Move, Append_blist, Pop_blist, Return,
        Returned, IdlePlaces, PopPlaces, AppendPlaces, LifeTypes, PhaseInv, Still, InDriver,
        PlacesOf, Running, Masked, Above
  <2>4. ReaderInv'
    BY <1>1, Contexts, Places, LifetimeAssumption
    DEF Interrupt, Taken, listVars, workVars, hwVars, ctlVars, Move, Append_blist, Pop_blist, Return,
        Returned, LifeTypes, ReaderInv, InDriver
  <2> QED
    BY <2>1, <2>2, <2>3, <2>4, CallsInv DEF CtlInv
<1>2. ASSUME NEW c \in Cpus, NeedsBuffer(c) PROVE Calls(Irq(c)) /\ CtlInv'
  <2>1. Calls(Irq(c)) /\ CallRight(at'[Irq(c)], op'[Irq(c)])
    BY <1>2, Contexts, Places, LifetimeAssumption
    DEF NeedsBuffer, listVars, workVars, hwVars, ctlVars, Move, Append_blist, Pop_blist, Return,
        Returned, IdlePlaces, PopPlaces, AppendPlaces, AppendPcs, PopPcs, HoldPcs, LifeTypes,
        CallInv, CallRight, ListAt, NoCall, PlacesOf, Calls, By
  <2>2. LifeTypes'
    BY <1>2, Contexts, Places, LifetimeAssumption
    DEF NeedsBuffer, listVars, workVars, hwVars, ctlVars, Move, Append_blist, Pop_blist, Return,
        Returned, IdlePlaces, PopPlaces, AppendPlaces, AppendPcs, PopPcs, HoldPcs, LifeTypes,
        CallInv, CallRight, NoCall, PlacesOf
  <2>3. PhaseInv'
    BY <1>2, Contexts, Places, LifetimeAssumption
    DEF NeedsBuffer, listVars, workVars, hwVars, ctlVars, Move, Append_blist, Pop_blist, Return,
        Returned, IdlePlaces, PopPlaces, AppendPlaces, LifeTypes, PhaseInv, Still, InDriver,
        PlacesOf, Running, Masked, Above
  <2>4. ReaderInv'
    BY <1>2, Contexts, Places, LifetimeAssumption
    DEF NeedsBuffer, listVars, workVars, hwVars, ctlVars, Move, Append_blist, Pop_blist, Return,
        Returned, LifeTypes, ReaderInv, InDriver
  <2> QED
    BY <2>1, <2>2, <2>3, <2>4, CallsInv DEF CtlInv
<1>3. ASSUME NEW c \in Cpus, NewBuffer(c) PROVE Calls(Irq(c)) /\ CtlInv'
  <2>1. Calls(Irq(c)) /\ CallRight(at'[Irq(c)], op'[Irq(c)])
    BY <1>3, Contexts, Places, LifetimeAssumption
    DEF NewBuffer, listVars, workVars, hwVars, ctlVars, Move, Append_blist, Pop_blist, Return,
        Returned, IdlePlaces, PopPlaces, AppendPlaces, AppendPcs, PopPcs, HoldPcs, LifeTypes,
        CallInv, CallRight, ListAt, NoCall, PlacesOf, Calls, By
  <2>2. LifeTypes'
    BY <1>3, Contexts, Places, LifetimeAssumption
    DEF NewBuffer, listVars, workVars, hwVars, ctlVars, Move, Append_blist, Pop_blist, Return,
        Returned, IdlePlaces, PopPlaces, AppendPlaces, AppendPcs, PopPcs, HoldPcs, LifeTypes,
        CallInv, CallRight, NoCall, PlacesOf
  <2>3. PhaseInv'
    BY <1>3, Contexts, Places, LifetimeAssumption
    DEF NewBuffer, listVars, workVars, hwVars, ctlVars, Move, Append_blist, Pop_blist, Return,
        Returned, IdlePlaces, PopPlaces, AppendPlaces, LifeTypes, PhaseInv, Still, InDriver,
        PlacesOf, Running, Masked, Above
  <2>4. ReaderInv'
    BY <1>3, Contexts, Places, LifetimeAssumption
    DEF NewBuffer, listVars, workVars, hwVars, ctlVars, Move, Append_blist, Pop_blist, Return,
        Returned, LifeTypes, ReaderInv, InDriver
  <2> QED
    BY <2>1, <2>2, <2>3, <2>4, CallsInv DEF CtlInv
<1>4. ASSUME NEW c \in Cpus, Missed(c) PROVE Calls(Irq(c)) /\ CtlInv'
  <2>1. Calls(Irq(c)) /\ CallRight(at'[Irq(c)], op'[Irq(c)])
    BY <1>4, Contexts, Places, LifetimeAssumption
    DEF Missed, listVars, workVars, hwVars, ctlVars, Move, Append_blist, Pop_blist, Return,
        Returned, IdlePlaces, PopPlaces, AppendPlaces, AppendPcs, PopPcs, HoldPcs, Leave,
        LifeTypes, CallInv, CallRight, ListAt, NoCall, PlacesOf, Calls, By
  <2>2. LifeTypes'
    <3>1. PICK p \in PlacesOf("irq") : at' = [at EXCEPT ![Irq(c)] = p]
      BY <1>4 DEF Missed, Leave, Move, PlacesOf
    <3>2. \/ op' = op \/ op' = [op EXCEPT ![Irq(c)] = NoCall]
          \/ op' = [op EXCEPT ![Irq(c)] = [pc |-> "append_lock", list |-> "full", b |-> lbuffer[c]]]
      BY <1>4 DEF Missed, Append_blist, Return
    <3>3. counting' = counting \/ Leave(c)
      BY <1>4 DEF Missed, hwVars
    <3>4. /\ UNCHANGED <<head, tail, nextBuffer, lock, alive, pending, ctlVars>>
          /\ lbuffer' = lbuffer \/ lbuffer' = [lbuffer EXCEPT ![c] = NULL]
      BY <1>4 DEF Missed, Leave, hwVars
    <3>5. at' \in [Ctxs -> IdlePlaces \cup PopPlaces \cup AppendPlaces]
          /\ \A y \in Ctxs : at'[y] \in PlacesOf(y[2])
      BY <3>1, Contexts, MoveTypes
    <3>6. op' \in [Ctxs -> [pc : {"none"} \cup AppendPcs \cup PopPcs, list : Lists \cup {NULL},
                      b : Buffers \cup {NULL}]]
      BY <3>2, LifetimeAssumption DEF LifeTypes, AppendPcs, NoCall
    <3>7. counting' \in [Cpus -> BOOLEAN]
      BY <3>3 DEF Leave, LifeTypes
    <3> QED
      BY <3>4, <3>5, <3>6, <3>7 DEF LifeTypes, ctlVars
  <2>3. PhaseInv'
    BY <1>4, Contexts, Places, LifetimeAssumption
    DEF Missed, listVars, workVars, hwVars, ctlVars, Move, Append_blist, Pop_blist, Return,
        Returned, Leave, IdlePlaces, PopPlaces, AppendPlaces, LifeTypes, PhaseInv, Still,
        InDriver, PlacesOf, Running, Masked, Above
  <2>4. ReaderInv'
    BY <1>4, Contexts, Places, LifetimeAssumption
    DEF Missed, listVars, workVars, hwVars, ctlVars, Move, Append_blist, Pop_blist, Return,
        Returned, Leave, LifeTypes, ReaderInv, InDriver
  <2> QED
    BY <2>1, <2>2, <2>3, <2>4, CallsInv DEF CtlInv
<1>5. ASSUME NEW c \in Cpus, Sample(c) PROVE Calls(Irq(c)) /\ CtlInv'
  <2>1. Calls(Irq(c)) /\ CallRight(at'[Irq(c)], op'[Irq(c)])
    BY <1>5, Contexts, Places, LifetimeAssumption
    DEF Sample, listVars, workVars, hwVars, ctlVars, Move, Append_blist, Pop_blist, Return,
        Returned, IdlePlaces, PopPlaces, AppendPlaces, AppendPcs, PopPcs, HoldPcs, Leave,
        LifeTypes, CallInv, CallRight, ListAt, NoCall, PlacesOf, Calls, By
  <2>2. LifeTypes'
    <3>1. PICK p \in PlacesOf("irq") : at' = [at EXCEPT ![Irq(c)] = p]
      BY <1>5 DEF Sample, Leave, Move, PlacesOf
    <3>2. \/ op' = op \/ op' = [op EXCEPT ![Irq(c)] = NoCall]
          \/ op' = [op EXCEPT ![Irq(c)] = [pc |-> "append_lock", list |-> "full", b |-> lbuffer[c]]]
      BY <1>5 DEF Sample, Append_blist, Return
    <3>3. counting' = counting \/ Leave(c)
      BY <1>5 DEF Sample, hwVars
    <3>4. /\ UNCHANGED <<head, tail, nextBuffer, lock, alive, pending, ctlVars>>
          /\ lbuffer' = lbuffer \/ lbuffer' = [lbuffer EXCEPT ![c] = NULL]
      BY <1>5 DEF Sample, Leave, hwVars
    <3>5. at' \in [Ctxs -> IdlePlaces \cup PopPlaces \cup AppendPlaces]
          /\ \A y \in Ctxs : at'[y] \in PlacesOf(y[2])
      BY <3>1, Contexts, MoveTypes
    <3>6. op' \in [Ctxs -> [pc : {"none"} \cup AppendPcs \cup PopPcs, list : Lists \cup {NULL},
                      b : Buffers \cup {NULL}]]
      BY <3>2, LifetimeAssumption DEF LifeTypes, AppendPcs, NoCall
    <3>7. counting' \in [Cpus -> BOOLEAN]
      BY <3>3 DEF Leave, LifeTypes
    <3> QED
      BY <3>4, <3>5, <3>6, <3>7 DEF LifeTypes, ctlVars
  <2>3. PhaseInv'
    <3>1. /\ at[Irq(c)] = "gather" /\ UNCHANGED <<lbuffer, pending, ctlVars>>
          /\ \A x \in Ctxs : x # Irq(c) => at'[x] = at[x]
      BY <1>5 DEF Sample, Leave, hwVars, Move, LifeTypes
    <3>2. build = "intel" => \A d \in Cpus : counting'[d] => counting[d]
      BY <1>5 DEF Sample, Leave, hwVars, LifeTypes
    <3>3. at'[Admin] = at[Admin] /\ \A d \in Cpus : at'[Ipi(d)] = at[Ipi(d)]
      BY <3>1, Contexts
    <3>4. \A d \in Cpus : d # c => at'[Irq(d)] = at[Irq(d)]
      BY <3>1, Contexts
    <3>5. build = "intel" => \A d \in Cpus : Still(d) => Still(d)'
      BY <3>1, <3>2, <3>4 DEF Still
    <3> QED
      BY <3>1, <3>2, <3>3, <3>4, <3>5 DEF PhaseInv, InDriver, ctlVars, Still
  <2>4. ReaderInv'
    BY <1>5, Contexts, Places, LifetimeAssumption
    DEF Sample, listVars, workVars, hwVars, ctlVars, Move, Append_blist, Pop_blist, Return,
        Returned, Leave, LifeTypes, ReaderInv, InDriver
  <2> QED
    BY <2>1, <2>2, <2>3, <2>4, CallsInv DEF CtlInv
<1>6. ASSUME NEW c \in Cpus, Published(c) PROVE Calls(Irq(c)) /\ CtlInv'
  <2>1. Calls(Irq(c)) /\ CallRight(at'[Irq(c)], op'[Irq(c)])
    BY <1>6, Contexts, Places, LifetimeAssumption
    DEF Published, listVars, workVars, hwVars, ctlVars, Move, Append_blist, Pop_blist, Return,
        Returned, IdlePlaces, PopPlaces, AppendPlaces, AppendPcs, PopPcs, HoldPcs, Leave,
        LifeTypes, CallInv, CallRight, ListAt, NoCall, PlacesOf, Calls, By
  <2>2. LifeTypes'
    <3>1. PICK p \in PlacesOf("irq") : at' = [at EXCEPT ![Irq(c)] = p]
      BY <1>6 DEF Published, Leave, Move, PlacesOf
    <3>2. \/ op' = op \/ op' = [op EXCEPT ![Irq(c)] = NoCall]
          \/ op' = [op EXCEPT ![Irq(c)] = [pc |-> "append_lock", list |-> "full", b |-> lbuffer[c]]]
      BY <1>6 DEF Published, Append_blist, Return
    <3>3. counting' = counting \/ Leave(c)
      BY <1>6 DEF Published, hwVars
    <3>4. /\ UNCHANGED <<head, tail, nextBuffer, lock, alive, pending, ctlVars>>
          /\ lbuffer' = lbuffer \/ lbuffer' = [lbuffer EXCEPT ![c] = NULL]
      BY <1>6 DEF Published, Leave, hwVars
    <3>5. at' \in [Ctxs -> IdlePlaces \cup PopPlaces \cup AppendPlaces]
          /\ \A y \in Ctxs : at'[y] \in PlacesOf(y[2])
      BY <3>1, Contexts, MoveTypes
    <3>6. op' \in [Ctxs -> [pc : {"none"} \cup AppendPcs \cup PopPcs, list : Lists \cup {NULL},
                      b : Buffers \cup {NULL}]]
      BY <3>2, LifetimeAssumption DEF LifeTypes, AppendPcs, NoCall
    <3>7. counting' \in [Cpus -> BOOLEAN]
      BY <3>3 DEF Leave, LifeTypes
    <3> QED
      BY <3>4, <3>5, <3>6, <3>7 DEF LifeTypes, ctlVars
  <2>3. PhaseInv'
    BY <1>6, Contexts, Places, LifetimeAssumption
    DEF Published, listVars, workVars, hwVars, ctlVars, Move, Append_blist, Pop_blist, Return,
        Returned, Leave, IdlePlaces, PopPlaces, AppendPlaces, LifeTypes, PhaseInv, Still,
        InDriver, PlacesOf, Running, Masked, Above
  <2>4. ReaderInv'
    BY <1>6, Contexts, Places, LifetimeAssumption
    DEF Published, listVars, workVars, hwVars, ctlVars, Move, Append_blist, Pop_blist, Return,
        Returned, Leave, LifeTypes, ReaderInv, InDriver
  <2> QED
    BY <2>1, <2>2, <2>3, <2>4, CallsInv DEF CtlInv
<1>7. ASSUME NEW c \in Cpus, Unexplained(c) PROVE Calls(Irq(c)) /\ CtlInv'
  <2>1. Calls(Irq(c)) /\ CallRight(at'[Irq(c)], op'[Irq(c)])
    <3>1. UNCHANGED <<head, tail, nextBuffer, lock, op, at>> /\ Irq(c) \in Ctxs
      BY <1>7, Contexts DEF Unexplained, Taken, listVars, workVars
    <3>2. op[Irq(c)] = NoCall /\ CallRight(at[Irq(c)], op[Irq(c)])
      BY <1>7, <3>1 DEF Unexplained, Taken, CallInv, CallRight, InDriver, IdlePlaces
    <3> QED
      BY <3>1, <3>2 DEF NoCall, HoldPcs, Calls, By
  <2>2. LifeTypes'
    BY <1>7, Contexts, Places, LifetimeAssumption
    DEF Unexplained, Taken, listVars, workVars, hwVars, ctlVars, Move, Append_blist, Pop_blist, Return,
        Returned, IdlePlaces, PopPlaces, AppendPlaces, AppendPcs, PopPcs, HoldPcs, LifeTypes,
        CallInv, CallRight, NoCall, PlacesOf
  <2>3. PhaseInv'
    BY <1>7, Contexts, Places, LifetimeAssumption
    DEF Unexplained, Taken, listVars, workVars, hwVars, ctlVars, Move, Append_blist, Pop_blist, Return,
        Returned, IdlePlaces, PopPlaces, AppendPlaces, LifeTypes, PhaseInv, Still, InDriver,
        PlacesOf, Running, Masked, Above
  <2>4. ReaderInv'
    BY <1>7, Contexts, Places, LifetimeAssumption
    DEF Unexplained, Taken, listVars, workVars, hwVars, ctlVars, Move, Append_blist, Pop_blist, Return,
        Returned, LifeTypes, ReaderInv, InDriver
  <2> QED
    BY <2>1, <2>2, <2>3, <2>4, CallsInv DEF CtlInv
<1> QED
  BY <1>1, <1>2, <1>3, <1>4, <1>5, <1>6, <1>7

\* The same for the interrupt that starts and stops a CPU.
LEMMA IpiControl ==
  ASSUME CtlInv
  PROVE  /\ \A c \in Cpus : Overflow(c) => Calls(Irq(c)) /\ CtlInv'
         /\ \A c \in Cpus : StartCtrs(c) => Calls(Ipi(c)) /\ CtlInv'
         /\ \A c \in Cpus : Given(c) => Calls(Ipi(c)) /\ CtlInv'
         /\ \A c \in Cpus : Started(c) => Calls(Ipi(c)) /\ CtlInv'
         /\ \A c \in Cpus : StopLocal(c) => Calls(Admin) /\ CtlInv'
<1> USE DEF CtlInv
<1>1. ASSUME NEW c \in Cpus, Overflow(c) PROVE Calls(Irq(c)) /\ CtlInv'
  <2>1. Calls(Irq(c)) /\ CallRight(at'[Irq(c)], op'[Irq(c)])
    <3>1. UNCHANGED <<head, tail, nextBuffer, lock, op, at>> /\ Irq(c) \in Ctxs
      BY <1>1, Contexts DEF Overflow, listVars, workVars
    <3>2. op[Irq(c)] = NoCall /\ CallRight(at[Irq(c)], op[Irq(c)])
      BY <1>1, <3>1 DEF Overflow, CallInv, CallRight, InDriver, IdlePlaces
    <3> QED
      BY <3>1, <3>2 DEF NoCall, HoldPcs, Calls, By
  <2>2. LifeTypes'
    BY <1>1, Contexts, Places, LifetimeAssumption
    DEF Overflow, listVars, workVars, hwVars, ctlVars, Move, Append_blist, Pop_blist, Return,
        Returned, IdlePlaces, PopPlaces, AppendPlaces, AppendPcs, PopPcs, HoldPcs, LifeTypes,
        CallInv, CallRight, NoCall, PlacesOf
  <2>3. PhaseInv'
    BY <1>1, Contexts, Places, LifetimeAssumption
    DEF Overflow, listVars, workVars, hwVars, ctlVars, Move, Append_blist, Pop_blist, Return,
        Returned, IdlePlaces, PopPlaces, AppendPlaces, LifeTypes, PhaseInv, Still, InDriver,
        PlacesOf, Running, Masked, Above
  <2>4. ReaderInv'
    BY <1>1, Contexts, Places, LifetimeAssumption
    DEF Overflow, listVars, workVars, hwVars, ctlVars, Move, Append_blist, Pop_blist, Return,
        Returned, LifeTypes, ReaderInv, InDriver
  <2> QED
    BY <2>1, <2>2, <2>3, <2>4, CallsInv DEF CtlInv
<1>2. ASSUME NEW c \in Cpus, StartCtrs(c) PROVE Calls(Ipi(c)) /\ CtlInv'
  <2>1. /\ Calls(Ipi(c)) /\ CallRight(at'[Ipi(c)], op'[Ipi(c)])
        /\ at' \in [Ctxs -> IdlePlaces \cup PopPlaces \cup AppendPlaces]
        /\ \A y \in Ctxs : at'[y] \in PlacesOf(y[2])
        /\ op' \in [Ctxs -> [pc : {"none"} \cup AppendPcs \cup PopPcs, list : Lists \cup {NULL},
                         b : Buffers \cup {NULL}]]
    <3>1. ~InDriver(Ipi(c)) /\ UNCHANGED <<head, tail, nextBuffer, lock>> /\ Ipi(c) \in Ctxs
      BY <1>2, Contexts DEF StartCtrs, Masked
    <3>2. op[Ipi(c)] = NoCall
      BY <3>1 DEF InDriver, CallInv, CallRight, IdlePlaces
    <3>3. {"given", "giving"} \subseteq PlacesOf("ipi")
      BY DEF PlacesOf
    <3>4. CASE lbuffer[c] = NULL
      <4>1. op' = op /\ at' = [at EXCEPT ![Ipi(c)] = "given"]
        BY <1>2, <3>4 DEF StartCtrs, Move
      <4>2. at'[Ipi(c)] = "given" /\ op'[Ipi(c)] = NoCall /\ Calls(Ipi(c))
        BY <3>1, <3>2, <4>1 DEF LifeTypes, Calls, By, NoCall, HoldPcs
      <4>3. CallRight("given", NoCall)
        BY DEF CallRight, IdlePlaces, PopPlaces, AppendPlaces
      <4> QED
        BY <3>1, <3>3, <4>1, <4>2, <4>3, Contexts, MoveTypes DEF LifeTypes
    <3>5. CASE lbuffer[c] # NULL
      <4> DEFINE call == [pc |-> "append_lock", list |-> "empty", b |-> lbuffer[c]]
      <4>1. op' = [op EXCEPT ![Ipi(c)] = call] /\ at' = [at EXCEPT ![Ipi(c)] = "giving"]
        BY <1>2, <3>5 DEF StartCtrs, Move, Append_blist
      <4>2. at'[Ipi(c)] = "giving" /\ op'[Ipi(c)] = call /\ Calls(Ipi(c))
        BY <3>1, <3>2, <4>1 DEF LifeTypes, Calls, By, NoCall, HoldPcs
      <4>3. CallRight("giving", call)
        BY <3>5 DEF CallRight, IdlePlaces, PopPlaces, AppendPlaces, AppendPcs, ListAt
      <4>4. op' \in [Ctxs -> [pc : {"none"} \cup AppendPcs \cup PopPcs, list : Lists \cup {NULL},
                         b : Buffers \cup {NULL}]]
        BY <4>1, LifetimeAssumption DEF LifeTypes, AppendPcs
      <4> QED
        BY <3>1, <3>3, <4>1, <4>2, <4>3, <4>4, Contexts, MoveTypes
    <3> QED
      BY <3>4, <3>5
  <2>2. LifeTypes'
    BY <1>2, <2>1 DEF StartCtrs, LifeTypes, hwVars, ctlVars
  <2>3. PhaseInv'
    BY <1>2, Contexts, Places, LifetimeAssumption
    DEF StartCtrs, listVars, workVars, hwVars, ctlVars, Move, Append_blist, Pop_blist, Return,
        Returned, IdlePlaces, PopPlaces, AppendPlaces, LifeTypes, PhaseInv, Still, InDriver,
        PlacesOf, Running, Masked, Above
  <2>4. ReaderInv'
    BY <1>2, Contexts, Places, LifetimeAssumption
    DEF StartCtrs, listVars, workVars, hwVars, ctlVars, Move, Append_blist, Pop_blist, Return,
        Returned, LifeTypes, ReaderInv, InDriver
  <2> QED
    BY <2>1, <2>2, <2>3, <2>4, CallsInv DEF CtlInv
<1>3. ASSUME NEW c \in Cpus, Given(c) PROVE Calls(Ipi(c)) /\ CtlInv'
  <2>1. Calls(Ipi(c)) /\ CallRight(at'[Ipi(c)], op'[Ipi(c)])
    BY <1>3, Contexts, Places, LifetimeAssumption
    DEF Given, listVars, workVars, hwVars, ctlVars, Move, Append_blist, Pop_blist, Return,
        Returned, IdlePlaces, PopPlaces, AppendPlaces, AppendPcs, PopPcs, HoldPcs, LifeTypes,
        CallInv, CallRight, ListAt, NoCall, PlacesOf, Calls, By
  <2>2. LifeTypes'
    BY <1>3, Contexts, Places, LifetimeAssumption
    DEF Given, listVars, workVars, hwVars, ctlVars, Move, Append_blist, Pop_blist, Return,
        Returned, IdlePlaces, PopPlaces, AppendPlaces, AppendPcs, PopPcs, HoldPcs, LifeTypes,
        CallInv, CallRight, NoCall, PlacesOf
  <2>3. PhaseInv'
    BY <1>3, Contexts, Places, LifetimeAssumption
    DEF Given, listVars, workVars, hwVars, ctlVars, Move, Append_blist, Pop_blist, Return,
        Returned, IdlePlaces, PopPlaces, AppendPlaces, LifeTypes, PhaseInv, Still, InDriver,
        PlacesOf, Running, Masked, Above
  <2>4. ReaderInv'
    BY <1>3, Contexts, Places, LifetimeAssumption
    DEF Given, listVars, workVars, hwVars, ctlVars, Move, Append_blist, Pop_blist, Return,
        Returned, LifeTypes, ReaderInv, InDriver
  <2> QED
    BY <2>1, <2>2, <2>3, <2>4, CallsInv DEF CtlInv
<1>4. ASSUME NEW c \in Cpus, Started(c) PROVE Calls(Ipi(c)) /\ CtlInv'
  <2>1. Calls(Ipi(c)) /\ CallRight(at'[Ipi(c)], op'[Ipi(c)])
    BY <1>4, Contexts, Places, LifetimeAssumption
    DEF Started, listVars, workVars, hwVars, ctlVars, Move, Append_blist, Pop_blist, Return,
        Returned, IdlePlaces, PopPlaces, AppendPlaces, AppendPcs, PopPcs, HoldPcs, LifeTypes,
        CallInv, CallRight, ListAt, NoCall, PlacesOf, Calls, By
  <2>2. LifeTypes'
    BY <1>4, Contexts, Places, LifetimeAssumption
    DEF Started, listVars, workVars, hwVars, ctlVars, Move, Append_blist, Pop_blist, Return,
        Returned, IdlePlaces, PopPlaces, AppendPlaces, AppendPcs, PopPcs, HoldPcs, LifeTypes,
        CallInv, CallRight, NoCall, PlacesOf
  <2>3. PhaseInv'
    <3>1. /\ at[Admin] = "starting" /\ c \in todo /\ at[Irq(c)] = "out" /\ at'[Ipi(c)] = "out"
          /\ starts # 0 /\ shutdown = 0
      BY <1>4, Contexts DEF Started, Move, LifeTypes, PhaseInv, InDriver
    <3>2. /\ UNCHANGED <<opened, installed, lbuffer, pending, build, starts, shutdown>>
          /\ todo' = todo \ {c} /\ at'[Admin] = at[Admin] /\ \A d \in Cpus : at'[Irq(d)] = at[Irq(d)]
      BY <1>4, Contexts DEF Started, Move, LifeTypes, ctlVars
    <3>3. \A d \in Cpus \ {c} : counting'[d] = counting[d] /\ at'[Ipi(d)] = at[Ipi(d)]
      BY <1>4, Contexts DEF Started, Move, LifeTypes
    <3> QED
      BY <3>1, <3>2, <3>3 DEF PhaseInv, Still, InDriver
  <2>4. ReaderInv'
    BY <1>4, Contexts, Places, LifetimeAssumption
    DEF Started, listVars, workVars, hwVars, ctlVars, Move, Append_blist, Pop_blist, Return,
        Returned, LifeTypes, ReaderInv, InDriver
  <2> QED
    BY <2>1, <2>2, <2>3, <2>4, CallsInv DEF CtlInv
<1>5. ASSUME NEW c \in Cpus, StopLocal(c) PROVE Calls(Admin) /\ CtlInv'
  <2>1. Calls(Admin) /\ CallRight(at'[Admin], op'[Admin])
    <3>1. UNCHANGED <<head, tail, nextBuffer, lock, op, at>> /\ Admin \in Ctxs
      BY <1>5, Contexts DEF StopLocal, listVars, workVars
    <3>2. op[Admin] = NoCall /\ CallRight(at[Admin], op[Admin])
      BY <1>5, <3>1 DEF StopLocal, CallInv, CallRight, IdlePlaces
    <3> QED
      BY <3>1, <3>2 DEF NoCall, HoldPcs, Calls, By
  <2>2. LifeTypes'
    BY <1>5, Contexts, Places, LifetimeAssumption
    DEF StopLocal, listVars, workVars, hwVars, ctlVars, Move, Append_blist, Pop_blist, Return,
        Returned, IdlePlaces, PopPlaces, AppendPlaces, AppendPcs, PopPcs, HoldPcs, LifeTypes,
        CallInv, CallRight, NoCall, PlacesOf
  <2>3. PhaseInv'
    <3>1. /\ UNCHANGED <<opened, installed, lbuffer, build, starts, shutdown, at>>
          /\ todo' = todo \ {c} /\ at[Admin] \in {"stopping", "removing"}
      BY <1>5 DEF StopLocal, ctlVars, workVars
    <3>2. ~counting'[c] /\ (build = "intel" => ~pending'[c])
      BY <1>5 DEF StopLocal, LifeTypes
    <3>3. \A d \in Cpus : (counting'[d] => counting[d]) /\ (pending'[d] => pending[d])
      BY <1>5 DEF StopLocal, LifeTypes
    <3>4. \A d \in Cpus : Still(d) => Still(d)'
      BY <3>1, <3>3 DEF Still
    <3>5. at[Admin] = "removing" => ~opened
      BY DEF PhaseInv
    <3>6. \A d \in Cpus : ~InDriver(Ipi(d))
      BY <3>1 DEF PhaseInv
    <3>7. build = "intel" =>
            \A d \in Cpus : /\ d \notin todo' => ~counting'[d] /\ ~pending'[d]
                            /\ starts = 0 \/ shutdown = 2 => Still(d)'
      BY <3>1, <3>2, <3>3, <3>4 DEF PhaseInv
    <3> QED
      BY <3>1, <3>5, <3>6, <3>7 DEF PhaseInv, InDriver
  <2>4. ReaderInv'
    BY <1>5, Contexts, Places, LifetimeAssumption
    DEF StopLocal, listVars, workVars, hwVars, ctlVars, Move, Append_blist, Pop_blist, Return,
        Returned, LifeTypes, ReaderInv, InDriver
  <2> QED
    BY <2>1, <2>2, <2>3, <2>4, CallsInv DEF CtlInv
<1> QED
  BY <1>1, <1>2, <1>3, <1>4, <1>5

\* The same for my_read.
LEMMA ReaderControl ==
  ASSUME CtlInv
  PROVE  /\ \A x \in Readers : Read(x) => Calls(x) /\ CtlInv'
         /\ \A x \in Readers : ReadAgain(x) => Calls(x) /\ CtlInv'
         /\ \A x \in Readers : ReadStopped(x) => Calls(x) /\ CtlInv'
         /\ \A x \in Readers : ReadInterrupted(x) => Calls(x) /\ CtlInv'
         /\ \A x \in Readers : ReadBuffer(x) => Calls(x) /\ CtlInv'
         /\ \A x \in Readers : ReadReturns(x) => Calls(x) /\ CtlInv'
<1> USE DEF CtlInv
<1>1. ASSUME NEW x \in Readers, Read(x) PROVE Calls(x) /\ CtlInv'
  <2>1. Calls(x) /\ CallRight(at'[x], op'[x])
    BY <1>1, Contexts, Places, LifetimeAssumption
    DEF Read, listVars, workVars, hwVars, ctlVars, Move, Append_blist, Pop_blist, Return,
        Returned, IdlePlaces, PopPlaces, AppendPlaces, AppendPcs, PopPcs, HoldPcs, LifeTypes,
        CallInv, CallRight, ListAt, NoCall, PlacesOf, Calls, By
  <2>2. LifeTypes'
    BY <1>1, Contexts, Places, LifetimeAssumption
    DEF Read, listVars, workVars, hwVars, ctlVars, Move, Append_blist, Pop_blist, Return,
        Returned, IdlePlaces, PopPlaces, AppendPlaces, AppendPcs, PopPcs, HoldPcs, LifeTypes,
        CallInv, CallRight, NoCall, PlacesOf
  <2>3. PhaseInv'
    BY <1>1, Contexts, Places, LifetimeAssumption
    DEF Read, listVars, workVars, hwVars, ctlVars, Move, Append_blist, Pop_blist, Return,
        Returned, IdlePlaces, PopPlaces, AppendPlaces, LifeTypes, PhaseInv, Still, InDriver,
        PlacesOf, Running, Masked, Above
  <2>4. ReaderInv'
    BY <1>1, Contexts, Places, LifetimeAssumption
    DEF Read, listVars, workVars, hwVars, ctlVars, Move, Append_blist, Pop_blist, Return,
        Returned, LifeTypes, ReaderInv, InDriver
  <2> QED
    BY <2>1, <2>2, <2>3, <2>4, CallsInv DEF CtlInv
<1>2. ASSUME NEW x \in Readers, ReadAgain(x) PROVE Calls(x) /\ CtlInv'
  <2>1. Calls(x) /\ CallRight(at'[x], op'[x])
    BY <1>2, Contexts, Places, LifetimeAssumption
    DEF ReadAgain, listVars, workVars, hwVars, ctlVars, Move, Append_blist, Pop_blist, Return,
        Returned, IdlePlaces, PopPlaces, AppendPlaces, AppendPcs, PopPcs, HoldPcs, LifeTypes,
        CallInv, CallRight, ListAt, NoCall, PlacesOf, Calls, By
  <2>2. LifeTypes'
    BY <1>2, Contexts, Places, LifetimeAssumption
    DEF ReadAgain, listVars, workVars, hwVars, ctlVars, Move, Append_blist, Pop_blist, Return,
        Returned, IdlePlaces, PopPlaces, AppendPlaces, AppendPcs, PopPcs, HoldPcs, LifeTypes,
        CallInv, CallRight, NoCall, PlacesOf
  <2>3. PhaseInv'
    BY <1>2, Contexts, Places, LifetimeAssumption
    DEF ReadAgain, listVars, workVars, hwVars, ctlVars, Move, Append_blist, Pop_blist, Return,
        Returned, IdlePlaces, PopPlaces, AppendPlaces, LifeTypes, PhaseInv, Still, InDriver,
        PlacesOf, Running, Masked, Above
  <2>4. ReaderInv'
    BY <1>2, Contexts, Places, LifetimeAssumption
    DEF ReadAgain, listVars, workVars, hwVars, ctlVars, Move, Append_blist, Pop_blist, Return,
        Returned, LifeTypes, ReaderInv, InDriver
  <2> QED
    BY <2>1, <2>2, <2>3, <2>4, CallsInv DEF CtlInv
<1>3. ASSUME NEW x \in Readers, ReadStopped(x) PROVE Calls(x) /\ CtlInv'
  <2>1. Calls(x) /\ CallRight(at'[x], op'[x])
    BY <1>3, Contexts, Places, LifetimeAssumption
    DEF ReadStopped, listVars, workVars, hwVars, ctlVars, Move, Append_blist, Pop_blist, Return,
        Returned, IdlePlaces, PopPlaces, AppendPlaces, AppendPcs, PopPcs, HoldPcs, LifeTypes,
        CallInv, CallRight, ListAt, NoCall, PlacesOf, Calls, By
  <2>2. LifeTypes'
    BY <1>3, Contexts, Places, LifetimeAssumption
    DEF ReadStopped, listVars, workVars, hwVars, ctlVars, Move, Append_blist, Pop_blist, Return,
        Returned, IdlePlaces, PopPlaces, AppendPlaces, AppendPcs, PopPcs, HoldPcs, LifeTypes,
        CallInv, CallRight, NoCall, PlacesOf
  <2>3. PhaseInv'
    BY <1>3, Contexts, Places, LifetimeAssumption
    DEF ReadStopped, listVars, workVars, hwVars, ctlVars, Move, Append_blist, Pop_blist, Return,
        Returned, IdlePlaces, PopPlaces, AppendPlaces, LifeTypes, PhaseInv, Still, InDriver,
        PlacesOf, Running, Masked, Above
  <2>4. ReaderInv'
    BY <1>3, Contexts, Places, LifetimeAssumption
    DEF ReadStopped, listVars, workVars, hwVars, ctlVars, Move, Append_blist, Pop_blist, Return,
        Returned, LifeTypes, ReaderInv, InDriver
  <2> QED
    BY <2>1, <2>2, <2>3, <2>4, CallsInv DEF CtlInv
<1>4. ASSUME NEW x \in Readers, ReadBuffer(x) PROVE Calls(x) /\ CtlInv'
  <2>1. Calls(x) /\ CallRight(at'[x], op'[x])
    BY <1>4, Contexts, Places, LifetimeAssumption
    DEF ReadBuffer, listVars, workVars, hwVars, ctlVars, Move, Append_blist, Pop_blist, Return,
        Returned, IdlePlaces, PopPlaces, AppendPlaces, AppendPcs, PopPcs, HoldPcs, LifeTypes,
        CallInv, CallRight, ListAt, NoCall, PlacesOf, Calls, By
  <2>2. LifeTypes'
    BY <1>4, Contexts, Places, LifetimeAssumption
    DEF ReadBuffer, listVars, workVars, hwVars, ctlVars, Move, Append_blist, Pop_blist, Return,
        Returned, IdlePlaces, PopPlaces, AppendPlaces, AppendPcs, PopPcs, HoldPcs, LifeTypes,
        CallInv, CallRight, NoCall, PlacesOf
  <2>3. PhaseInv'
    BY <1>4, Contexts, Places, LifetimeAssumption
    DEF ReadBuffer, listVars, workVars, hwVars, ctlVars, Move, Append_blist, Pop_blist, Return,
        Returned, IdlePlaces, PopPlaces, AppendPlaces, LifeTypes, PhaseInv, Still, InDriver,
        PlacesOf, Running, Masked, Above
  <2>4. ReaderInv'
    BY <1>4, Contexts, Places, LifetimeAssumption
    DEF ReadBuffer, listVars, workVars, hwVars, ctlVars, Move, Append_blist, Pop_blist, Return,
        Returned, LifeTypes, ReaderInv, InDriver
  <2> QED
    BY <2>1, <2>2, <2>3, <2>4, CallsInv DEF CtlInv
<1>5. ASSUME NEW x \in Readers, ReadReturns(x) PROVE Calls(x) /\ CtlInv'
  <2>1. Calls(x) /\ CallRight(at'[x], op'[x])
    BY <1>5, Contexts, Places, LifetimeAssumption
    DEF ReadReturns, listVars, workVars, hwVars, ctlVars, Move, Append_blist, Pop_blist, Return,
        Returned, IdlePlaces, PopPlaces, AppendPlaces, AppendPcs, PopPcs, HoldPcs, LifeTypes,
        CallInv, CallRight, ListAt, NoCall, PlacesOf, Calls, By
  <2>2. LifeTypes'
    BY <1>5, Contexts, Places, LifetimeAssumption
    DEF ReadReturns, listVars, workVars, hwVars, ctlVars, Move, Append_blist, Pop_blist, Return,
        Returned, IdlePlaces, PopPlaces, AppendPlaces, AppendPcs, PopPcs, HoldPcs, LifeTypes,
        CallInv, CallRight, NoCall, PlacesOf
  <2>3. PhaseInv'
    BY <1>5, Contexts, Places, LifetimeAssumption
    DEF ReadReturns, listVars, workVars, hwVars, ctlVars, Move, Append_blist, Pop_blist, Return,
        Returned, IdlePlaces, PopPlaces, AppendPlaces, LifeTypes, PhaseInv, Still, InDriver,
        PlacesOf, Running, Masked, Above
  <2>4. ReaderInv'
    BY <1>5, Contexts, Places, LifetimeAssumption
    DEF ReadReturns, listVars, workVars, hwVars, ctlVars, Move, Append_blist, Pop_blist, Return,
        Returned, LifeTypes, ReaderInv, InDriver
  <2> QED
    BY <2>1, <2>2, <2>3, <2>4, CallsInv DEF CtlInv
<1>6. ASSUME NEW x \in Readers, ReadInterrupted(x) PROVE Calls(x) /\ CtlInv'
  <2>1. Calls(x) /\ CallRight(at'[x], op'[x])
    BY <1>6, Contexts, Places, LifetimeAssumption
    DEF ReadInterrupted, listVars, workVars, hwVars, ctlVars, Move, Append_blist, Pop_blist, Return,
        Returned, IdlePlaces, PopPlaces, AppendPlaces, AppendPcs, PopPcs, HoldPcs, LifeTypes,
        CallInv, CallRight, ListAt, NoCall, PlacesOf, Calls, By
  <2>2. LifeTypes'
    BY <1>6, Contexts, Places, LifetimeAssumption
    DEF ReadInterrupted, listVars, workVars, hwVars, ctlVars, Move, Append_blist, Pop_blist, Return,
        Returned, IdlePlaces, PopPlaces, AppendPlaces, AppendPcs, PopPcs, HoldPcs, LifeTypes,
        CallInv, CallRight, NoCall, PlacesOf
  <2>3. PhaseInv'
    BY <1>6, Contexts, Places, LifetimeAssumption
    DEF ReadInterrupted, listVars, workVars, hwVars, ctlVars, Move, Append_blist, Pop_blist, Return,
        Returned, IdlePlaces, PopPlaces, AppendPlaces, LifeTypes, PhaseInv, Still, InDriver,
        PlacesOf, Running, Masked, Above
  <2>4. ReaderInv'
    BY <1>6, Contexts, Places, LifetimeAssumption
    DEF ReadInterrupted, listVars, workVars, hwVars, ctlVars, Move, Append_blist, Pop_blist, Return,
        Returned, LifeTypes, ReaderInv, InDriver
  <2> QED
    BY <2>1, <2>2, <2>3, <2>4, CallsInv DEF CtlInv
<1> QED
  BY <1>1, <1>2, <1>3, <1>4, <1>5, <1>6

\* The same for init_module.
LEMMA LoadControl ==
  ASSUME CtlInv, MadeInv
  PROVE  /\ Load => Calls(Admin) /\ CtlInv'
         /\ LoadRefused => Calls(Admin) /\ CtlInv'
         /\ Allocate => Calls(Admin) /\ CtlInv'
         /\ AllocateFails => Calls(Admin) /\ CtlInv'
         /\ Allocated => Calls(Admin) /\ CtlInv'
         /\ Loaded => Calls(Admin) /\ CtlInv'
<1> USE DEF CtlInv
<1>1. ASSUME Load PROVE Calls(Admin) /\ CtlInv'
  <2>1. Calls(Admin) /\ CallRight(at'[Admin], op'[Admin])
    BY <1>1, Contexts, Places, LifetimeAssumption
    DEF Load, listVars, workVars, hwVars, ctlVars, Move, Append_blist, Pop_blist, Return,
        Returned, IdlePlaces, PopPlaces, AppendPlaces, AppendPcs, PopPcs, HoldPcs, ConfigIrq,
        LifeTypes, CallInv, CallRight, ListAt, NoCall, PlacesOf, Calls, By
  <2>2. LifeTypes'
    BY <1>1, Contexts, Places, LifetimeAssumption
    DEF Load, listVars, workVars, hwVars, ctlVars, Move, Append_blist, Pop_blist, Return,
        Returned, IdlePlaces, PopPlaces, AppendPlaces, AppendPcs, PopPcs, HoldPcs, ConfigIrq,
        LifeTypes, CallInv, CallRight, NoCall, PlacesOf
  <2>3. PhaseInv'
    BY <1>1, Contexts, Places, LifetimeAssumption
    DEF Load, listVars, workVars, hwVars, ctlVars, Move, Append_blist, Pop_blist, Return,
        Returned, ConfigIrq, IdlePlaces, PopPlaces, AppendPlaces, LifeTypes, PhaseInv, Still,
        InDriver, PlacesOf, Running, Masked, Above
  <2>4. ReaderInv'
    BY <1>1, Contexts, Places, LifetimeAssumption
    DEF Load, listVars, workVars, hwVars, ctlVars, Move, Append_blist, Pop_blist, Return,
        Returned, ConfigIrq, LifeTypes, ReaderInv, InDriver
  <2> QED
    BY <2>1, <2>2, <2>3, <2>4, CallsInv DEF CtlInv
<1>2. ASSUME LoadRefused PROVE Calls(Admin) /\ CtlInv'
  <2>1. Calls(Admin) /\ CallRight(at'[Admin], op'[Admin])
    BY <1>2, Contexts, Places, LifetimeAssumption
    DEF LoadRefused, listVars, workVars, hwVars, ctlVars, Move, Append_blist, Pop_blist, Return,
        Returned, IdlePlaces, PopPlaces, AppendPlaces, AppendPcs, PopPcs, HoldPcs, LifeTypes,
        CallInv, CallRight, ListAt, NoCall, PlacesOf, Calls, By
  <2>2. LifeTypes'
    BY <1>2, Contexts, Places, LifetimeAssumption
    DEF LoadRefused, listVars, workVars, hwVars, ctlVars, Move, Append_blist, Pop_blist, Return,
        Returned, IdlePlaces, PopPlaces, AppendPlaces, AppendPcs, PopPcs, HoldPcs, LifeTypes,
        CallInv, CallRight, NoCall, PlacesOf
  <2>3. PhaseInv'
    BY <1>2, Contexts, Places, LifetimeAssumption
    DEF LoadRefused, listVars, workVars, hwVars, ctlVars, Move, Append_blist, Pop_blist, Return,
        Returned, IdlePlaces, PopPlaces, AppendPlaces, LifeTypes, PhaseInv, Still, InDriver,
        PlacesOf, Running, Masked, Above
  <2>4. ReaderInv'
    BY <1>2, Contexts, Places, LifetimeAssumption
    DEF LoadRefused, listVars, workVars, hwVars, ctlVars, Move, Append_blist, Pop_blist, Return,
        Returned, LifeTypes, ReaderInv, InDriver
  <2> QED
    BY <2>1, <2>2, <2>3, <2>4, CallsInv DEF CtlInv
<1>3. ASSUME Allocate PROVE Calls(Admin) /\ CtlInv'
  <2> DEFINE b == CHOOSE x \in Buffers : x \notin alive
  <2>0. /\ b \in Buffers /\ alive' = alive \cup {b} /\ Append_blist(Admin, "empty", b) /\ b # NULL
        /\ at[Admin] = "allocating" /\ op[Admin] = NoCall /\ made' = made + 1
        /\ UNCHANGED <<head, tail, nextBuffer, lock, at, lbuffer, counting, pending>>
        /\ UNCHANGED <<build, installed, shutdown, opened, todo, starts>>
    <3>1. \E x \in Buffers : x \notin alive
      BY <1>3, Spare DEF Allocate
    <3> QED
      BY <1>3, <3>1, BlistAssumption DEF Allocate, hwVars
  <2> HIDE DEF b
  <2>1. Calls(Admin) /\ CallRight(at'[Admin], op'[Admin])
    BY <2>0, Contexts, Places, LifetimeAssumption
    DEF Append_blist, NoCall, IdlePlaces, PopPlaces, AppendPlaces, AppendPcs, HoldPcs,
        LifeTypes, CallRight, ListAt, Calls, By
  <2>2. LifeTypes'
    <3>1. op' \in [Ctxs -> [pc : {"none"} \cup AppendPcs \cup PopPcs, list : Lists \cup {NULL},
                            b : Buffers \cup {NULL}]]
      BY <2>0, LifetimeAssumption DEF Append_blist, AppendPcs, LifeTypes
    <3>2. alive' \subseteq Buffers /\ made' \in Nat
      BY <2>0 DEF LifeTypes
    <3> QED
      BY <2>0, <3>1, <3>2 DEF LifeTypes
  <2>3. PhaseInv'
    BY <1>3, Contexts, Places, LifetimeAssumption
    DEF Allocate, listVars, workVars, hwVars, ctlVars, Move, Append_blist, Pop_blist, Return,
        Returned, IdlePlaces, PopPlaces, AppendPlaces, LifeTypes, PhaseInv, Still, InDriver,
        PlacesOf, Running, Masked, Above
  <2>4. ReaderInv'
    BY <1>3, Contexts, Places, LifetimeAssumption
    DEF Allocate, listVars, workVars, hwVars, ctlVars, Move, Append_blist, Pop_blist, Return,
        Returned, LifeTypes, ReaderInv, InDriver
  <2> QED
    BY <2>1, <2>2, <2>3, <2>4, CallsInv DEF CtlInv
<1>4. ASSUME AllocateFails PROVE Calls(Admin) /\ CtlInv'
  <2>1. Calls(Admin) /\ CallRight(at'[Admin], op'[Admin])
    BY <1>4, Contexts, Places, LifetimeAssumption
    DEF AllocateFails, listVars, workVars, hwVars, ctlVars, Move, Append_blist, Pop_blist, Return,
        Returned, IdlePlaces, PopPlaces, AppendPlaces, AppendPcs, PopPcs, HoldPcs, LifeTypes,
        CallInv, CallRight, ListAt, NoCall, PlacesOf, Calls, By
  <2>2. LifeTypes'
    BY <1>4, Contexts, Places, LifetimeAssumption
    DEF AllocateFails, listVars, workVars, hwVars, ctlVars, Move, Append_blist, Pop_blist, Return,
        Returned, IdlePlaces, PopPlaces, AppendPlaces, AppendPcs, PopPcs, HoldPcs, LifeTypes,
        CallInv, CallRight, NoCall, PlacesOf
  <2>3. PhaseInv'
    BY <1>4, Contexts, Places, LifetimeAssumption
    DEF AllocateFails, listVars, workVars, hwVars, ctlVars, Move, Append_blist, Pop_blist, Return,
        Returned, IdlePlaces, PopPlaces, AppendPlaces, LifeTypes, PhaseInv, Still, InDriver,
        PlacesOf, Running, Masked, Above
  <2>4. ReaderInv'
    BY <1>4, Contexts, Places, LifetimeAssumption
    DEF AllocateFails, listVars, workVars, hwVars, ctlVars, Move, Append_blist, Pop_blist, Return,
        Returned, LifeTypes, ReaderInv, InDriver
  <2> QED
    BY <2>1, <2>2, <2>3, <2>4, CallsInv DEF CtlInv
<1>5. ASSUME Allocated PROVE Calls(Admin) /\ CtlInv'
  <2>1. Calls(Admin) /\ CallRight(at'[Admin], op'[Admin])
    BY <1>5, Contexts, Places, LifetimeAssumption
    DEF Allocated, listVars, workVars, hwVars, ctlVars, Move, Append_blist, Pop_blist, Return,
        Returned, IdlePlaces, PopPlaces, AppendPlaces, AppendPcs, PopPcs, HoldPcs, LifeTypes,
        CallInv, CallRight, ListAt, NoCall, PlacesOf, Calls, By
  <2>2. LifeTypes'
    BY <1>5, Contexts, Places, LifetimeAssumption
    DEF Allocated, listVars, workVars, hwVars, ctlVars, Move, Append_blist, Pop_blist, Return,
        Returned, IdlePlaces, PopPlaces, AppendPlaces, AppendPcs, PopPcs, HoldPcs, LifeTypes,
        CallInv, CallRight, NoCall, PlacesOf
  <2>3. PhaseInv'
    BY <1>5, Contexts, Places, LifetimeAssumption
    DEF Allocated, listVars, workVars, hwVars, ctlVars, Move, Append_blist, Pop_blist, Return,
        Returned, IdlePlaces, PopPlaces, AppendPlaces, LifeTypes, PhaseInv, Still, InDriver,
        PlacesOf, Running, Masked, Above
  <2>4. ReaderInv'
    BY <1>5, Contexts, Places, LifetimeAssumption
    DEF Allocated, listVars, workVars, hwVars, ctlVars, Move, Append_blist, Pop_blist, Return,
        Returned, LifeTypes, ReaderInv, InDriver
  <2> QED
    BY <2>1, <2>2, <2>3, <2>4, CallsInv DEF CtlInv
<1>6. ASSUME Loaded PROVE Calls(Admin) /\ CtlInv'
  <2>1. Calls(Admin) /\ CallRight(at'[Admin], op'[Admin])
    BY <1>6, Contexts, Places, LifetimeAssumption
    DEF Loaded, listVars, workVars, hwVars, ctlVars, Move, Append_blist, Pop_blist, Return,
        Returned, IdlePlaces, PopPlaces, AppendPlaces, AppendPcs, PopPcs, HoldPcs, LifeTypes,
        CallInv, CallRight, ListAt, NoCall, PlacesOf, Calls, By
  <2>2. LifeTypes'
    BY <1>6, Contexts, Places, LifetimeAssumption
    DEF Loaded, listVars, workVars, hwVars, ctlVars, Move, Append_blist, Pop_blist, Return,
        Returned, IdlePlaces, PopPlaces, AppendPlaces, AppendPcs, PopPcs, HoldPcs, LifeTypes,
        CallInv, CallRight, NoCall, PlacesOf
  <2>3. PhaseInv'
    BY <1>6, Contexts, Places, LifetimeAssumption
    DEF Loaded, listVars, workVars, hwVars, ctlVars, Move, Append_blist, Pop_blist, Return,
        Returned, IdlePlaces, PopPlaces, AppendPlaces, LifeTypes, PhaseInv, Still, InDriver,
        PlacesOf, Running, Masked, Above
  <2>4. ReaderInv'
    BY <1>6, Contexts, Places, LifetimeAssumption
    DEF Loaded, listVars, workVars, hwVars, ctlVars, Move, Append_blist, Pop_blist, Return,
        Returned, LifeTypes, ReaderInv, InDriver
  <2> QED
    BY <2>1, <2>2, <2>3, <2>4, CallsInv DEF CtlInv
<1> QED
  BY <1>1, <1>2, <1>3, <1>4, <1>5, <1>6

\* The same for writes to status.
LEMMA StatusControl ==
  ASSUME IntelStopsFirst, CtlInv
  PROVE  /\ Start => Calls(Admin) /\ CtlInv'
         /\ StartEnds => Calls(Admin) /\ CtlInv'
         /\ Stop => Calls(Admin) /\ CtlInv'
         /\ StopEnds => Calls(Admin) /\ CtlInv'
<1> USE DEF CtlInv
<1>1. ASSUME Start PROVE Calls(Admin) /\ CtlInv'
  <2>1. Calls(Admin) /\ CallRight(at'[Admin], op'[Admin])
    BY <1>1, Contexts, Places, LifetimeAssumption
    DEF IntelStopsFirst, Start, listVars, workVars, hwVars, ctlVars, Move, Append_blist, Pop_blist, Return,
        Returned, IdlePlaces, PopPlaces, AppendPlaces, AppendPcs, PopPcs, HoldPcs, HandlersOut,
        LifeTypes, CallInv, CallRight, ListAt, NoCall, PlacesOf, Calls, By
  <2>2. LifeTypes'
    BY <1>1, Contexts, Places, LifetimeAssumption
    DEF IntelStopsFirst, Start, listVars, workVars, hwVars, ctlVars, Move, Append_blist, Pop_blist, Return,
        Returned, IdlePlaces, PopPlaces, AppendPlaces, AppendPcs, PopPcs, HoldPcs, HandlersOut,
        LifeTypes, CallInv, CallRight, NoCall, PlacesOf
  <2>3. PhaseInv'
    BY <1>1, Contexts, Places, LifetimeAssumption
    DEF IntelStopsFirst, Start, listVars, workVars, hwVars, ctlVars, Move, Append_blist, Pop_blist, Return,
        Returned, HandlersOut, IdlePlaces, PopPlaces, AppendPlaces, LifeTypes, PhaseInv, Still,
        InDriver, PlacesOf, Running, Masked, Above
  <2>4. ReaderInv'
    BY <1>1, Contexts, Places, LifetimeAssumption
    DEF IntelStopsFirst, Start, listVars, workVars, hwVars, ctlVars, Move, Append_blist, Pop_blist, Return,
        Returned, HandlersOut, LifeTypes, ReaderInv, InDriver
  <2> QED
    BY <2>1, <2>2, <2>3, <2>4, CallsInv DEF CtlInv
<1>2. ASSUME StartEnds PROVE Calls(Admin) /\ CtlInv'
  <2>1. Calls(Admin) /\ CallRight(at'[Admin], op'[Admin])
    BY <1>2, Contexts, Places, LifetimeAssumption
    DEF StartEnds, listVars, workVars, hwVars, ctlVars, Move, Append_blist, Pop_blist, Return,
        Returned, IdlePlaces, PopPlaces, AppendPlaces, AppendPcs, PopPcs, HoldPcs, HandlersOut,
        LifeTypes, CallInv, CallRight, ListAt, NoCall, PlacesOf, Calls, By
  <2>2. LifeTypes'
    BY <1>2, Contexts, Places, LifetimeAssumption
    DEF StartEnds, listVars, workVars, hwVars, ctlVars, Move, Append_blist, Pop_blist, Return,
        Returned, IdlePlaces, PopPlaces, AppendPlaces, AppendPcs, PopPcs, HoldPcs, HandlersOut,
        LifeTypes, CallInv, CallRight, NoCall, PlacesOf
  <2>3. PhaseInv'
    BY <1>2, Contexts, Places, LifetimeAssumption
    DEF StartEnds, listVars, workVars, hwVars, ctlVars, Move, Append_blist, Pop_blist, Return,
        Returned, HandlersOut, IdlePlaces, PopPlaces, AppendPlaces, LifeTypes, PhaseInv, Still,
        InDriver, PlacesOf, Running, Masked, Above
  <2>4. ReaderInv'
    BY <1>2, Contexts, Places, LifetimeAssumption
    DEF StartEnds, listVars, workVars, hwVars, ctlVars, Move, Append_blist, Pop_blist, Return,
        Returned, HandlersOut, LifeTypes, ReaderInv, InDriver
  <2> QED
    BY <2>1, <2>2, <2>3, <2>4, CallsInv DEF CtlInv
<1>3. ASSUME Stop PROVE Calls(Admin) /\ CtlInv'
  <2>1. Calls(Admin) /\ CallRight(at'[Admin], op'[Admin])
    BY <1>3, Contexts, Places, LifetimeAssumption
    DEF Stop, listVars, workVars, hwVars, ctlVars, Move, Append_blist, Pop_blist, Return,
        Returned, IdlePlaces, PopPlaces, AppendPlaces, AppendPcs, PopPcs, HoldPcs, HandlersOut,
        LifeTypes, CallInv, CallRight, ListAt, NoCall, PlacesOf, Calls, By
  <2>2. LifeTypes'
    BY <1>3, Contexts, Places, LifetimeAssumption
    DEF Stop, listVars, workVars, hwVars, ctlVars, Move, Append_blist, Pop_blist, Return,
        Returned, IdlePlaces, PopPlaces, AppendPlaces, AppendPcs, PopPcs, HoldPcs, HandlersOut,
        LifeTypes, CallInv, CallRight, NoCall, PlacesOf
  <2>3. PhaseInv'
    BY <1>3, Contexts, Places, LifetimeAssumption
    DEF Stop, listVars, workVars, hwVars, ctlVars, Move, Append_blist, Pop_blist, Return,
        Returned, HandlersOut, IdlePlaces, PopPlaces, AppendPlaces, LifeTypes, PhaseInv, Still,
        InDriver, PlacesOf, Running, Masked, Above
  <2>4. ReaderInv'
    BY <1>3, Contexts, Places, LifetimeAssumption
    DEF Stop, listVars, workVars, hwVars, ctlVars, Move, Append_blist, Pop_blist, Return,
        Returned, HandlersOut, LifeTypes, ReaderInv, InDriver
  <2> QED
    BY <2>1, <2>2, <2>3, <2>4, CallsInv DEF CtlInv
<1>4. ASSUME StopEnds PROVE Calls(Admin) /\ CtlInv'
  <2>1. Calls(Admin) /\ CallRight(at'[Admin], op'[Admin])
    BY <1>4, Contexts, Places, LifetimeAssumption
    DEF StopEnds, listVars, workVars, hwVars, ctlVars, Move, Append_blist, Pop_blist, Return,
        Returned, IdlePlaces, PopPlaces, AppendPlaces, AppendPcs, PopPcs, HoldPcs, HandlersOut,
        LifeTypes, CallInv, CallRight, ListAt, NoCall, PlacesOf, Calls, By
  <2>2. LifeTypes'
    BY <1>4, Contexts, Places, LifetimeAssumption
    DEF StopEnds, listVars, workVars, hwVars, ctlVars, Move, Append_blist, Pop_blist, Return,
        Returned, IdlePlaces, PopPlaces, AppendPlaces, AppendPcs, PopPcs, HoldPcs, HandlersOut,
        LifeTypes, CallInv, CallRight, NoCall, PlacesOf
  <2>3. PhaseInv'
    BY <1>4, Contexts, Places, LifetimeAssumption
    DEF StopEnds, listVars, workVars, hwVars, ctlVars, Move, Append_blist, Pop_blist, Return,
        Returned, HandlersOut, IdlePlaces, PopPlaces, AppendPlaces, LifeTypes, PhaseInv, Still,
        InDriver, PlacesOf, Running, Masked, Above
  <2>4. ReaderInv'
    BY <1>4, Contexts, Places, LifetimeAssumption
    DEF StopEnds, listVars, workVars, hwVars, ctlVars, Move, Append_blist, Pop_blist, Return,
        Returned, HandlersOut, LifeTypes, ReaderInv, InDriver
  <2> QED
    BY <2>1, <2>2, <2>3, <2>4, CallsInv DEF CtlInv
<1> QED
  BY <1>1, <1>2, <1>3, <1>4

\* The same for cleanup_module.
LEMMA CleanupControl ==
  ASSUME CtlInv
  PROVE  /\ CleanupModule => Calls(Admin) /\ CtlInv'
         /\ CleanupArch => Calls(Admin) /\ CtlInv'
         /\ \A c \in Cpus : Flush(c) => Calls(Admin) /\ CtlInv'
         /\ \A c \in Cpus : Flushed(c) => Calls(Admin) /\ CtlInv'
         /\ FlushEnds => Calls(Admin) /\ CtlInv'
         /\ Free => Calls(Admin) /\ CtlInv'
         /\ FreeNext => Calls(Admin) /\ CtlInv'
         /\ Removed => Calls(Admin) /\ CtlInv'
<1> USE DEF CtlInv
<1>1. ASSUME CleanupModule PROVE Calls(Admin) /\ CtlInv'
  <2>1. Calls(Admin) /\ CallRight(at'[Admin], op'[Admin])
    BY <1>1, Contexts, Places, LifetimeAssumption
    DEF CleanupModule, listVars, workVars, hwVars, ctlVars, Move, Append_blist, Pop_blist, Return,
        Returned, IdlePlaces, PopPlaces, AppendPlaces, AppendPcs, PopPcs, HoldPcs, HandlersOut,
        LifeTypes, CallInv, CallRight, ListAt, NoCall, PlacesOf, Calls, By
  <2>2. LifeTypes'
    <3>1. /\ UNCHANGED <<head, tail, nextBuffer, lock, op, alive, lbuffer, counting, pending>>
          /\ UNCHANGED <<build, installed, made, starts>>
          /\ opened' = FALSE /\ shutdown' = 1 /\ todo' = Cpus /\ at' = [at EXCEPT ![Admin] = "removing"]
      BY <1>1 DEF CleanupModule, listVars, hwVars, Move
    <3>2. opened' \in BOOLEAN
      BY <3>1, Zenon
    <3>3. shutdown' \in 0 .. 2 /\ todo' \in SUBSET Cpus
      BY <3>1, SMT
    <3>4. /\ at' \in [Ctxs -> IdlePlaces \cup PopPlaces \cup AppendPlaces]
          /\ \A y \in Ctxs : at'[y] \in PlacesOf(y[2])
      <4>1. "removing" \in PlacesOf("admin")
        BY DEF PlacesOf
      <4> QED
        BY <3>1, <4>1, Contexts, MoveTypes
    <3> QED
      BY <3>1, <3>2, <3>3, <3>4 DEF LifeTypes
  <2>3. PhaseInv'
    BY <1>1, Contexts, Places, LifetimeAssumption
    DEF CleanupModule, listVars, workVars, hwVars, ctlVars, Move, Append_blist, Pop_blist, Return,
        Returned, HandlersOut, IdlePlaces, PopPlaces, AppendPlaces, LifeTypes, PhaseInv, Still,
        InDriver, PlacesOf, Running, Masked, Above
  <2>4. ReaderInv'
    BY <1>1, Contexts, Places, LifetimeAssumption
    DEF CleanupModule, listVars, workVars, hwVars, ctlVars, Move, Append_blist, Pop_blist, Return,
        Returned, HandlersOut, LifeTypes, ReaderInv, InDriver
  <2> QED
    BY <2>1, <2>2, <2>3, <2>4, CallsInv DEF CtlInv
<1>2. ASSUME CleanupArch PROVE Calls(Admin) /\ CtlInv'
  <2>1. Calls(Admin) /\ CallRight(at'[Admin], op'[Admin])
    BY <1>2, Contexts, Places, LifetimeAssumption
    DEF CleanupArch, listVars, workVars, hwVars, ctlVars, Move, Append_blist, Pop_blist, Return,
        Returned, IdlePlaces, PopPlaces, AppendPlaces, AppendPcs, PopPcs, HoldPcs, HandlersOut,
        LifeTypes, CallInv, CallRight, ListAt, NoCall, PlacesOf, Calls, By
  <2>2. LifeTypes'
    <3>1. /\ UNCHANGED <<head, tail, nextBuffer, lock, op, alive, lbuffer, counting, pending>>
          /\ UNCHANGED <<build, shutdown, opened, todo, made, starts>>
          /\ installed' = FALSE /\ at' = [at EXCEPT ![Admin] = "flushing"]
      BY <1>2 DEF CleanupArch, listVars, hwVars, Move
    <3>2. installed' \in BOOLEAN
      BY <3>1, Zenon
    <3>3. /\ at' \in [Ctxs -> IdlePlaces \cup PopPlaces \cup AppendPlaces]
          /\ \A y \in Ctxs : at'[y] \in PlacesOf(y[2])
      <4>1. "flushing" \in PlacesOf("admin")
        BY DEF PlacesOf
      <4> QED
        BY <3>1, <4>1, Contexts, MoveTypes
    <3> QED
      BY <3>1, <3>2, <3>3 DEF LifeTypes
  <2>3. PhaseInv'
    BY <1>2, Contexts, Places, LifetimeAssumption
    DEF CleanupArch, listVars, workVars, hwVars, ctlVars, Move, Append_blist, Pop_blist, Return,
        Returned, HandlersOut, IdlePlaces, PopPlaces, AppendPlaces, LifeTypes, PhaseInv, Still,
        InDriver, PlacesOf, Running, Masked, Above
  <2>4. ReaderInv'
    BY <1>2, Contexts, Places, LifetimeAssumption
    DEF CleanupArch, listVars, workVars, hwVars, ctlVars, Move, Append_blist, Pop_blist, Return,
        Returned, HandlersOut, LifeTypes, ReaderInv, InDriver
  <2> QED
    BY <2>1, <2>2, <2>3, <2>4, CallsInv DEF CtlInv
<1>3. ASSUME NEW c \in Cpus, Flush(c) PROVE Calls(Admin) /\ CtlInv'
  <2>1. Calls(Admin) /\ CallRight(at'[Admin], op'[Admin])
    BY <1>3, Contexts, Places, LifetimeAssumption
    DEF Flush, listVars, workVars, hwVars, ctlVars, Move, Append_blist, Pop_blist, Return,
        Returned, IdlePlaces, PopPlaces, AppendPlaces, AppendPcs, PopPcs, HoldPcs, HandlersOut,
        LifeTypes, CallInv, CallRight, ListAt, NoCall, PlacesOf, Calls, By
  <2>2. LifeTypes'
    BY <1>3, Contexts, Places, LifetimeAssumption
    DEF Flush, listVars, workVars, hwVars, ctlVars, Move, Append_blist, Pop_blist, Return,
        Returned, IdlePlaces, PopPlaces, AppendPlaces, AppendPcs, PopPcs, HoldPcs, HandlersOut,
        LifeTypes, CallInv, CallRight, NoCall, PlacesOf
  <2>3. PhaseInv'
    BY <1>3, Contexts, Places, LifetimeAssumption
    DEF Flush, listVars, workVars, hwVars, ctlVars, Move, Append_blist, Pop_blist, Return,
        Returned, HandlersOut, IdlePlaces, PopPlaces, AppendPlaces, LifeTypes, PhaseInv, Still,
        InDriver, PlacesOf, Running, Masked, Above
  <2>4. ReaderInv'
    BY <1>3, Contexts, Places, LifetimeAssumption
    DEF Flush, listVars, workVars, hwVars, ctlVars, Move, Append_blist, Pop_blist, Return,
        Returned, HandlersOut, LifeTypes, ReaderInv, InDriver
  <2> QED
    BY <2>1, <2>2, <2>3, <2>4, CallsInv DEF CtlInv
<1>4. ASSUME NEW c \in Cpus, Flushed(c) PROVE Calls(Admin) /\ CtlInv'
  <2>1. Calls(Admin) /\ CallRight(at'[Admin], op'[Admin])
    BY <1>4, Contexts, Places, LifetimeAssumption
    DEF Flushed, listVars, workVars, hwVars, ctlVars, Move, Append_blist, Pop_blist, Return,
        Returned, IdlePlaces, PopPlaces, AppendPlaces, AppendPcs, PopPcs, HoldPcs, HandlersOut,
        LifeTypes, CallInv, CallRight, ListAt, NoCall, PlacesOf, Calls, By
  <2>2. LifeTypes'
    BY <1>4, Contexts, Places, LifetimeAssumption
    DEF Flushed, listVars, workVars, hwVars, ctlVars, Move, Append_blist, Pop_blist, Return,
        Returned, IdlePlaces, PopPlaces, AppendPlaces, AppendPcs, PopPcs, HoldPcs, HandlersOut,
        LifeTypes, CallInv, CallRight, NoCall, PlacesOf
  <2>3. PhaseInv'
    BY <1>4, Contexts, Places, LifetimeAssumption
    DEF Flushed, listVars, workVars, hwVars, ctlVars, Move, Append_blist, Pop_blist, Return,
        Returned, HandlersOut, IdlePlaces, PopPlaces, AppendPlaces, LifeTypes, PhaseInv, Still,
        InDriver, PlacesOf, Running, Masked, Above
  <2>4. ReaderInv'
    BY <1>4, Contexts, Places, LifetimeAssumption
    DEF Flushed, listVars, workVars, hwVars, ctlVars, Move, Append_blist, Pop_blist, Return,
        Returned, HandlersOut, LifeTypes, ReaderInv, InDriver
  <2> QED
    BY <2>1, <2>2, <2>3, <2>4, CallsInv DEF CtlInv
<1>5. ASSUME FlushEnds PROVE Calls(Admin) /\ CtlInv'
  <2>1. Calls(Admin) /\ CallRight(at'[Admin], op'[Admin])
    BY <1>5, Contexts, Places, LifetimeAssumption
    DEF FlushEnds, listVars, workVars, hwVars, ctlVars, Move, Append_blist, Pop_blist, Return,
        Returned, IdlePlaces, PopPlaces, AppendPlaces, AppendPcs, PopPcs, HoldPcs, HandlersOut,
        LifeTypes, CallInv, CallRight, ListAt, NoCall, PlacesOf, Calls, By
  <2>2. LifeTypes'
    BY <1>5, Contexts, Places, LifetimeAssumption
    DEF FlushEnds, listVars, workVars, hwVars, ctlVars, Move, Append_blist, Pop_blist, Return,
        Returned, IdlePlaces, PopPlaces, AppendPlaces, AppendPcs, PopPcs, HoldPcs, HandlersOut,
        LifeTypes, CallInv, CallRight, NoCall, PlacesOf
  <2>3. PhaseInv'
    BY <1>5, Contexts, Places, LifetimeAssumption
    DEF FlushEnds, listVars, workVars, hwVars, ctlVars, Move, Append_blist, Pop_blist, Return,
        Returned, HandlersOut, IdlePlaces, PopPlaces, AppendPlaces, LifeTypes, PhaseInv, Still,
        InDriver, PlacesOf, Running, Masked, Above
  <2>4. ReaderInv'
    BY <1>5, Contexts, Places, LifetimeAssumption
    DEF FlushEnds, listVars, workVars, hwVars, ctlVars, Move, Append_blist, Pop_blist, Return,
        Returned, HandlersOut, LifeTypes, ReaderInv, InDriver
  <2> QED
    BY <2>1, <2>2, <2>3, <2>4, CallsInv DEF CtlInv
<1>6. ASSUME Free PROVE Calls(Admin) /\ CtlInv'
  <2>1. Calls(Admin) /\ CallRight(at'[Admin], op'[Admin])
    BY <1>6, Contexts, Places, LifetimeAssumption
    DEF Free, listVars, workVars, hwVars, ctlVars, Move, Append_blist, Pop_blist, Return,
        Returned, IdlePlaces, PopPlaces, AppendPlaces, AppendPcs, PopPcs, HoldPcs, HandlersOut,
        LifeTypes, CallInv, CallRight, ListAt, NoCall, PlacesOf, Calls, By
  <2>2. LifeTypes'
    BY <1>6, Contexts, Places, LifetimeAssumption
    DEF Free, listVars, workVars, hwVars, ctlVars, Move, Append_blist, Pop_blist, Return,
        Returned, IdlePlaces, PopPlaces, AppendPlaces, AppendPcs, PopPcs, HoldPcs, HandlersOut,
        LifeTypes, CallInv, CallRight, NoCall, PlacesOf
  <2>3. PhaseInv'
    BY <1>6, Contexts, Places, LifetimeAssumption
    DEF Free, listVars, workVars, hwVars, ctlVars, Move, Append_blist, Pop_blist, Return,
        Returned, HandlersOut, IdlePlaces, PopPlaces, AppendPlaces, LifeTypes, PhaseInv, Still,
        InDriver, PlacesOf, Running, Masked, Above
  <2>4. ReaderInv'
    BY <1>6, Contexts, Places, LifetimeAssumption
    DEF Free, listVars, workVars, hwVars, ctlVars, Move, Append_blist, Pop_blist, Return,
        Returned, HandlersOut, LifeTypes, ReaderInv, InDriver
  <2> QED
    BY <2>1, <2>2, <2>3, <2>4, CallsInv DEF CtlInv
<1>7. ASSUME FreeNext PROVE Calls(Admin) /\ CtlInv'
  <2>1. Calls(Admin) /\ CallRight(at'[Admin], op'[Admin])
    BY <1>7, Contexts, Places, LifetimeAssumption
    DEF FreeNext, listVars, workVars, hwVars, ctlVars, Move, Append_blist, Pop_blist, Return,
        Returned, IdlePlaces, PopPlaces, AppendPlaces, AppendPcs, PopPcs, HoldPcs, HandlersOut,
        LifeTypes, CallInv, CallRight, ListAt, NoCall, PlacesOf, Calls, By
  <2>2. LifeTypes'
    BY <1>7, Contexts, Places, LifetimeAssumption
    DEF FreeNext, listVars, workVars, hwVars, ctlVars, Move, Append_blist, Pop_blist, Return,
        Returned, IdlePlaces, PopPlaces, AppendPlaces, AppendPcs, PopPcs, HoldPcs, HandlersOut,
        LifeTypes, CallInv, CallRight, NoCall, PlacesOf
  <2>3. PhaseInv'
    BY <1>7, Contexts, Places, LifetimeAssumption
    DEF FreeNext, listVars, workVars, hwVars, ctlVars, Move, Append_blist, Pop_blist, Return,
        Returned, HandlersOut, IdlePlaces, PopPlaces, AppendPlaces, LifeTypes, PhaseInv, Still,
        InDriver, PlacesOf, Running, Masked, Above
  <2>4. ReaderInv'
    BY <1>7, Contexts, Places, LifetimeAssumption
    DEF FreeNext, listVars, workVars, hwVars, ctlVars, Move, Append_blist, Pop_blist, Return,
        Returned, HandlersOut, LifeTypes, ReaderInv, InDriver
  <2> QED
    BY <2>1, <2>2, <2>3, <2>4, CallsInv DEF CtlInv
<1>8. ASSUME Removed PROVE Calls(Admin) /\ CtlInv'
  <2>1. Calls(Admin) /\ CallRight(at'[Admin], op'[Admin])
    BY <1>8, Contexts, Places, LifetimeAssumption
    DEF Removed, listVars, workVars, hwVars, ctlVars, Move, Append_blist, Pop_blist, Return,
        Returned, IdlePlaces, PopPlaces, AppendPlaces, AppendPcs, PopPcs, HoldPcs, HandlersOut,
        LifeTypes, CallInv, CallRight, ListAt, NoCall, PlacesOf, Calls, By
  <2>2. LifeTypes'
    BY <1>8, Contexts, Places, LifetimeAssumption
    DEF Removed, listVars, workVars, hwVars, ctlVars, Move, Append_blist, Pop_blist, Return,
        Returned, IdlePlaces, PopPlaces, AppendPlaces, AppendPcs, PopPcs, HoldPcs, HandlersOut,
        LifeTypes, CallInv, CallRight, NoCall, PlacesOf
  <2>3. PhaseInv'
    BY <1>8, Contexts, Places, LifetimeAssumption
    DEF Removed, listVars, workVars, hwVars, ctlVars, Move, Append_blist, Pop_blist, Return,
        Returned, HandlersOut, IdlePlaces, PopPlaces, AppendPlaces, LifeTypes, PhaseInv, Still,
        InDriver, PlacesOf, Running, Masked, Above
  <2>4. ReaderInv'
    BY <1>8, Contexts, Places, LifetimeAssumption
    DEF Removed, listVars, workVars, hwVars, ctlVars, Move, Append_blist, Pop_blist, Return,
        Returned, HandlersOut, LifeTypes, ReaderInv, InDriver
  <2> QED
    BY <2>1, <2>2, <2>3, <2>4, CallsInv DEF CtlInv
<1> QED
  BY <1>1, <1>2, <1>3, <1>4, <1>5, <1>6, <1>7, <1>8

\* A context in a list function is at a place that calls one, with a list and, where it
\* appends, a buffer.
LEMMA Inside ==
  ASSUME LifeTypes, CallInv, NEW x \in Ctxs, op[x].pc # "none"
  PROVE  /\ op[x].list \in Lists
         /\ op[x].pc \in {"append_lock", "append_next", "append_link", "append_tail"} =>
              at[x] \in AppendPlaces /\ op[x].b \in Buffers
         /\ op[x].pc \in {"pop_lock", "pop_head", "pop_tail", "pop_next"} => at[x] \in PopPlaces
         /\ op[x].pc \in {"pop_tail", "pop_next"} => op[x].b \in Buffers
         /\ op[x].pc \in {"pop_lock", "pop_head"} => op[x].b = NULL
         /\ at[x] \in AppendPlaces <=> at[x] \notin PopPlaces
<1>1. CallRight(at[x], op[x]) /\ at[x] \in IdlePlaces \cup PopPlaces \cup AppendPlaces
  BY DEF LifeTypes, CallInv
<1>2. at[x] \in PopPlaces \cup AppendPlaces
  BY <1>1 DEF CallRight, NoCall
<1>3. op[x].b \in Buffers \cup {NULL}
  BY DEF LifeTypes
<1>4. op[x].list = ListAt(at[x])
  BY <1>1, <1>2 DEF CallRight, NoCall
<1>5. ListAt(at[x]) \in Lists
  BY LifetimeAssumption DEF ListAt
<1>6. at[x] \in AppendPlaces <=> at[x] \notin PopPlaces
  BY <1>2 DEF AppendPlaces, PopPlaces
<1>7. op[x].pc \in {"append_lock", "append_next", "append_link", "append_tail"} =>
        at[x] \in AppendPlaces /\ op[x].b # NULL
  BY <1>1, <1>2, <1>6 DEF CallRight, PopPcs, NoCall
<1>8. op[x].pc \in {"pop_lock", "pop_head", "pop_tail", "pop_next"} => at[x] \in PopPlaces
  BY <1>1, <1>2, <1>6 DEF CallRight, AppendPcs, NoCall
<1> QED
  BY <1>1, <1>3, <1>4, <1>5, <1>6, <1>7, <1>8 DEF CallRight

\* The same for a step inside append_blist or pop_blist, which moves no one in its caller.
LEMMA ListControl ==
  ASSUME CtlInv, NEW x \in Ctxs, InList(x)
  PROVE  By(x) /\ at' = at /\ op'[x].list = op[x].list /\ CtlInv'
<1> USE DEF CtlInv
<1>1. /\ UNCHANGED <<at, alive, lbuffer, num, hwVars, ctlVars>> /\ ListStep(x)
  BY DEF InList, workVars
<1>2. op[x].pc # "none"
  BY <1>1
  DEF ListStep, Lock, Unlock, AppendNext, AppendEmpty, AppendBehind, AppendTail, PopNothing,
      PopHead, PopTail, PopNext
<1>3. op[x].list \in Lists
  BY <1>2, Inside
<1>4. PhaseInv' /\ ReaderInv'
  BY <1>1 DEF hwVars, ctlVars, PhaseInv, ReaderInv, Still, InDriver
<1>5. ASSUME /\ \/ \E pc \in {"none"} \cup AppendPcs \cup PopPcs : op' = [op EXCEPT ![x].pc = pc]
                \/ \E b \in Buffers : op' = [op EXCEPT ![x].pc = "pop_tail", ![x].b = b]
             /\ head' \in [Lists -> Buffers \cup {NULL}] /\ tail' \in [Lists -> Buffers \cup {NULL}]
             /\ nextBuffer' \in [Buffers -> Buffers \cup {NULL}]
             /\ lock' = lock \/ lock' = [lock EXCEPT ![op[x].list] = x] \/ lock' = [lock EXCEPT ![op[x].list] = NULL]
             /\ CallRight(at[x], op'[x])
      PROVE  By(x) /\ op'[x].list = op[x].list /\ LifeTypes' /\ CallInv'
  <2>1. op' \in [Ctxs -> [pc : {"none"} \cup AppendPcs \cup PopPcs, list : Lists \cup {NULL},
                         b : Buffers \cup {NULL}]]
    <3>1. CASE \E pc \in {"none"} \cup AppendPcs \cup PopPcs : op' = [op EXCEPT ![x].pc = pc]
      BY <3>1 DEF LifeTypes
    <3>2. CASE \E b \in Buffers : op' = [op EXCEPT ![x].pc = "pop_tail", ![x].b = b]
      <4>1. PICK b \in Buffers : op' = [op EXCEPT ![x].pc = "pop_tail", ![x].b = b]
        BY <3>2
      <4> DEFINE op1 == [op EXCEPT ![x].pc = "pop_tail"]
      <4>2. op1 \in [Ctxs -> [pc : {"none"} \cup AppendPcs \cup PopPcs, list : Lists \cup {NULL},
                              b : Buffers \cup {NULL}]]
        BY DEF LifeTypes, PopPcs
      <4>3. op' = [op1 EXCEPT ![x].b = b]
        BY <4>1
      <4> HIDE DEF op1
      <4> QED
        BY <4>2, <4>3
    <3> QED
      BY <1>5, <3>1, <3>2
  <2>2. lock' \in [Lists -> Ctxs \cup {NULL}]
    BY <1>5 DEF LifeTypes
  <2>3. By(x) /\ op'[x].list = op[x].list
    BY <1>1, <1>5 DEF By, LifeTypes
  <2>4. LifeTypes'
    BY <1>1, <1>5, <2>1, <2>2 DEF LifeTypes, hwVars, ctlVars
  <2>5. CallInv'
    BY <1>1, <1>5, <2>3 DEF CallInv, By
  <2> QED
    BY <2>3, <2>4, <2>5
<1>6. CallRight(at[x], op[x]) /\ at[x] \in PopPlaces \cup AppendPlaces
  BY <1>2 DEF CallInv, CallRight, NoCall, LifeTypes
<1>7. ASSUME NEW pc, Goto(x, pc), pc # "none",
             at[x] \in PopPlaces => pc \in PopPcs /\ pc \notin {"pop_lock", "pop_tail"} /\ (pc = "pop_head" => op[x].b = NULL) /\ (pc = "pop_next" => op[x].b # NULL),
             at[x] \in AppendPlaces => pc \in AppendPcs
      PROVE  CallRight(at[x], op'[x]) /\ pc \in AppendPcs \cup PopPcs
  <2>1. op'[x].pc = pc /\ op'[x].b = op[x].b /\ op'[x].list = op[x].list
    BY <1>7 DEF Goto, LifeTypes
  <2>2. op[x] # NoCall
    BY <1>2 DEF NoCall
  <2>3. CASE at[x] \in PopPlaces
    <3>1. at[x] \notin IdlePlaces \cup AppendPlaces
      BY <2>3 DEF IdlePlaces, PopPlaces, AppendPlaces
    <3>2. op[x].list = ListAt(at[x])
      BY <1>6, <2>3 DEF CallRight
    <3> QED
      BY <1>7, <2>1, <2>3, <3>1, <3>2 DEF CallRight
  <2>4. CASE at[x] \in AppendPlaces
    <3>1. at[x] \notin IdlePlaces \cup PopPlaces
      BY <2>4 DEF IdlePlaces, PopPlaces, AppendPlaces
    <3>2. op[x].list = ListAt(at[x]) /\ op[x].b # NULL
      BY <1>6, <2>2, <2>4 DEF CallRight
    <3> QED
      BY <1>7, <2>1, <2>4, <3>1, <3>2 DEF CallRight
  <2> QED
    BY <1>6, <2>3, <2>4
<1>10. CASE Lock(x)
  <2>1. Goto(x, IF op[x].pc = "append_lock" THEN "append_next" ELSE "pop_head")
    BY <1>10 DEF Lock
  <2>2. CallRight(at[x], op'[x])
    BY <1>10, <2>1, <1>6, <1>7, Inside DEF Lock, PopPcs, AppendPcs
  <2>3. By(x) /\ op'[x].list = op[x].list /\ LifeTypes' /\ CallInv'
    BY <1>10, <2>1, <2>2, <1>2, <1>3, <1>5, Inside DEF Lock, Goto, LifeTypes, AppendPcs, PopPcs
  <2>4. LockInv'
    BY <1>10, <2>1, <1>3, BlistAssumption DEF LockInv, Lock, Goto, LifeTypes, HoldPcs
  <2> QED
    BY <1>1, <1>4, <2>3, <2>4
<1>11. CASE Unlock(x)
  <2>1. Goto(x, "done")
    BY <1>11 DEF Unlock
  <2>2. CallRight(at[x], op'[x])
    BY <1>11, <2>1, <1>6, <1>7, Inside DEF Unlock, PopPcs, AppendPcs
  <2>3. By(x) /\ op'[x].list = op[x].list /\ LifeTypes' /\ CallInv'
    BY <1>11, <2>1, <2>2, <1>2, <1>3, <1>5, Inside DEF Unlock, Goto, LifeTypes, AppendPcs, PopPcs
  <2>4. LockInv'
    BY <1>11, <2>1, <1>3, BlistAssumption DEF LockInv, Unlock, Goto, LifeTypes, HoldPcs
  <2> QED
    BY <1>1, <1>4, <2>3, <2>4
<1>12. CASE AppendNext(x)
  <2>1. Goto(x, "append_link")
    BY <1>12 DEF AppendNext
  <2>2. CallRight(at[x], op'[x])
    BY <1>12, <2>1, <1>6, <1>7, Inside DEF AppendNext, PopPcs, AppendPcs
  <2>3. By(x) /\ op'[x].list = op[x].list /\ LifeTypes' /\ CallInv'
    BY <1>12, <2>1, <2>2, <1>2, <1>3, <1>5, Inside
    DEF AppendNext, Goto, LifeTypes, AppendPcs, PopPcs
  <2>4. LockInv'
    BY <1>12, <2>1, <1>3, BlistAssumption DEF LockInv, AppendNext, Goto, LifeTypes, HoldPcs
  <2> QED
    BY <1>1, <1>4, <2>3, <2>4
<1>13. CASE AppendEmpty(x)
  <2>1. Goto(x, "append_tail")
    BY <1>13 DEF AppendEmpty
  <2>2. CallRight(at[x], op'[x])
    BY <1>13, <2>1, <1>6, <1>7, Inside DEF AppendEmpty, PopPcs, AppendPcs
  <2>3. By(x) /\ op'[x].list = op[x].list /\ LifeTypes' /\ CallInv'
    BY <1>13, <2>1, <2>2, <1>2, <1>3, <1>5, Inside
    DEF AppendEmpty, Goto, LifeTypes, AppendPcs, PopPcs
  <2>4. LockInv'
    BY <1>13, <2>1, <1>3, BlistAssumption DEF LockInv, AppendEmpty, Goto, LifeTypes, HoldPcs
  <2> QED
    BY <1>1, <1>4, <2>3, <2>4
<1>14. CASE AppendBehind(x)
  <2>1. Goto(x, "append_tail")
    BY <1>14 DEF AppendBehind
  <2>2. CallRight(at[x], op'[x])
    BY <1>14, <2>1, <1>6, <1>7, Inside DEF AppendBehind, PopPcs, AppendPcs
  <2>3. By(x) /\ op'[x].list = op[x].list /\ LifeTypes' /\ CallInv'
    BY <1>14, <2>1, <2>2, <1>2, <1>3, <1>5, Inside
    DEF AppendBehind, Goto, LifeTypes, AppendPcs, PopPcs
  <2>4. LockInv'
    BY <1>14, <2>1, <1>3, BlistAssumption DEF LockInv, AppendBehind, Goto, LifeTypes, HoldPcs
  <2> QED
    BY <1>1, <1>4, <2>3, <2>4
<1>15. CASE AppendTail(x)
  <2>1. Goto(x, "unlock")
    BY <1>15 DEF AppendTail
  <2>2. CallRight(at[x], op'[x])
    BY <1>15, <2>1, <1>6, <1>7, Inside DEF AppendTail, PopPcs, AppendPcs
  <2>3. By(x) /\ op'[x].list = op[x].list /\ LifeTypes' /\ CallInv'
    BY <1>15, <2>1, <2>2, <1>2, <1>3, <1>5, Inside
    DEF AppendTail, Goto, LifeTypes, AppendPcs, PopPcs
  <2>4. LockInv'
    BY <1>15, <2>1, <1>3, BlistAssumption DEF LockInv, AppendTail, Goto, LifeTypes, HoldPcs
  <2> QED
    BY <1>1, <1>4, <2>3, <2>4
<1>16. CASE PopNothing(x)
  <2>1. Goto(x, "unlock")
    BY <1>16 DEF PopNothing
  <2>2. CallRight(at[x], op'[x])
    BY <1>16, <2>1, <1>6, <1>7, Inside DEF PopNothing, PopPcs, AppendPcs
  <2>3. By(x) /\ op'[x].list = op[x].list /\ LifeTypes' /\ CallInv'
    BY <1>16, <2>1, <2>2, <1>2, <1>3, <1>5, Inside
    DEF PopNothing, Goto, LifeTypes, AppendPcs, PopPcs
  <2>4. LockInv'
    BY <1>16, <2>1, <1>3, BlistAssumption DEF LockInv, PopNothing, Goto, LifeTypes, HoldPcs
  <2> QED
    BY <1>1, <1>4, <2>3, <2>4
<1>17. CASE PopTail(x)
  <2>1. Goto(x, "pop_next")
    BY <1>17 DEF PopTail
  <2>2. CallRight(at[x], op'[x])
    BY <1>17, <2>1, <1>6, <1>7, Inside, BlistAssumption DEF PopTail, PopPcs, AppendPcs
  <2>3. By(x) /\ op'[x].list = op[x].list /\ LifeTypes' /\ CallInv'
    BY <1>17, <2>1, <2>2, <1>2, <1>3, <1>5, Inside DEF PopTail, Goto, LifeTypes, AppendPcs, PopPcs
  <2>4. LockInv'
    BY <1>17, <2>1, <1>3, BlistAssumption DEF LockInv, PopTail, Goto, LifeTypes, HoldPcs
  <2> QED
    BY <1>1, <1>4, <2>3, <2>4
<1>18. CASE PopNext(x)
  <2>1. Goto(x, "unlock")
    BY <1>18 DEF PopNext
  <2>2. CallRight(at[x], op'[x])
    BY <1>18, <2>1, <1>6, <1>7, Inside DEF PopNext, PopPcs, AppendPcs
  <2>3. By(x) /\ op'[x].list = op[x].list /\ LifeTypes' /\ CallInv'
    BY <1>18, <2>1, <2>2, <1>2, <1>3, <1>5, Inside DEF PopNext, Goto, LifeTypes, AppendPcs, PopPcs
  <2>4. LockInv'
    BY <1>18, <2>1, <1>3, BlistAssumption DEF LockInv, PopNext, Goto, LifeTypes, HoldPcs
  <2> QED
    BY <1>1, <1>4, <2>3, <2>4
<1>19. CASE PopHead(x)
  <2> DEFINE ret == head[op[x].list]
  <2>1. /\ op[x].pc = "pop_head" /\ ret \in Buffers /\ head' = [head EXCEPT ![op[x].list] = nextBuffer[ret]]
        /\ op' = [op EXCEPT ![x].pc = "pop_tail", ![x].b = ret] /\ UNCHANGED <<tail, nextBuffer, lock>>
    BY <1>19, <1>3 DEF PopHead, LifeTypes
  <2> HIDE DEF ret
  <2>2. op'[x].pc = "pop_tail" /\ op'[x].b = ret /\ op'[x].list = op[x].list
    BY <2>1 DEF LifeTypes
  <2>3. CallRight(at[x], op'[x])
    <3>1. at[x] \in PopPlaces /\ op[x].list = ListAt(at[x])
      BY <2>1, <1>2, <1>6, Inside DEF CallRight
    <3> QED
      BY <2>1, <2>2, <3>1, BlistAssumption
      DEF CallRight, IdlePlaces, PopPlaces, AppendPlaces, PopPcs
  <2>4. By(x) /\ op'[x].list = op[x].list /\ LifeTypes' /\ CallInv'
    BY <2>1, <2>3, <1>3, <1>5 DEF LifeTypes
  <2>5. LockInv'
    BY <2>1, <1>3, BlistAssumption DEF LockInv, LifeTypes, HoldPcs
  <2> QED
    BY <1>1, <1>4, <2>4, <2>5
<1> QED
  BY <1>1, <1>10, <1>11, <1>12, <1>13, <1>14, <1>15, <1>16, <1>17, <1>18, <1>19 DEF ListStep

-----------------------------------------------------------------------------
(* Who has a buffer after a step                                           *)

\* A step that is not inside a critical section changes no list.
LEMMA CallsLists ==
  ASSUME CtlInv, ChainInv, TailInv, NEW x, Calls(x)
  PROVE  /\ \A l \in Lists : Chain(l)' = Chain(l)
         /\ ChainInv' /\ TailInv'
         /\ \A y \in Ctxs \ {x} : Held(y)' = Held(y)
<1>1. \A l \in Lists : Chain(l)' = Chain(l)
  BY DEF Calls, Chain
<1>2. ChainInv'
  BY <1>1 DEF ChainInv, Calls
<1>3. \A y \in Ctxs \ {x} : Held(y)' = Held(y) /\ op'[y] = op[y] /\ at'[y] = at[y]
  BY DEF Calls, By, Held
<1>4. \A l \in Lists : TailRight(l)' <=> TailRight(l)
  BY <1>1 DEF TailRight, Calls
<1>5. ASSUME NEW l \in Lists PROVE TailRight(l)' \/ Lags(l)'
  <2>1. TailRight(l) \/ Lags(l)
    BY DEF TailInv
  <2>2. lock'[l] = lock[l]
    BY DEF Calls
  <2>3. lock[l] # NULL => lock[l] # x /\ lock[l] \in Ctxs
    BY DEF CtlInv, LockInv, Calls, LifeTypes
  <2> QED
    BY <1>3, <1>4, <2>1, <2>2, <2>3 DEF Lags
<1>6. ASSUME NEW y \in Ctxs PROVE Knows(y)'
  <2>1. CASE y = x
    BY <2>1 DEF Calls, HoldPcs, Knows
  <2>2. CASE y # x
    <3>1. op'[y] = op[y] /\ at'[y] = at[y] /\ nextBuffer' = nextBuffer
      BY <1>3, <2>2 DEF Calls
    <3>2. op[y].pc # "none" => op[y].list \in Lists
      BY Inside DEF CtlInv
    <3> QED
      BY <1>1, <1>4, <3>1, <3>2 DEF TailInv, Knows
  <2> QED
    BY <2>1, <2>2
<1>7. TailInv'
  BY <1>5, <1>6 DEF TailInv
<1> QED
  BY <1>1, <1>2, <1>3, <1>7

\* No list changes.
SameLists == \A l \in Lists : Chain(l)' = Chain(l)

\* Nothing changes hands.
LEMMA OwnSame ==
  ASSUME OwnInv, AliveInv, SameLists, alive' = alive,
         \A x \in Ctxs : Held(x)' = Held(x), \A c \in Cpus : Kept(c)' = Kept(c)
  PROVE  OwnInv' /\ AliveInv'
BY DEF OwnInv, AliveInv, SameLists

\* A CPU's buffer goes to a context that had none.
LEMMA OwnGive ==
  ASSUME LifeTypes, OwnInv, AliveInv, SameLists, alive' = alive, NEW x \in Ctxs, NEW c \in Cpus,
         \A y \in Ctxs \ {x} : Held(y)' = Held(y), \A d \in Cpus \ {c} : Kept(d)' = Kept(d),
         Held(x) = NULL, Held(x)' = Kept(c), Kept(c)' = NULL, ChainInv
  PROVE  OwnInv' /\ AliveInv'
<1>1. OwnInv'
  BY FirstOf DEF OwnInv, SameLists, ChainInv
<1>2. AliveInv'
  BY DEF AliveInv, SameLists, LifeTypes
<1> QED
  BY <1>1, <1>2

\* A CPU takes over the buffer of a context.
LEMMA OwnTake ==
  ASSUME LifeTypes, ChainInv, OwnInv, AliveInv, SameLists, alive' = alive,
         NEW x \in Ctxs, NEW c \in Cpus,
         \A y \in Ctxs \ {x} : Held(y)' = Held(y), \A d \in Cpus \ {c} : Kept(d)' = Kept(d),
         Kept(c) = NULL, Kept(c)' = Held(x), Held(x)' = NULL
  PROVE  OwnInv' /\ AliveInv'
<1>1. OwnInv'
  BY FirstOf DEF OwnInv, SameLists, ChainInv
<1>2. AliveInv'
  BY DEF AliveInv, SameLists, LifeTypes
<1> QED
  BY <1>1, <1>2

\* A context gets a new buffer.
LEMMA OwnNew ==
  ASSUME LifeTypes, ChainInv, OwnInv, AliveInv, SameLists, NEW b \in Buffers \ alive,
         alive' = alive \cup {b}, NEW x \in Ctxs, \A y \in Ctxs \ {x} : Held(y)' = Held(y),
         \A c \in Cpus : Kept(c)' = Kept(c), Held(x) = NULL, Held(x)' = b
  PROVE  OwnInv' /\ AliveInv'
<1>1. OwnInv'
  BY FirstOf DEF OwnInv, AliveInv, SameLists, ChainInv
<1>2. AliveInv'
  BY BlistAssumption DEF AliveInv, SameLists, LifeTypes
<1> QED
  BY <1>1, <1>2

\* A context frees its buffer.
LEMMA OwnFree ==
  ASSUME LifeTypes, ChainInv, OwnInv, AliveInv, SameLists, NEW x \in Ctxs,
         Held(x) # NULL, alive' = alive \ {Held(x)}, \A y \in Ctxs \ {x} : Held(y)' = Held(y),
         \A c \in Cpus : Kept(c)' = Kept(c), Held(x)' = NULL
  PROVE  OwnInv' /\ AliveInv'
<1>1. OwnInv'
  BY FirstOf DEF OwnInv, SameLists, ChainInv
<1>2. \A l \in Lists : ToSet(Chain(l))' = ToSet(Chain(l))
  BY DEF SameLists
<1>3. \A y \in Ctxs : Held(y)' # NULL => Held(y)' \in alive'
  BY DEF AliveInv, OwnInv
<1>4. \A c \in Cpus : Kept(c)' # NULL => Kept(c)' \in alive'
  BY DEF AliveInv, OwnInv
<1>5. \A l \in Lists : ToSet(Chain(l))' \subseteq alive'
  BY <1>2 DEF AliveInv, OwnInv
<1>6. ASSUME NEW b \in alive'
      PROVE  \/ \E y \in Ctxs : Held(y)' = b
             \/ \E c \in Cpus : Kept(c)' = b
             \/ \E l \in Lists : b \in ToSet(Chain(l))'
  <2>1. b \in alive /\ b # Held(x)
    OBVIOUS
  <2>2. CASE \E y \in Ctxs : Held(y) = b
    BY <2>1, <2>2
  <2>3. CASE \E c \in Cpus : Kept(c) = b
    BY <2>3
  <2>4. CASE \E l \in Lists : b \in ToSet(Chain(l))
    BY <2>4, <1>2
  <2> QED
    BY <2>1, <2>2, <2>3, <2>4 DEF AliveInv
<1>7. AliveInv'
  BY <1>3, <1>4, <1>5, <1>6 DEF AliveInv
<1> QED
  BY <1>1, <1>7

\* A context puts its buffer in a list.
LEMMA OwnPut ==
  ASSUME LifeTypes, ChainInv, OwnInv, AliveInv, alive' = alive, NEW x \in Ctxs, NEW l \in Lists,
         Held(x) # NULL, Held(x)' = NULL, \A y \in Ctxs \ {x} : Held(y)' = Held(y),
         \A c \in Cpus : Kept(c)' = Kept(c),
         \A k \in Lists \ {l} : Chain(k)' = Chain(k),
         ToSet(Chain(l))' = ToSet(Chain(l)) \cup {Held(x)}
  PROVE  OwnInv' /\ AliveInv'
<1>1. \A k \in Lists \ {l} : ToSet(Chain(k))' = ToSet(Chain(k))
  OBVIOUS
<1>2. \A k \in Lists : NULL \notin ToSet(Chain(k))
  BY FirstOf DEF ChainInv
<1>3. OwnInv'
  BY <1>1, <1>2 DEF OwnInv
<1>4. AliveInv'
  BY <1>1 DEF AliveInv
<1> QED
  BY <1>3, <1>4

\* A context takes a buffer from a list.
LEMMA OwnPop ==
  ASSUME LifeTypes, ChainInv, OwnInv, AliveInv, alive' = alive, NEW x \in Ctxs, NEW l \in Lists,
         Held(x) = NULL, NEW b \in ToSet(Chain(l)), Held(x)' = b,
         \A y \in Ctxs \ {x} : Held(y)' = Held(y), \A c \in Cpus : Kept(c)' = Kept(c),
         \A k \in Lists \ {l} : Chain(k)' = Chain(k),
         ToSet(Chain(l))' = ToSet(Chain(l)) \ {b}
  PROVE  OwnInv' /\ AliveInv'
<1>1. \A k \in Lists \ {l} : ToSet(Chain(k))' = ToSet(Chain(k))
  OBVIOUS
<1>2. \A k \in Lists : NULL \notin ToSet(Chain(k))
  BY FirstOf DEF ChainInv
<1>3. OwnInv'
  BY <1>1, <1>2 DEF OwnInv
<1>4. \A y \in Ctxs : Held(y)' # NULL => Held(y)' \in alive
  BY DEF AliveInv
<1>5. \A k \in Lists : ToSet(Chain(k))' \subseteq alive
  BY <1>1 DEF AliveInv
<1>6. ASSUME NEW d \in alive
      PROVE  \/ \E y \in Ctxs : Held(y)' = d
             \/ \E c \in Cpus : Kept(c)' = d
             \/ \E k \in Lists : d \in ToSet(Chain(k))'
  <2>1. CASE d = b
    BY <2>1
  <2>2. CASE d # b /\ \E y \in Ctxs : Held(y) = d
    BY <2>2, BlistAssumption DEF LifeTypes
  <2>3. CASE d # b /\ \E c \in Cpus : Kept(c) = d
    BY <2>3
  <2>4. CASE d # b /\ \E k \in Lists : d \in ToSet(Chain(k))
    BY <2>4, <1>1
  <2> QED
    BY <2>1, <2>2, <2>3, <2>4 DEF AliveInv
<1>7. AliveInv'
  BY <1>4, <1>5, <1>6 DEF AliveInv
<1> QED
  BY <1>3, <1>7

\* Steps of other contexts do not disturb what the end of cleanup_module relies on.
LEMMA NotAdmin ==
  ASSUME CtlInv, MadeInv, EmptyInv, SameLists, alive' = alive, made' = made, NEW x, By(x), x # Admin
  PROVE  MadeInv' /\ EmptyInv'
<1>1. at'[Admin] = at[Admin] /\ op'[Admin] = op[Admin]
  BY Contexts DEF By
<1>2. Chain("empty")' = Chain("empty") /\ Chain("full")' = Chain("full")
  BY LifetimeAssumption DEF SameLists
<1> QED
  BY <1>1, <1>2 DEF MadeInv, EmptyInv

-----------------------------------------------------------------------------
(* Interrupts and readers change no list                                   *)

\* The part of the invariant about the lists and whose the buffers are.
ListsInv == ChainInv /\ TailInv /\ HandInv /\ OwnInv /\ AliveInv /\ MadeInv /\ EmptyInv

\* What a step of one context leaves alone.
LEMMA KeptFrame ==
  ASSUME NEW x, By(x)
  PROVE  /\ x # Admin => at'[Admin] = at[Admin] /\ op'[Admin] = op[Admin]
         /\ \A c \in Cpus : x \notin {Irq(c), Ipi(c)} =>
              at'[Irq(c)] = at[Irq(c)] /\ at'[Ipi(c)] = at[Ipi(c)]
         /\ \A c \in Cpus : x \notin {Irq(c), Ipi(c), Admin} /\ lbuffer'[c] = lbuffer[c]
                              => Kept(c)' = Kept(c)
BY Contexts DEF By, Kept, Away

\* The PMU interrupt hands buffers from the pool to the CPU and from the CPU to the readers.
LEMMA IrqLists ==
  ASSUME CtlInv, ListsInv
  PROVE  /\ \A c \in Cpus : Interrupt(c) => ListsInv'
         /\ \A c \in Cpus : Unexplained(c) => ListsInv'
         /\ \A c \in Cpus : NeedsBuffer(c) => ListsInv'
         /\ \A c \in Cpus : NewBuffer(c) => ListsInv'
         /\ \A c \in Cpus : Missed(c) => ListsInv'
         /\ \A c \in Cpus : Sample(c) => ListsInv'
         /\ \A c \in Cpus : Published(c) => ListsInv'
<1> USE DEF CtlInv, ListsInv
<1>1. ASSUME NEW c \in Cpus, Interrupt(c) PROVE ListsInv'
  <2>1. Calls(Irq(c)) /\ Irq(c) \in Ctxs /\ Irq(c) # Admin
    BY <1>1, IrqControl, Contexts DEF CtlInv
  <2>2. /\ SameLists /\ ChainInv' /\ TailInv'
        /\ \A y \in Ctxs \ {Irq(c)} : Held(y)' = Held(y)
    BY <2>1, CallsLists DEF SameLists
  <2>3. alive' = alive /\ made' = made
    BY <1>1 DEF Interrupt, workVars, ctlVars
  <2>4. Held(Irq(c))' = Held(Irq(c))
    <3>1. op[Irq(c)] = NoCall /\ op' = op /\ at[Irq(c)] = "out" /\ Irq(c) \in Ctxs
      BY <1>1, Contexts DEF Interrupt, Taken, CallInv, CallRight, InDriver, IdlePlaces, listVars
    <3>2. at'[Irq(c)] = "gather"
      BY <1>1, <3>1 DEF Interrupt, Move, LifeTypes
    <3> QED
      BY <3>1, <3>2 DEF Held, NoCall, PopPlaces
  <2>5. \A d \in Cpus : Kept(d)' = Kept(d)
    <3>1. \A d \in Cpus \ {c} : Kept(d)' = Kept(d)
      BY <1>1, <2>1, KeptFrame, Contexts DEF Calls, Interrupt, workVars, LifeTypes
    <3>2. Kept(c)' = Kept(c)
      BY <1>1, <2>1, KeptFrame, Contexts, Places
      DEF Interrupt, Taken, Move, Append_blist, Pop_blist, Return, Returned, listVars, workVars, Calls,
          Kept, Away, HandInv, PhaseInv, InDriver, IdlePlaces, PopPlaces, AppendPlaces, PopPcs,
          LifeTypes, CallInv, CallRight, NoCall, PlacesOf
    <3> QED
      BY <3>1, <3>2
  <2>6. OwnInv' /\ AliveInv'
    BY <2>2, <2>3, <2>4, <2>5, OwnSame
  <2>7. HandInv'
    BY <1>1, <2>1, KeptFrame, Contexts, Places
    DEF Interrupt, Taken, Move, Append_blist, Pop_blist, Return, Returned, listVars, workVars, Calls,
        HandInv, PhaseInv, InDriver, LifeTypes, PlacesOf
  <2> QED
    BY <2>1, <2>2, <2>3, <2>6, <2>7, NotAdmin DEF Calls
<1>2. ASSUME NEW c \in Cpus, NeedsBuffer(c) PROVE ListsInv'
  <2>1. Calls(Irq(c)) /\ Irq(c) \in Ctxs /\ Irq(c) # Admin
    BY <1>2, IrqControl, Contexts DEF CtlInv
  <2>2. /\ SameLists /\ ChainInv' /\ TailInv'
        /\ \A y \in Ctxs \ {Irq(c)} : Held(y)' = Held(y)
    BY <2>1, CallsLists DEF SameLists
  <2>3. alive' = alive /\ made' = made
    BY <1>2 DEF NeedsBuffer, workVars, ctlVars
  <2>4. Held(Irq(c)) = NULL /\ Held(Irq(c))' = NULL
    BY <1>2, Contexts, Places
    DEF NeedsBuffer, Move, Append_blist, Pop_blist, Return, Returned, listVars, workVars, Held,
        IdlePlaces, PopPlaces, AppendPlaces, PopPcs, LifeTypes, CallInv, CallRight, NoCall,
        PlacesOf
  <2>5. \A d \in Cpus : Kept(d)' = Kept(d)
    <3>1. \A d \in Cpus \ {c} : Kept(d)' = Kept(d)
      BY <1>2, <2>1, KeptFrame, Contexts DEF Calls, NeedsBuffer, workVars, LifeTypes
    <3>2. Kept(c)' = Kept(c)
      BY <1>2, <2>1, KeptFrame, Contexts, Places
      DEF NeedsBuffer, Move, Append_blist, Pop_blist, Return, Returned, listVars, workVars, Calls,
          Kept, Away, HandInv, PhaseInv, InDriver, IdlePlaces, PopPlaces, AppendPlaces, PopPcs,
          LifeTypes, CallInv, CallRight, NoCall, PlacesOf
    <3> QED
      BY <3>1, <3>2
  <2>6. OwnInv' /\ AliveInv'
    BY <2>2, <2>3, <2>4, <2>5, OwnSame
  <2>7. HandInv'
    BY <1>2, <2>1, KeptFrame, Contexts, Places
    DEF NeedsBuffer, Move, Append_blist, Pop_blist, Return, Returned, listVars, workVars, Calls,
        HandInv, PhaseInv, InDriver, LifeTypes, PlacesOf
  <2> QED
    BY <2>1, <2>2, <2>3, <2>6, <2>7, NotAdmin DEF Calls
<1>3. ASSUME NEW c \in Cpus, NewBuffer(c) PROVE ListsInv'
  <2>1. Calls(Irq(c)) /\ Irq(c) \in Ctxs /\ Irq(c) # Admin
    BY <1>3, IrqControl, Contexts DEF CtlInv
  <2>2. /\ SameLists /\ ChainInv' /\ TailInv'
        /\ \A y \in Ctxs \ {Irq(c)} : Held(y)' = Held(y)
    BY <2>1, CallsLists DEF SameLists
  <2>3. alive' = alive /\ made' = made
    BY <1>3 DEF NewBuffer, workVars, ctlVars
  <2>4. Kept(c) = NULL /\ Held(Irq(c)) = op[Irq(c)].b /\ Held(Irq(c))' = NULL
    <3>1. at[Irq(c)] = "popped" /\ lbuffer[c] = NULL
      BY <1>3 DEF NewBuffer, HandInv
    <3>2. at'[Irq(c)] = "gather" /\ op'[Irq(c)] = NoCall
      BY <1>3, <2>1 DEF NewBuffer, Move, Return, LifeTypes
    <3> QED
      BY <3>1, <3>2 DEF Kept, Held, PopPlaces, NoCall
  <2>5. Kept(c)' = Held(Irq(c)) /\ \A d \in Cpus \ {c} : Kept(d)' = Kept(d)
    <3>1. \A d \in Cpus \ {c} : Kept(d)' = Kept(d)
      BY <1>3, <2>1, KeptFrame, Contexts DEF Calls, NewBuffer, LifeTypes
    <3>2. lbuffer'[c] = Held(Irq(c))
      BY <1>3, <2>4 DEF NewBuffer, LifeTypes
    <3>3. at'[Irq(c)] = "gather" /\ at'[Ipi(c)] # "giving" /\ at'[Admin] # "flushing"
      BY <1>3, <2>1, KeptFrame, Contexts, Places
      DEF NewBuffer, Move, Calls, PhaseInv, InDriver, LifeTypes, PlacesOf
    <3> QED
      BY <3>1, <3>2, <3>3 DEF Kept, Away
  <2>6. OwnInv' /\ AliveInv'
    BY <2>2, <2>3, <2>4, <2>5, Contexts, OwnTake
  <2>7. HandInv'
    <3>1. /\ lbuffer' = [lbuffer EXCEPT ![c] = Held(Irq(c))] /\ Held(Irq(c)) # NULL
          /\ at[Irq(c)] = "popped"
      BY <1>3, <2>4 DEF NewBuffer
    <3>2. Held(Irq(c)) \in alive
      BY <2>1, <3>1 DEF AliveInv
    <3>3. at'[Irq(c)] = "gather" /\ at'[Ipi(c)] # "giving" /\ at'[Admin] # "flushing"
      BY <1>3, <2>1, KeptFrame, Contexts, Places
      DEF NewBuffer, Move, Calls, PhaseInv, InDriver, LifeTypes, PlacesOf
    <3>4. \A d \in Cpus \ {c} : /\ at'[Irq(d)] = at[Irq(d)] /\ at'[Ipi(d)] = at[Ipi(d)]
                                /\ op'[Irq(d)] = op[Irq(d)] /\ op'[Ipi(d)] = op[Ipi(d)]
      BY <2>1, Contexts DEF Calls, By
    <3> QED
      BY <2>3, <3>1, <3>2, <3>3, <3>4 DEF HandInv, LifeTypes
  <2> QED
    BY <2>1, <2>2, <2>3, <2>6, <2>7, NotAdmin DEF Calls
<1>4. ASSUME NEW c \in Cpus, Missed(c) PROVE ListsInv'
  <2>1. Calls(Irq(c)) /\ Irq(c) \in Ctxs /\ Irq(c) # Admin
    BY <1>4, IrqControl, Contexts DEF CtlInv
  <2>2. /\ SameLists /\ ChainInv' /\ TailInv'
        /\ \A y \in Ctxs \ {Irq(c)} : Held(y)' = Held(y)
    BY <2>1, CallsLists DEF SameLists
  <2>3. alive' = alive /\ made' = made
    BY <1>4 DEF Missed, workVars, ctlVars
  <2>4. Held(Irq(c)) = NULL /\ Held(Irq(c))' = NULL
    BY <1>4, Contexts, Places
    DEF Missed, Move, Append_blist, Pop_blist, Return, Returned, listVars, workVars, Leave, Held,
        IdlePlaces, PopPlaces, AppendPlaces, PopPcs, LifeTypes, CallInv, CallRight, NoCall,
        PlacesOf
  <2>5. \A d \in Cpus : Kept(d)' = Kept(d)
    <3>1. \A d \in Cpus \ {c} : Kept(d)' = Kept(d)
      BY <1>4, <2>1, KeptFrame, Contexts DEF Calls, Missed, workVars, LifeTypes
    <3>2. Kept(c)' = Kept(c)
      BY <1>4, <2>1, KeptFrame, Contexts, Places
      DEF Missed, Move, Append_blist, Pop_blist, Return, Returned, listVars, workVars, Leave,
          Calls, Kept, Away, HandInv, PhaseInv, InDriver, IdlePlaces, PopPlaces, AppendPlaces,
          PopPcs, LifeTypes, CallInv, CallRight, NoCall, PlacesOf
    <3> QED
      BY <3>1, <3>2
  <2>6. OwnInv' /\ AliveInv'
    BY <2>2, <2>3, <2>4, <2>5, OwnSame
  <2>7. HandInv'
    BY <1>4, <2>1, KeptFrame, Contexts, Places
    DEF Missed, Move, Append_blist, Pop_blist, Return, Returned, listVars, workVars, Leave, Calls,
        HandInv, PhaseInv, InDriver, LifeTypes, PlacesOf
  <2> QED
    BY <2>1, <2>2, <2>3, <2>6, <2>7, NotAdmin DEF Calls
<1>5. ASSUME NEW c \in Cpus, Sample(c) PROVE ListsInv'
  <2>1. Calls(Irq(c)) /\ Irq(c) \in Ctxs /\ Irq(c) # Admin
    BY <1>5, IrqControl, Contexts DEF CtlInv
  <2>2. /\ SameLists /\ ChainInv' /\ TailInv'
        /\ \A y \in Ctxs \ {Irq(c)} : Held(y)' = Held(y)
    BY <2>1, CallsLists DEF SameLists
  <2>3. alive' = alive /\ made' = made
    BY <1>5 DEF Sample, workVars, ctlVars
  <2>4. \A d \in Cpus \ {c} : Kept(d)' = Kept(d)
    BY <1>5, <2>1, KeptFrame, Contexts DEF Calls, Sample, workVars, LifeTypes
  <2>5. ASSUME num'[lbuffer[c]] >= BufferEntries PROVE OwnInv' /\ AliveInv'
    <3>1. Held(Irq(c)) = NULL /\ Held(Irq(c))' = lbuffer[c]
      BY <1>5, <2>1, <2>5, Contexts, Places
      DEF Sample, Move, Append_blist, Held, CallInv, CallRight, LifeTypes, IdlePlaces, PopPlaces,
          NoCall, PlacesOf, Masked, InDriver
    <3>2. at'[Irq(c)] = "appended" /\ lbuffer' = lbuffer
      BY <1>5, <2>1, <2>5 DEF Sample, Move, LifeTypes
    <3>3. Kept(c) = lbuffer[c] /\ Kept(c)' = NULL
      <4>1. Kept(c)' = NULL
        BY <3>2 DEF Kept, Away
      <4>2. at[Irq(c)] # "appended" /\ at[Ipi(c)] # "giving" /\ at[Admin] # "flushing"
        BY <1>5, Contexts DEF Sample, PhaseInv, InDriver, Masked
      <4> QED
        BY <4>1, <4>2 DEF Kept, Away
    <3>4. Held(Irq(c))' = Kept(c) /\ Kept(c)' = NULL /\ Held(Irq(c)) = NULL
      BY <3>1, <3>3
    <3> QED
      BY <2>1, <2>2, <2>3, <2>4, <3>4, OwnGive
  <2>6. ASSUME ~(num'[lbuffer[c]] >= BufferEntries) PROVE OwnInv' /\ AliveInv'
    <3>1. Held(Irq(c)) = NULL /\ Held(Irq(c))' = NULL
      BY <1>5, <2>1, <2>6, Contexts, Places
      DEF Sample, Move, Leave, Held, CallInv, CallRight, LifeTypes, IdlePlaces, PopPlaces,
          NoCall, PlacesOf, Masked, InDriver
    <3>2. at'[Irq(c)] = "out" /\ lbuffer' = lbuffer
      BY <1>5, <2>1, <2>6 DEF Sample, Leave, Move, LifeTypes
    <3>3. Kept(c)' = Kept(c)
      <4>1. at[Irq(c)] # "appended" /\ at[Ipi(c)] # "giving" /\ at[Admin] # "flushing"
        BY <1>5, Contexts DEF Sample, PhaseInv, InDriver, Masked
      <4>2. at'[Irq(c)] # "appended" /\ at'[Ipi(c)] # "giving" /\ at'[Admin] # "flushing"
        BY <2>1, <3>2, <4>1, Contexts DEF Calls, By
      <4> QED
        BY <3>2, <4>1, <4>2 DEF Kept, Away
    <3>4. /\ \A y \in Ctxs : Held(y)' = Held(y)
          /\ \A d \in Cpus : Kept(d)' = Kept(d)
      BY <2>2, <2>4, <3>1, <3>3
    <3> QED
      BY <2>2, <2>3, <3>4, OwnSame
  <2>8. OwnInv' /\ AliveInv'
    BY <2>5, <2>6
  <2>7. HandInv'
    BY <1>5, <2>1, KeptFrame, Contexts, Places
    DEF Sample, Move, Append_blist, Pop_blist, Return, Returned, listVars, workVars, Leave, Calls,
        HandInv, PhaseInv, InDriver, LifeTypes, PlacesOf
  <2> QED
    BY <2>1, <2>2, <2>3, <2>8, <2>7, NotAdmin DEF Calls
<1>6. ASSUME NEW c \in Cpus, Published(c) PROVE ListsInv'
  <2>1. Calls(Irq(c)) /\ Irq(c) \in Ctxs /\ Irq(c) # Admin
    BY <1>6, IrqControl, Contexts DEF CtlInv
  <2>2. /\ SameLists /\ ChainInv' /\ TailInv'
        /\ \A y \in Ctxs \ {Irq(c)} : Held(y)' = Held(y)
    BY <2>1, CallsLists DEF SameLists
  <2>3. alive' = alive /\ made' = made
    BY <1>6 DEF Published, workVars, ctlVars
  <2>4. Held(Irq(c)) = NULL /\ Held(Irq(c))' = NULL
    BY <1>6, Contexts, Places
    DEF Published, Move, Append_blist, Pop_blist, Return, Returned, listVars, workVars, Leave,
        Held, IdlePlaces, PopPlaces, AppendPlaces, PopPcs, LifeTypes, CallInv, CallRight, NoCall,
        PlacesOf
  <2>5. \A d \in Cpus : Kept(d)' = Kept(d)
    <3>1. \A d \in Cpus \ {c} : Kept(d)' = Kept(d)
      BY <1>6, <2>1, KeptFrame, Contexts DEF Calls, Published, workVars, LifeTypes
    <3>2. Kept(c)' = Kept(c)
      BY <1>6, <2>1, KeptFrame, Contexts, Places
      DEF Published, Move, Append_blist, Pop_blist, Return, Returned, listVars, workVars, Leave,
          Calls, Kept, Away, HandInv, PhaseInv, InDriver, IdlePlaces, PopPlaces, AppendPlaces,
          PopPcs, LifeTypes, CallInv, CallRight, NoCall, PlacesOf
    <3> QED
      BY <3>1, <3>2
  <2>6. OwnInv' /\ AliveInv'
    BY <2>2, <2>3, <2>4, <2>5, OwnSame
  <2>7. HandInv'
    BY <1>6, <2>1, KeptFrame, Contexts, Places
    DEF Published, Move, Append_blist, Pop_blist, Return, Returned, listVars, workVars, Leave,
        Calls, HandInv, PhaseInv, InDriver, LifeTypes, PlacesOf
  <2> QED
    BY <2>1, <2>2, <2>3, <2>6, <2>7, NotAdmin DEF Calls
<1>7. ASSUME NEW c \in Cpus, Unexplained(c) PROVE ListsInv'
  <2>1. Calls(Irq(c)) /\ Irq(c) \in Ctxs /\ Irq(c) # Admin
    BY <1>7, IrqControl, Contexts DEF CtlInv
  <2>2. /\ SameLists /\ ChainInv' /\ TailInv'
        /\ \A y \in Ctxs \ {Irq(c)} : Held(y)' = Held(y)
    BY <2>1, CallsLists DEF SameLists
  <2>3. alive' = alive /\ made' = made
    BY <1>7 DEF Unexplained, workVars, ctlVars
  <2>4. Held(Irq(c))' = Held(Irq(c))
    BY <1>7 DEF Unexplained, listVars, workVars, Held
  <2>5. \A d \in Cpus : Kept(d)' = Kept(d)
    <3>1. \A d \in Cpus \ {c} : Kept(d)' = Kept(d)
      BY <1>7, <2>1, KeptFrame, Contexts DEF Calls, Unexplained, workVars, LifeTypes
    <3>2. Kept(c)' = Kept(c)
      BY <1>7, <2>1, KeptFrame, Contexts, Places
      DEF Unexplained, Move, Append_blist, Pop_blist, Return, Returned, listVars, workVars, Calls,
          Kept, Away, HandInv, PhaseInv, InDriver, IdlePlaces, PopPlaces, AppendPlaces, PopPcs,
          LifeTypes, CallInv, CallRight, NoCall, PlacesOf
    <3> QED
      BY <3>1, <3>2
  <2>6. OwnInv' /\ AliveInv'
    BY <2>2, <2>3, <2>4, <2>5, OwnSame
  <2>7. HandInv'
    BY <1>7, <2>1, KeptFrame, Contexts, Places
    DEF Unexplained, Move, Append_blist, Pop_blist, Return, Returned, listVars, workVars, Calls,
        HandInv, PhaseInv, InDriver, LifeTypes, PlacesOf
  <2> QED
    BY <2>1, <2>2, <2>3, <2>6, <2>7, NotAdmin DEF Calls
<1> QED
  BY <1>1, <1>2, <1>3, <1>4, <1>5, <1>6, <1>7

\* Starting gives the CPU's buffer back.
LEMMA IpiLists ==
  ASSUME CtlInv, ListsInv
  PROVE  /\ \A c \in Cpus : Overflow(c) => ListsInv'
         /\ \A c \in Cpus : StartCtrs(c) => ListsInv'
         /\ \A c \in Cpus : Given(c) => ListsInv'
         /\ \A c \in Cpus : Started(c) => ListsInv'
<1> USE DEF CtlInv, ListsInv
<1>1. ASSUME NEW c \in Cpus, Overflow(c) PROVE ListsInv'
  <2>1. Calls(Irq(c)) /\ Irq(c) \in Ctxs /\ Irq(c) # Admin
    BY <1>1, IpiControl, Contexts DEF CtlInv
  <2>2. /\ SameLists /\ ChainInv' /\ TailInv'
        /\ \A y \in Ctxs \ {Irq(c)} : Held(y)' = Held(y)
    BY <2>1, CallsLists DEF SameLists
  <2>3. alive' = alive /\ made' = made
    BY <1>1 DEF Overflow, workVars, ctlVars
  <2>4. Held(Irq(c))' = Held(Irq(c))
    BY <1>1 DEF Overflow, listVars, workVars, Held
  <2>5. \A d \in Cpus : Kept(d)' = Kept(d)
    <3>1. \A d \in Cpus \ {c} : Kept(d)' = Kept(d)
      BY <1>1, <2>1, KeptFrame, Contexts DEF Calls, Overflow, workVars, LifeTypes
    <3>2. Kept(c)' = Kept(c)
      BY <1>1, <2>1, KeptFrame, Contexts, Places
      DEF Overflow, Move, Append_blist, Pop_blist, Return, Returned, listVars, workVars, Calls,
          Kept, Away, HandInv, PhaseInv, InDriver, IdlePlaces, PopPlaces, AppendPlaces, PopPcs,
          LifeTypes, CallInv, CallRight, NoCall, PlacesOf
    <3> QED
      BY <3>1, <3>2
  <2>6. OwnInv' /\ AliveInv'
    BY <2>2, <2>3, <2>4, <2>5, OwnSame
  <2>7. HandInv'
    BY <1>1, <2>1, KeptFrame, Contexts, Places
    DEF Overflow, Move, Append_blist, Pop_blist, Return, Returned, listVars, workVars, Calls,
        HandInv, PhaseInv, InDriver, LifeTypes, PlacesOf
  <2> QED
    BY <2>1, <2>2, <2>3, <2>6, <2>7, NotAdmin DEF Calls
<1>2. ASSUME NEW c \in Cpus, StartCtrs(c) PROVE ListsInv'
  <2>1. Calls(Ipi(c)) /\ Ipi(c) \in Ctxs /\ Ipi(c) # Admin
    BY <1>2, IpiControl, Contexts DEF CtlInv
  <2>2. /\ SameLists /\ ChainInv' /\ TailInv'
        /\ \A y \in Ctxs \ {Ipi(c)} : Held(y)' = Held(y)
    BY <2>1, CallsLists DEF SameLists
  <2>3. alive' = alive /\ made' = made
    BY <1>2 DEF StartCtrs, workVars, ctlVars
  <2>4. \A d \in Cpus \ {c} : Kept(d)' = Kept(d)
    BY <1>2, <2>1, KeptFrame, Contexts DEF Calls, StartCtrs, workVars, LifeTypes
  <2>5. ASSUME lbuffer[c] # NULL PROVE OwnInv' /\ AliveInv'
    <3>1. Held(Ipi(c)) = NULL /\ Held(Ipi(c))' = lbuffer[c]
      BY <1>2, <2>1, <2>5, Contexts, Places
      DEF StartCtrs, Move, Append_blist, Held, CallInv, CallRight, LifeTypes, IdlePlaces,
          PopPlaces,
          NoCall, PlacesOf, Masked, InDriver
    <3>2. at'[Ipi(c)] = "giving" /\ lbuffer' = lbuffer
      BY <1>2, <2>1, <2>5 DEF StartCtrs, Move, LifeTypes
    <3>3. Kept(c) = lbuffer[c] /\ Kept(c)' = NULL
      <4>1. Kept(c)' = NULL
        BY <3>2 DEF Kept, Away
      <4>2. at[Irq(c)] # "appended" /\ at[Ipi(c)] # "giving" /\ at[Admin] # "flushing"
        BY <1>2, Contexts DEF StartCtrs, PhaseInv, InDriver, Masked
      <4> QED
        BY <4>1, <4>2 DEF Kept, Away
    <3>4. Held(Ipi(c))' = Kept(c) /\ Kept(c)' = NULL /\ Held(Ipi(c)) = NULL
      BY <3>1, <3>3
    <3> QED
      BY <2>1, <2>2, <2>3, <2>4, <3>4, OwnGive
  <2>6. ASSUME ~(lbuffer[c] # NULL) PROVE OwnInv' /\ AliveInv'
    <3>1. Held(Ipi(c)) = NULL /\ Held(Ipi(c))' = NULL
      BY <1>2, <2>1, <2>6, Contexts, Places
      DEF StartCtrs, Move, Leave, Held, CallInv, CallRight, LifeTypes, IdlePlaces, PopPlaces,
          NoCall, PlacesOf, Masked, InDriver
    <3>2. at'[Ipi(c)] = "given" /\ lbuffer' = lbuffer
      BY <1>2, <2>1, <2>6 DEF StartCtrs, Leave, Move, LifeTypes
    <3>3. Kept(c)' = Kept(c)
      <4>1. at[Irq(c)] # "appended" /\ at[Ipi(c)] # "giving" /\ at[Admin] # "flushing"
        BY <1>2, Contexts DEF StartCtrs, PhaseInv, InDriver, Masked
      <4>2. at'[Irq(c)] # "appended" /\ at'[Ipi(c)] # "giving" /\ at'[Admin] # "flushing"
        BY <2>1, <3>2, <4>1, Contexts DEF Calls, By
      <4> QED
        BY <3>2, <4>1, <4>2 DEF Kept, Away
    <3>4. /\ \A y \in Ctxs : Held(y)' = Held(y)
          /\ \A d \in Cpus : Kept(d)' = Kept(d)
      BY <2>2, <2>4, <3>1, <3>3
    <3> QED
      BY <2>2, <2>3, <3>4, OwnSame
  <2>8. OwnInv' /\ AliveInv'
    BY <2>5, <2>6
  <2>7. HandInv'
    <3>1. op'[Ipi(c)].b = lbuffer[c] \/ at'[Ipi(c)] = "given"
      BY <1>2, <2>1 DEF StartCtrs, Append_blist, Move, LifeTypes
    <3>2. lbuffer' = lbuffer /\ at[Admin] = "starting"
      BY <1>2 DEF StartCtrs
    <3>3. at'[Ipi(c)] # "giving" \/ op'[Ipi(c)].b = lbuffer[c]
      BY <3>1
    <3>4. /\ \A d \in Cpus : at'[Irq(d)] = at[Irq(d)] /\ op'[Irq(d)] = op[Irq(d)]
          /\ \A d \in Cpus \ {c} : at'[Ipi(d)] = at[Ipi(d)] /\ op'[Ipi(d)] = op[Ipi(d)]
          /\ at'[Admin] = at[Admin]
      BY <2>1, Contexts DEF Calls, By
    <3> QED
      BY <2>3, <3>2, <3>3, <3>4 DEF HandInv
  <2> QED
    BY <2>1, <2>2, <2>3, <2>8, <2>7, NotAdmin DEF Calls
<1>3. ASSUME NEW c \in Cpus, Given(c) PROVE ListsInv'
  <2>1. Calls(Ipi(c)) /\ Ipi(c) \in Ctxs /\ Ipi(c) # Admin
    BY <1>3, IpiControl, Contexts DEF CtlInv
  <2>2. /\ SameLists /\ ChainInv' /\ TailInv'
        /\ \A y \in Ctxs \ {Ipi(c)} : Held(y)' = Held(y)
    BY <2>1, CallsLists DEF SameLists
  <2>3. alive' = alive /\ made' = made
    BY <1>3 DEF Given, workVars, ctlVars
  <2>4. Held(Ipi(c)) = NULL /\ Held(Ipi(c))' = NULL
    BY <1>3, Contexts, Places
    DEF Given, Move, Append_blist, Pop_blist, Return, Returned, listVars, workVars, Held,
        IdlePlaces, PopPlaces, AppendPlaces, PopPcs, LifeTypes, CallInv, CallRight, NoCall,
        PlacesOf
  <2>5. \A d \in Cpus : Kept(d)' = Kept(d)
    <3>1. \A d \in Cpus \ {c} : Kept(d)' = Kept(d)
      BY <1>3, <2>1, KeptFrame, Contexts DEF Calls, Given, workVars, LifeTypes
    <3>2. Kept(c)' = Kept(c)
      BY <1>3, <2>1, KeptFrame, Contexts, Places
      DEF Given, Move, Append_blist, Pop_blist, Return, Returned, listVars, workVars, Calls, Kept,
          Away, HandInv, PhaseInv, InDriver, IdlePlaces, PopPlaces, AppendPlaces, PopPcs,
          LifeTypes, CallInv, CallRight, NoCall, PlacesOf
    <3> QED
      BY <3>1, <3>2
  <2>6. OwnInv' /\ AliveInv'
    BY <2>2, <2>3, <2>4, <2>5, OwnSame
  <2>7. HandInv'
    BY <1>3, <2>1, KeptFrame, Contexts, Places
    DEF Given, Move, Append_blist, Pop_blist, Return, Returned, listVars, workVars, Calls,
        HandInv, PhaseInv, InDriver, LifeTypes, PlacesOf
  <2> QED
    BY <2>1, <2>2, <2>3, <2>6, <2>7, NotAdmin DEF Calls
<1>4. ASSUME NEW c \in Cpus, Started(c) PROVE ListsInv'
  <2>1. Calls(Ipi(c)) /\ Ipi(c) \in Ctxs /\ Ipi(c) # Admin
    BY <1>4, IpiControl, Contexts DEF CtlInv
  <2>2. /\ SameLists /\ ChainInv' /\ TailInv'
        /\ \A y \in Ctxs \ {Ipi(c)} : Held(y)' = Held(y)
    BY <2>1, CallsLists DEF SameLists
  <2>3. alive' = alive /\ made' = made
    BY <1>4 DEF Started, workVars, ctlVars
  <2>4. Held(Ipi(c)) = NULL /\ Held(Ipi(c))' = NULL
    BY <1>4, Contexts, Places
    DEF Started, Move, Append_blist, Pop_blist, Return, Returned, listVars, workVars, Held,
        IdlePlaces, PopPlaces, AppendPlaces, PopPcs, LifeTypes, CallInv, CallRight, NoCall,
        PlacesOf
  <2>5. \A d \in Cpus : Kept(d)' = Kept(d)
    <3>1. \A d \in Cpus \ {c} : Kept(d)' = Kept(d)
      BY <1>4, <2>1, KeptFrame, Contexts DEF Calls, Started, workVars, LifeTypes
    <3>2. Kept(c)' = Kept(c)
      BY <1>4, <2>1, KeptFrame, Contexts, Places
      DEF Started, Move, Append_blist, Pop_blist, Return, Returned, listVars, workVars, Calls,
          Kept, Away, HandInv, PhaseInv, InDriver, IdlePlaces, PopPlaces, AppendPlaces, PopPcs,
          LifeTypes, CallInv, CallRight, NoCall, PlacesOf
    <3> QED
      BY <3>1, <3>2
  <2>6. OwnInv' /\ AliveInv'
    BY <2>2, <2>3, <2>4, <2>5, OwnSame
  <2>7. HandInv'
    BY <1>4, <2>1, KeptFrame, Contexts, Places
    DEF Started, Move, Append_blist, Pop_blist, Return, Returned, listVars, workVars, Calls,
        HandInv, PhaseInv, InDriver, LifeTypes, PlacesOf
  <2> QED
    BY <2>1, <2>2, <2>3, <2>6, <2>7, NotAdmin DEF Calls
<1> QED
  BY <1>1, <1>2, <1>3, <1>4

\* my_read keeps the buffer between its two list calls.
LEMMA ReaderLists ==
  ASSUME CtlInv, ListsInv
  PROVE  /\ \A x \in Readers : Read(x) => ListsInv'
         /\ \A x \in Readers : ReadAgain(x) => ListsInv'
         /\ \A x \in Readers : ReadStopped(x) => ListsInv'
         /\ \A x \in Readers : ReadInterrupted(x) => ListsInv'
         /\ \A x \in Readers : ReadBuffer(x) => ListsInv'
         /\ \A x \in Readers : ReadReturns(x) => ListsInv'
<1> USE DEF CtlInv, ListsInv
<1>1. ASSUME NEW x \in Readers, Read(x) PROVE ListsInv'
  <2>1. Calls(x) /\ x \in Ctxs /\ x # Admin
    BY <1>1, ReaderControl, Contexts DEF CtlInv
  <2>2. /\ SameLists /\ ChainInv' /\ TailInv'
        /\ \A y \in Ctxs \ {x} : Held(y)' = Held(y)
    BY <2>1, CallsLists DEF SameLists
  <2>3. alive' = alive /\ made' = made
    BY <1>1 DEF Read, workVars, ctlVars
  <2>4. Held(x) = NULL /\ Held(x)' = NULL
    BY <1>1, Contexts, Places
    DEF Read, Move, Append_blist, Pop_blist, Return, Returned, listVars, workVars, Held,
        IdlePlaces, PopPlaces, AppendPlaces, PopPcs, LifeTypes, CallInv, CallRight, NoCall,
        PlacesOf
  <2>5. \A d \in Cpus : Kept(d)' = Kept(d)
    BY <1>1, <2>1, KeptFrame, Contexts DEF Calls, Read, workVars, Readers
  <2>6. OwnInv' /\ AliveInv'
    BY <2>2, <2>3, <2>4, <2>5, OwnSame
  <2>7. HandInv'
    BY <1>1, <2>1, KeptFrame, Contexts, Places
    DEF Read, Move, Append_blist, Pop_blist, Return, Returned, listVars, workVars, Calls, HandInv,
        PhaseInv, InDriver, LifeTypes, PlacesOf
  <2> QED
    BY <2>1, <2>2, <2>3, <2>6, <2>7, NotAdmin DEF Calls
<1>2. ASSUME NEW x \in Readers, ReadAgain(x) PROVE ListsInv'
  <2>1. Calls(x) /\ x \in Ctxs /\ x # Admin
    BY <1>2, ReaderControl, Contexts DEF CtlInv
  <2>2. /\ SameLists /\ ChainInv' /\ TailInv'
        /\ \A y \in Ctxs \ {x} : Held(y)' = Held(y)
    BY <2>1, CallsLists DEF SameLists
  <2>3. alive' = alive /\ made' = made
    BY <1>2 DEF ReadAgain, workVars, ctlVars
  <2>4. Held(x) = NULL /\ Held(x)' = NULL
    BY <1>2, Contexts, Places
    DEF ReadAgain, Move, Append_blist, Pop_blist, Return, Returned, listVars, workVars, Held,
        IdlePlaces, PopPlaces, AppendPlaces, PopPcs, LifeTypes, CallInv, CallRight, NoCall,
        PlacesOf
  <2>5. \A d \in Cpus : Kept(d)' = Kept(d)
    BY <1>2, <2>1, KeptFrame, Contexts DEF Calls, ReadAgain, workVars, Readers
  <2>6. OwnInv' /\ AliveInv'
    BY <2>2, <2>3, <2>4, <2>5, OwnSame
  <2>7. HandInv'
    BY <1>2, <2>1, KeptFrame, Contexts, Places
    DEF ReadAgain, Move, Append_blist, Pop_blist, Return, Returned, listVars, workVars, Calls,
        HandInv, PhaseInv, InDriver, LifeTypes, PlacesOf
  <2> QED
    BY <2>1, <2>2, <2>3, <2>6, <2>7, NotAdmin DEF Calls
<1>3. ASSUME NEW x \in Readers, ReadStopped(x) PROVE ListsInv'
  <2>1. Calls(x) /\ x \in Ctxs /\ x # Admin
    BY <1>3, ReaderControl, Contexts DEF CtlInv
  <2>2. /\ SameLists /\ ChainInv' /\ TailInv'
        /\ \A y \in Ctxs \ {x} : Held(y)' = Held(y)
    BY <2>1, CallsLists DEF SameLists
  <2>3. alive' = alive /\ made' = made
    BY <1>3 DEF ReadStopped, workVars, ctlVars
  <2>4. Held(x) = NULL /\ Held(x)' = NULL
    BY <1>3, Contexts, Places
    DEF ReadStopped, Move, Append_blist, Pop_blist, Return, Returned, listVars, workVars, Held,
        IdlePlaces, PopPlaces, AppendPlaces, PopPcs, LifeTypes, CallInv, CallRight, NoCall,
        PlacesOf
  <2>5. \A d \in Cpus : Kept(d)' = Kept(d)
    BY <1>3, <2>1, KeptFrame, Contexts DEF Calls, ReadStopped, workVars, Readers
  <2>6. OwnInv' /\ AliveInv'
    BY <2>2, <2>3, <2>4, <2>5, OwnSame
  <2>7. HandInv'
    BY <1>3, <2>1, KeptFrame, Contexts, Places
    DEF ReadStopped, Move, Append_blist, Pop_blist, Return, Returned, listVars, workVars, Calls,
        HandInv, PhaseInv, InDriver, LifeTypes, PlacesOf
  <2> QED
    BY <2>1, <2>2, <2>3, <2>6, <2>7, NotAdmin DEF Calls
<1>4. ASSUME NEW x \in Readers, ReadBuffer(x) PROVE ListsInv'
  <2>1. Calls(x) /\ x \in Ctxs /\ x # Admin
    BY <1>4, ReaderControl, Contexts DEF CtlInv
  <2>2. /\ SameLists /\ ChainInv' /\ TailInv'
        /\ \A y \in Ctxs \ {x} : Held(y)' = Held(y)
    BY <2>1, CallsLists DEF SameLists
  <2>3. alive' = alive /\ made' = made
    BY <1>4 DEF ReadBuffer, workVars, ctlVars
  <2>4. Held(x)' = Held(x)
    BY <1>4, <2>1 DEF ReadBuffer, Append_blist, Move, Held, PopPlaces, LifeTypes
  <2>5. \A d \in Cpus : Kept(d)' = Kept(d)
    BY <1>4, <2>1, KeptFrame, Contexts DEF Calls, ReadBuffer, workVars, Readers
  <2>6. OwnInv' /\ AliveInv'
    BY <2>2, <2>3, <2>4, <2>5, OwnSame
  <2>7. HandInv'
    BY <1>4, <2>1, KeptFrame, Contexts, Places
    DEF ReadBuffer, Move, Append_blist, Pop_blist, Return, Returned, listVars, workVars, Calls,
        HandInv, PhaseInv, InDriver, LifeTypes, PlacesOf
  <2> QED
    BY <2>1, <2>2, <2>3, <2>6, <2>7, NotAdmin DEF Calls
<1>5. ASSUME NEW x \in Readers, ReadReturns(x) PROVE ListsInv'
  <2>1. Calls(x) /\ x \in Ctxs /\ x # Admin
    BY <1>5, ReaderControl, Contexts DEF CtlInv
  <2>2. /\ SameLists /\ ChainInv' /\ TailInv'
        /\ \A y \in Ctxs \ {x} : Held(y)' = Held(y)
    BY <2>1, CallsLists DEF SameLists
  <2>3. alive' = alive /\ made' = made
    BY <1>5 DEF ReadReturns, workVars, ctlVars
  <2>4. Held(x) = NULL /\ Held(x)' = NULL
    BY <1>5, Contexts, Places
    DEF ReadReturns, Move, Append_blist, Pop_blist, Return, Returned, listVars, workVars, Held,
        IdlePlaces, PopPlaces, AppendPlaces, PopPcs, LifeTypes, CallInv, CallRight, NoCall,
        PlacesOf
  <2>5. \A d \in Cpus : Kept(d)' = Kept(d)
    BY <1>5, <2>1, KeptFrame, Contexts DEF Calls, ReadReturns, workVars, Readers
  <2>6. OwnInv' /\ AliveInv'
    BY <2>2, <2>3, <2>4, <2>5, OwnSame
  <2>7. HandInv'
    BY <1>5, <2>1, KeptFrame, Contexts, Places
    DEF ReadReturns, Move, Append_blist, Pop_blist, Return, Returned, listVars, workVars, Calls,
        HandInv, PhaseInv, InDriver, LifeTypes, PlacesOf
  <2> QED
    BY <2>1, <2>2, <2>3, <2>6, <2>7, NotAdmin DEF Calls
<1>6. ASSUME NEW x \in Readers, ReadInterrupted(x) PROVE ListsInv'
  <2>1. Calls(x) /\ x \in Ctxs /\ x # Admin
    BY <1>6, ReaderControl, Contexts DEF CtlInv
  <2>2. /\ SameLists /\ ChainInv' /\ TailInv'
        /\ \A y \in Ctxs \ {x} : Held(y)' = Held(y)
    BY <2>1, CallsLists DEF SameLists
  <2>3. alive' = alive /\ made' = made
    BY <1>6 DEF ReadInterrupted, workVars, ctlVars
  <2>4. Held(x) = NULL /\ Held(x)' = NULL
    BY <1>6, Contexts, Places
    DEF ReadInterrupted, Move, Append_blist, Pop_blist, Return, Returned, listVars, workVars, Held,
        IdlePlaces, PopPlaces, AppendPlaces, PopPcs, LifeTypes, CallInv, CallRight, NoCall,
        PlacesOf
  <2>5. \A d \in Cpus : Kept(d)' = Kept(d)
    BY <1>6, <2>1, KeptFrame, Contexts DEF Calls, ReadInterrupted, workVars, Readers
  <2>6. OwnInv' /\ AliveInv'
    BY <2>2, <2>3, <2>4, <2>5, OwnSame
  <2>7. HandInv'
    BY <1>6, <2>1, KeptFrame, Contexts, Places
    DEF ReadInterrupted, Move, Append_blist, Pop_blist, Return, Returned, listVars, workVars, Calls,
        HandInv, PhaseInv, InDriver, LifeTypes, PlacesOf
  <2> QED
    BY <2>1, <2>2, <2>3, <2>6, <2>7, NotAdmin DEF Calls
<1> QED
  BY <1>1, <1>2, <1>3, <1>4, <1>5, <1>6

-----------------------------------------------------------------------------
(* Neither does the process that loads, starts and unloads                 *)

\* The process that loads, starts and unloads takes no buffer from a CPU outside the flushing.
LEMMA AdminKept ==
  ASSUME By(Admin), lbuffer' = lbuffer,
         at[Admin] # "flushing" \/ op[Admin].b = NULL,
         at'[Admin] # "flushing" \/ op'[Admin].b = NULL
  PROVE  /\ \A c \in Cpus : Kept(c)' = Kept(c)
         /\ \A c \in Cpus : /\ at'[Irq(c)] = at[Irq(c)] /\ at'[Ipi(c)] = at[Ipi(c)]
                            /\ op'[Irq(c)] = op[Irq(c)] /\ op'[Ipi(c)] = op[Ipi(c)]
<1>1. \A c \in Cpus : /\ at'[Irq(c)] = at[Irq(c)] /\ at'[Ipi(c)] = at[Ipi(c)]
                      /\ op'[Irq(c)] = op[Irq(c)] /\ op'[Ipi(c)] = op[Ipi(c)]
  BY Contexts DEF By
<1> QED
  BY <1>1 DEF Kept, Away

\* When both lists were found empty at the end, nothing allocated is left.
LEMMA ListsEmptied ==
  ASSUME CtlInv, ListsInv, ReadersClosed, at[Admin] = "freeing_full", op[Admin].pc = "done",
         op[Admin].b = NULL
  PROVE  alive = {}
<1> USE DEF CtlInv, ListsInv
<1>1. \A l \in Lists : ToSet(Chain(l)) = {}
  <2>1. Chain("empty") = <<>> /\ Chain("full") = <<>>
    BY DEF EmptyInv
  <2>2. ToSet(<<>>) = {}
    BY DEF ToSet
  <2> QED
    BY <2>1, <2>2, LifetimeAssumption
<1>2. \A c \in Cpus : Kept(c) = NULL
  BY DEF PhaseInv, Kept
<1>3. \A x \in Ctxs : Held(x) = NULL
  <2>1. \A x \in Ctxs : at[x] = "out" => Held(x) = NULL
    BY DEF CallInv, CallRight, IdlePlaces, PopPlaces, NoCall, Held
  <2>2. \A c \in Cpus : at[Irq(c)] = "out" /\ at[Ipi(c)] = "out"
    BY DEF PhaseInv, InDriver
  <2>3. \A x \in Readers : at[x] = "out"
    BY DEF ReaderInv, PhaseInv, InDriver
  <2>4. Held(Admin) = NULL
    BY DEF Held
  <2> QED
    BY <2>1, <2>2, <2>3, <2>4, Contexts
<1> QED
  BY <1>1, <1>2, <1>3, BlistAssumption DEF AliveInv, LifeTypes

\* Loading, apart from the allocation, has no buffers to hand over.
LEMMA LoadLists ==
  ASSUME CtlInv, ListsInv
  PROVE  /\ Load => ListsInv'
         /\ LoadRefused => ListsInv'
         /\ AllocateFails => ListsInv'
         /\ Allocated => ListsInv'
         /\ Loaded => ListsInv'
<1> USE DEF CtlInv, ListsInv
<1>1. ASSUME Load PROVE ListsInv'
  <2>1. Calls(Admin) /\ Admin \in Ctxs /\ lbuffer' = lbuffer
    BY <1>1, LoadControl, Contexts DEF CtlInv, Load, workVars
  <2>2. /\ SameLists /\ ChainInv' /\ TailInv'
        /\ \A y \in Ctxs \ {Admin} : Held(y)' = Held(y)
    BY <2>1, CallsLists DEF SameLists
  <2>3. /\ at[Admin] # "flushing" \/ op[Admin].b = NULL
        /\ at'[Admin] # "flushing" \/ op'[Admin].b = NULL
    BY <1>1, Contexts
    DEF Load, Move, Append_blist, Pop_blist, Return, Returned, listVars, workVars, IdlePlaces,
        PopPlaces, AppendPlaces, PopPcs, LifeTypes, CallInv, CallRight, NoCall, PlacesOf
  <2>4. Held(Admin) = NULL /\ Held(Admin)' = NULL
    BY <1>1, Contexts
    DEF Load, Move, Append_blist, Pop_blist, Return, Returned, listVars, workVars, Held,
        IdlePlaces, PopPlaces, AppendPlaces, PopPcs, LifeTypes, CallInv, CallRight, NoCall,
        PlacesOf
  <2>5. /\ \A d \in Cpus : Kept(d)' = Kept(d)
        /\ \A d \in Cpus : /\ at'[Irq(d)] = at[Irq(d)] /\ at'[Ipi(d)] = at[Ipi(d)]
                           /\ op'[Irq(d)] = op[Irq(d)] /\ op'[Ipi(d)] = op[Ipi(d)]
    BY <2>1, <2>3, AdminKept DEF Calls
  <2>6. OwnInv' /\ AliveInv'
    <3>1. alive' = alive
      BY <1>1 DEF Load, workVars
    <3>2. \A y \in Ctxs : Held(y)' = Held(y)
      BY <2>2, <2>4
    <3> QED
      BY <2>2, <2>5, <3>1, <3>2, OwnSame
  <2>7. HandInv'
    BY <1>1, <2>1, <2>5, Contexts
    DEF Load, Move, Append_blist, Pop_blist, Return, Returned, listVars, workVars, HandInv,
        NoCall, LifeTypes
  <2>8. MadeInv'
    <3>1. alive = {} /\ made = 0 /\ at'[Admin] = "allocating" /\ alive' = alive /\ made' = made
      BY <1>1, Contexts DEF Load, Move, MadeInv, LifeTypes
    <3>2. Cardinality({}) = 0
      BY FS_EmptySet
    <3> QED
      BY <3>1, <3>2 DEF MadeInv
  <2>9. EmptyInv'
    BY <1>1, <2>1, <2>2, Contexts
    DEF Load, Move, Append_blist, Pop_blist, Return, Returned, listVars, workVars, EmptyInv,
        LifeTypes
  <2> QED
    BY <2>2, <2>6, <2>7, <2>8, <2>9
<1>2. ASSUME LoadRefused PROVE ListsInv'
  <2>1. Calls(Admin) /\ Admin \in Ctxs /\ lbuffer' = lbuffer
    BY <1>2, LoadControl, Contexts DEF CtlInv, LoadRefused, workVars
  <2>2. /\ SameLists /\ ChainInv' /\ TailInv'
        /\ \A y \in Ctxs \ {Admin} : Held(y)' = Held(y)
    BY <2>1, CallsLists DEF SameLists
  <2>3. /\ at[Admin] # "flushing" \/ op[Admin].b = NULL
        /\ at'[Admin] # "flushing" \/ op'[Admin].b = NULL
    BY <1>2, Contexts
    DEF LoadRefused, Move, Append_blist, Pop_blist, Return, Returned, listVars, workVars,
        IdlePlaces, PopPlaces, AppendPlaces, PopPcs, LifeTypes, CallInv, CallRight, NoCall,
        PlacesOf
  <2>4. Held(Admin) = NULL /\ Held(Admin)' = NULL
    BY <1>2, Contexts
    DEF LoadRefused, Move, Append_blist, Pop_blist, Return, Returned, listVars, workVars, Held,
        IdlePlaces, PopPlaces, AppendPlaces, PopPcs, LifeTypes, CallInv, CallRight, NoCall,
        PlacesOf
  <2>5. /\ \A d \in Cpus : Kept(d)' = Kept(d)
        /\ \A d \in Cpus : /\ at'[Irq(d)] = at[Irq(d)] /\ at'[Ipi(d)] = at[Ipi(d)]
                           /\ op'[Irq(d)] = op[Irq(d)] /\ op'[Ipi(d)] = op[Ipi(d)]
    BY <2>1, <2>3, AdminKept DEF Calls
  <2>6. OwnInv' /\ AliveInv'
    <3>1. alive' = alive
      BY <1>2 DEF LoadRefused, workVars
    <3>2. \A y \in Ctxs : Held(y)' = Held(y)
      BY <2>2, <2>4
    <3> QED
      BY <2>2, <2>5, <3>1, <3>2, OwnSame
  <2>7. HandInv'
    BY <1>2, <2>1, <2>5, Contexts
    DEF LoadRefused, Move, Append_blist, Pop_blist, Return, Returned, listVars, workVars, HandInv,
        NoCall, LifeTypes
  <2>8. MadeInv'
    BY <1>2, <2>1, Contexts
    DEF LoadRefused, Move, Append_blist, Pop_blist, Return, Returned, listVars, workVars, MadeInv,
        ctlVars, LifeTypes
  <2>9. EmptyInv'
    <3>1. alive = {} /\ at'[Admin] = "gone" /\ alive' = alive
      BY <1>2, Contexts DEF LoadRefused, Move, MadeInv, LifeTypes
    <3> QED
      BY <3>1 DEF EmptyInv
  <2> QED
    BY <2>2, <2>6, <2>7, <2>8, <2>9
<1>3. ASSUME AllocateFails PROVE ListsInv'
  <2>1. Calls(Admin) /\ Admin \in Ctxs /\ lbuffer' = lbuffer
    BY <1>3, LoadControl, Contexts DEF CtlInv, AllocateFails, workVars
  <2>2. /\ SameLists /\ ChainInv' /\ TailInv'
        /\ \A y \in Ctxs \ {Admin} : Held(y)' = Held(y)
    BY <2>1, CallsLists DEF SameLists
  <2>3. /\ at[Admin] # "flushing" \/ op[Admin].b = NULL
        /\ at'[Admin] # "flushing" \/ op'[Admin].b = NULL
    BY <1>3, Contexts
    DEF AllocateFails, Move, Append_blist, Pop_blist, Return, Returned, listVars, workVars,
        IdlePlaces, PopPlaces, AppendPlaces, PopPcs, LifeTypes, CallInv, CallRight, NoCall,
        PlacesOf
  <2>4. Held(Admin) = NULL /\ Held(Admin)' = NULL
    BY <1>3, Contexts
    DEF AllocateFails, Move, Append_blist, Pop_blist, Return, Returned, listVars, workVars, Held,
        IdlePlaces, PopPlaces, AppendPlaces, PopPcs, LifeTypes, CallInv, CallRight, NoCall,
        PlacesOf
  <2>5. /\ \A d \in Cpus : Kept(d)' = Kept(d)
        /\ \A d \in Cpus : /\ at'[Irq(d)] = at[Irq(d)] /\ at'[Ipi(d)] = at[Ipi(d)]
                           /\ op'[Irq(d)] = op[Irq(d)] /\ op'[Ipi(d)] = op[Ipi(d)]
    BY <2>1, <2>3, AdminKept DEF Calls
  <2>6. OwnInv' /\ AliveInv'
    <3>1. alive' = alive
      BY <1>3 DEF AllocateFails, workVars
    <3>2. \A y \in Ctxs : Held(y)' = Held(y)
      BY <2>2, <2>4
    <3> QED
      BY <2>2, <2>5, <3>1, <3>2, OwnSame
  <2>7. HandInv'
    BY <1>3, <2>1, <2>5, Contexts
    DEF AllocateFails, Move, Append_blist, Pop_blist, Return, Returned, listVars, workVars,
        HandInv, NoCall, LifeTypes
  <2>8. MadeInv'
    <3>1. alive \subseteq Buffers /\ IsFiniteSet(Buffers)
      BY BlistAssumption DEF LifeTypes
    <3>2. Cardinality(alive) \in Nat
      BY <3>1, FS_Subset, FS_CardinalityType
    <3> QED
      BY <1>3, <3>2 DEF AllocateFails, workVars, MadeInv, LifeTypes
  <2>9. EmptyInv'
    BY <1>3, <2>1, <2>2, Contexts
    DEF AllocateFails, Move, Append_blist, Pop_blist, Return, Returned, listVars, workVars,
        EmptyInv, LifeTypes
  <2> QED
    BY <2>2, <2>6, <2>7, <2>8, <2>9
<1>4. ASSUME Allocated PROVE ListsInv'
  <2>1. Calls(Admin) /\ Admin \in Ctxs /\ lbuffer' = lbuffer
    BY <1>4, LoadControl, Contexts DEF CtlInv, Allocated, workVars
  <2>2. /\ SameLists /\ ChainInv' /\ TailInv'
        /\ \A y \in Ctxs \ {Admin} : Held(y)' = Held(y)
    BY <2>1, CallsLists DEF SameLists
  <2>3. /\ at[Admin] # "flushing" \/ op[Admin].b = NULL
        /\ at'[Admin] # "flushing" \/ op'[Admin].b = NULL
    BY <1>4, Contexts
    DEF Allocated, Move, Append_blist, Pop_blist, Return, Returned, listVars, workVars,
        IdlePlaces, PopPlaces, AppendPlaces, PopPcs, LifeTypes, CallInv, CallRight, NoCall,
        PlacesOf
  <2>4. Held(Admin) = NULL /\ Held(Admin)' = NULL
    BY <1>4, Contexts
    DEF Allocated, Move, Append_blist, Pop_blist, Return, Returned, listVars, workVars, Held,
        IdlePlaces, PopPlaces, AppendPlaces, PopPcs, LifeTypes, CallInv, CallRight, NoCall,
        PlacesOf
  <2>5. /\ \A d \in Cpus : Kept(d)' = Kept(d)
        /\ \A d \in Cpus : /\ at'[Irq(d)] = at[Irq(d)] /\ at'[Ipi(d)] = at[Ipi(d)]
                           /\ op'[Irq(d)] = op[Irq(d)] /\ op'[Ipi(d)] = op[Ipi(d)]
    BY <2>1, <2>3, AdminKept DEF Calls
  <2>6. OwnInv' /\ AliveInv'
    <3>1. alive' = alive
      BY <1>4 DEF Allocated, workVars
    <3>2. \A y \in Ctxs : Held(y)' = Held(y)
      BY <2>2, <2>4
    <3> QED
      BY <2>2, <2>5, <3>1, <3>2, OwnSame
  <2>7. HandInv'
    BY <1>4, <2>1, <2>5, Contexts
    DEF Allocated, Move, Append_blist, Pop_blist, Return, Returned, listVars, workVars, HandInv,
        NoCall, LifeTypes
  <2>8. MadeInv'
    BY <1>4, <2>1, Contexts
    DEF Allocated, Move, Append_blist, Pop_blist, Return, Returned, listVars, workVars, MadeInv,
        ctlVars, LifeTypes
  <2>9. EmptyInv'
    BY <1>4, <2>1, <2>2, Contexts
    DEF Allocated, Move, Append_blist, Pop_blist, Return, Returned, listVars, workVars, EmptyInv,
        LifeTypes
  <2> QED
    BY <2>2, <2>6, <2>7, <2>8, <2>9
<1>5. ASSUME Loaded PROVE ListsInv'
  <2>1. Calls(Admin) /\ Admin \in Ctxs /\ lbuffer' = lbuffer
    BY <1>5, LoadControl, Contexts DEF CtlInv, Loaded, workVars
  <2>2. /\ SameLists /\ ChainInv' /\ TailInv'
        /\ \A y \in Ctxs \ {Admin} : Held(y)' = Held(y)
    BY <2>1, CallsLists DEF SameLists
  <2>3. /\ at[Admin] # "flushing" \/ op[Admin].b = NULL
        /\ at'[Admin] # "flushing" \/ op'[Admin].b = NULL
    BY <1>5, Contexts
    DEF Loaded, Move, Append_blist, Pop_blist, Return, Returned, listVars, workVars, IdlePlaces,
        PopPlaces, AppendPlaces, PopPcs, LifeTypes, CallInv, CallRight, NoCall, PlacesOf
  <2>4. Held(Admin) = NULL /\ Held(Admin)' = NULL
    BY <1>5, Contexts
    DEF Loaded, Move, Append_blist, Pop_blist, Return, Returned, listVars, workVars, Held,
        IdlePlaces, PopPlaces, AppendPlaces, PopPcs, LifeTypes, CallInv, CallRight, NoCall,
        PlacesOf
  <2>5. /\ \A d \in Cpus : Kept(d)' = Kept(d)
        /\ \A d \in Cpus : /\ at'[Irq(d)] = at[Irq(d)] /\ at'[Ipi(d)] = at[Ipi(d)]
                           /\ op'[Irq(d)] = op[Irq(d)] /\ op'[Ipi(d)] = op[Ipi(d)]
    BY <2>1, <2>3, AdminKept DEF Calls
  <2>6. OwnInv' /\ AliveInv'
    <3>1. alive' = alive
      BY <1>5 DEF Loaded, workVars
    <3>2. \A y \in Ctxs : Held(y)' = Held(y)
      BY <2>2, <2>4
    <3> QED
      BY <2>2, <2>5, <3>1, <3>2, OwnSame
  <2>7. HandInv'
    BY <1>5, <2>1, <2>5, Contexts
    DEF Loaded, Move, Append_blist, Pop_blist, Return, Returned, listVars, workVars, HandInv,
        NoCall, LifeTypes
  <2>8. MadeInv'
    BY <1>5, <2>1, Contexts
    DEF Loaded, Move, Append_blist, Pop_blist, Return, Returned, listVars, workVars, MadeInv,
        ctlVars, LifeTypes
  <2>9. EmptyInv'
    BY <1>5, <2>1, <2>2, Contexts
    DEF Loaded, Move, Append_blist, Pop_blist, Return, Returned, listVars, workVars, EmptyInv,
        LifeTypes
  <2> QED
    BY <2>2, <2>6, <2>7, <2>8, <2>9
<1> QED
  BY <1>1, <1>2, <1>3, <1>4, <1>5

\* Neither has starting and stopping.
LEMMA StatusLists ==
  ASSUME IntelStopsFirst, CtlInv, ListsInv
  PROVE  /\ Start => ListsInv'
         /\ StartEnds => ListsInv'
         /\ Stop => ListsInv'
         /\ StopEnds => ListsInv'
<1> USE DEF CtlInv, ListsInv
<1>1. ASSUME Start PROVE ListsInv'
  <2>1. Calls(Admin) /\ Admin \in Ctxs /\ lbuffer' = lbuffer
    BY <1>1, StatusControl, Contexts DEF CtlInv, Start, workVars
  <2>2. /\ SameLists /\ ChainInv' /\ TailInv'
        /\ \A y \in Ctxs \ {Admin} : Held(y)' = Held(y)
    BY <2>1, CallsLists DEF SameLists
  <2>3. /\ at[Admin] # "flushing" \/ op[Admin].b = NULL
        /\ at'[Admin] # "flushing" \/ op'[Admin].b = NULL
    BY <1>1, Contexts
    DEF Start, Move, Append_blist, Pop_blist, Return, Returned, listVars, workVars, IdlePlaces,
        PopPlaces, AppendPlaces, PopPcs, LifeTypes, CallInv, CallRight, NoCall, PlacesOf
  <2>4. Held(Admin) = NULL /\ Held(Admin)' = NULL
    BY <1>1, Contexts
    DEF Start, Move, Append_blist, Pop_blist, Return, Returned, listVars, workVars, Held,
        IdlePlaces, PopPlaces, AppendPlaces, PopPcs, LifeTypes, CallInv, CallRight, NoCall,
        PlacesOf
  <2>5. /\ \A d \in Cpus : Kept(d)' = Kept(d)
        /\ \A d \in Cpus : /\ at'[Irq(d)] = at[Irq(d)] /\ at'[Ipi(d)] = at[Ipi(d)]
                           /\ op'[Irq(d)] = op[Irq(d)] /\ op'[Ipi(d)] = op[Ipi(d)]
    BY <2>1, <2>3, AdminKept DEF Calls
  <2>6. OwnInv' /\ AliveInv'
    <3>1. alive' = alive
      BY <1>1 DEF Start, workVars
    <3>2. \A y \in Ctxs : Held(y)' = Held(y)
      BY <2>2, <2>4
    <3> QED
      BY <2>2, <2>5, <3>1, <3>2, OwnSame
  <2>7. HandInv'
    BY <1>1, <2>1, <2>5, Contexts
    DEF Start, Move, Append_blist, Pop_blist, Return, Returned, listVars, workVars, HandInv,
        NoCall, LifeTypes
  <2>8. MadeInv'
    BY <1>1, <2>1, Contexts
    DEF Start, Move, Append_blist, Pop_blist, Return, Returned, listVars, workVars, MadeInv,
        ctlVars, LifeTypes
  <2>9. EmptyInv'
    BY <1>1, <2>1, <2>2, Contexts
    DEF Start, Move, Append_blist, Pop_blist, Return, Returned, listVars, workVars, EmptyInv,
        LifeTypes
  <2> QED
    BY <2>2, <2>6, <2>7, <2>8, <2>9
<1>2. ASSUME StartEnds PROVE ListsInv'
  <2>1. Calls(Admin) /\ Admin \in Ctxs /\ lbuffer' = lbuffer
    BY <1>2, StatusControl, Contexts DEF CtlInv, StartEnds, workVars
  <2>2. /\ SameLists /\ ChainInv' /\ TailInv'
        /\ \A y \in Ctxs \ {Admin} : Held(y)' = Held(y)
    BY <2>1, CallsLists DEF SameLists
  <2>3. /\ at[Admin] # "flushing" \/ op[Admin].b = NULL
        /\ at'[Admin] # "flushing" \/ op'[Admin].b = NULL
    BY <1>2, Contexts
    DEF StartEnds, Move, Append_blist, Pop_blist, Return, Returned, listVars, workVars,
        IdlePlaces, PopPlaces, AppendPlaces, PopPcs, LifeTypes, CallInv, CallRight, NoCall,
        PlacesOf
  <2>4. Held(Admin) = NULL /\ Held(Admin)' = NULL
    BY <1>2, Contexts
    DEF StartEnds, Move, Append_blist, Pop_blist, Return, Returned, listVars, workVars, Held,
        IdlePlaces, PopPlaces, AppendPlaces, PopPcs, LifeTypes, CallInv, CallRight, NoCall,
        PlacesOf
  <2>5. /\ \A d \in Cpus : Kept(d)' = Kept(d)
        /\ \A d \in Cpus : /\ at'[Irq(d)] = at[Irq(d)] /\ at'[Ipi(d)] = at[Ipi(d)]
                           /\ op'[Irq(d)] = op[Irq(d)] /\ op'[Ipi(d)] = op[Ipi(d)]
    BY <2>1, <2>3, AdminKept DEF Calls
  <2>6. OwnInv' /\ AliveInv'
    <3>1. alive' = alive
      BY <1>2 DEF StartEnds, workVars
    <3>2. \A y \in Ctxs : Held(y)' = Held(y)
      BY <2>2, <2>4
    <3> QED
      BY <2>2, <2>5, <3>1, <3>2, OwnSame
  <2>7. HandInv'
    BY <1>2, <2>1, <2>5, Contexts
    DEF StartEnds, Move, Append_blist, Pop_blist, Return, Returned, listVars, workVars, HandInv,
        NoCall, LifeTypes
  <2>8. MadeInv'
    BY <1>2, <2>1, Contexts
    DEF StartEnds, Move, Append_blist, Pop_blist, Return, Returned, listVars, workVars, MadeInv,
        ctlVars, LifeTypes
  <2>9. EmptyInv'
    BY <1>2, <2>1, <2>2, Contexts
    DEF StartEnds, Move, Append_blist, Pop_blist, Return, Returned, listVars, workVars, EmptyInv,
        LifeTypes
  <2> QED
    BY <2>2, <2>6, <2>7, <2>8, <2>9
<1>3. ASSUME Stop PROVE ListsInv'
  <2>1. Calls(Admin) /\ Admin \in Ctxs /\ lbuffer' = lbuffer
    BY <1>3, StatusControl, Contexts DEF CtlInv, Stop, workVars
  <2>2. /\ SameLists /\ ChainInv' /\ TailInv'
        /\ \A y \in Ctxs \ {Admin} : Held(y)' = Held(y)
    BY <2>1, CallsLists DEF SameLists
  <2>3. /\ at[Admin] # "flushing" \/ op[Admin].b = NULL
        /\ at'[Admin] # "flushing" \/ op'[Admin].b = NULL
    BY <1>3, Contexts
    DEF Stop, Move, Append_blist, Pop_blist, Return, Returned, listVars, workVars, IdlePlaces,
        PopPlaces, AppendPlaces, PopPcs, LifeTypes, CallInv, CallRight, NoCall, PlacesOf
  <2>4. Held(Admin) = NULL /\ Held(Admin)' = NULL
    BY <1>3, Contexts
    DEF Stop, Move, Append_blist, Pop_blist, Return, Returned, listVars, workVars, Held,
        IdlePlaces, PopPlaces, AppendPlaces, PopPcs, LifeTypes, CallInv, CallRight, NoCall,
        PlacesOf
  <2>5. /\ \A d \in Cpus : Kept(d)' = Kept(d)
        /\ \A d \in Cpus : /\ at'[Irq(d)] = at[Irq(d)] /\ at'[Ipi(d)] = at[Ipi(d)]
                           /\ op'[Irq(d)] = op[Irq(d)] /\ op'[Ipi(d)] = op[Ipi(d)]
    BY <2>1, <2>3, AdminKept DEF Calls
  <2>6. OwnInv' /\ AliveInv'
    <3>1. alive' = alive
      BY <1>3 DEF Stop, workVars
    <3>2. \A y \in Ctxs : Held(y)' = Held(y)
      BY <2>2, <2>4
    <3> QED
      BY <2>2, <2>5, <3>1, <3>2, OwnSame
  <2>7. HandInv'
    BY <1>3, <2>1, <2>5, Contexts
    DEF Stop, Move, Append_blist, Pop_blist, Return, Returned, listVars, workVars, HandInv,
        NoCall, LifeTypes
  <2>8. MadeInv'
    BY <1>3, <2>1, Contexts
    DEF Stop, Move, Append_blist, Pop_blist, Return, Returned, listVars, workVars, MadeInv,
        ctlVars, LifeTypes
  <2>9. EmptyInv'
    BY <1>3, <2>1, <2>2, Contexts
    DEF Stop, Move, Append_blist, Pop_blist, Return, Returned, listVars, workVars, EmptyInv,
        LifeTypes
  <2> QED
    BY <2>2, <2>6, <2>7, <2>8, <2>9
<1>4. ASSUME StopEnds PROVE ListsInv'
  <2>1. Calls(Admin) /\ Admin \in Ctxs /\ lbuffer' = lbuffer
    BY <1>4, StatusControl, Contexts DEF CtlInv, StopEnds, workVars
  <2>2. /\ SameLists /\ ChainInv' /\ TailInv'
        /\ \A y \in Ctxs \ {Admin} : Held(y)' = Held(y)
    BY <2>1, CallsLists DEF SameLists
  <2>3. /\ at[Admin] # "flushing" \/ op[Admin].b = NULL
        /\ at'[Admin] # "flushing" \/ op'[Admin].b = NULL
    BY <1>4, Contexts
    DEF StopEnds, Move, Append_blist, Pop_blist, Return, Returned, listVars, workVars, IdlePlaces,
        PopPlaces, AppendPlaces, PopPcs, LifeTypes, CallInv, CallRight, NoCall, PlacesOf
  <2>4. Held(Admin) = NULL /\ Held(Admin)' = NULL
    BY <1>4, Contexts
    DEF StopEnds, Move, Append_blist, Pop_blist, Return, Returned, listVars, workVars, Held,
        IdlePlaces, PopPlaces, AppendPlaces, PopPcs, LifeTypes, CallInv, CallRight, NoCall,
        PlacesOf
  <2>5. /\ \A d \in Cpus : Kept(d)' = Kept(d)
        /\ \A d \in Cpus : /\ at'[Irq(d)] = at[Irq(d)] /\ at'[Ipi(d)] = at[Ipi(d)]
                           /\ op'[Irq(d)] = op[Irq(d)] /\ op'[Ipi(d)] = op[Ipi(d)]
    BY <2>1, <2>3, AdminKept DEF Calls
  <2>6. OwnInv' /\ AliveInv'
    <3>1. alive' = alive
      BY <1>4 DEF StopEnds, workVars
    <3>2. \A y \in Ctxs : Held(y)' = Held(y)
      BY <2>2, <2>4
    <3> QED
      BY <2>2, <2>5, <3>1, <3>2, OwnSame
  <2>7. HandInv'
    BY <1>4, <2>1, <2>5, Contexts
    DEF StopEnds, Move, Append_blist, Pop_blist, Return, Returned, listVars, workVars, HandInv,
        NoCall, LifeTypes
  <2>8. MadeInv'
    BY <1>4, <2>1, Contexts
    DEF StopEnds, Move, Append_blist, Pop_blist, Return, Returned, listVars, workVars, MadeInv,
        ctlVars, LifeTypes
  <2>9. EmptyInv'
    BY <1>4, <2>1, <2>2, Contexts
    DEF StopEnds, Move, Append_blist, Pop_blist, Return, Returned, listVars, workVars, EmptyInv,
        LifeTypes
  <2> QED
    BY <2>2, <2>6, <2>7, <2>8, <2>9
<1> QED
  BY <1>1, <1>2, <1>3, <1>4

\* Neither have the steps of cleanup_module between its loops.
LEMMA CleanupLists ==
  ASSUME CtlInv, ListsInv
  PROVE  /\ CleanupModule => ListsInv'
         /\ CleanupArch => ListsInv'
         /\ FlushEnds => ListsInv'
         /\ FreeNext => ListsInv'
         /\ Removed => ListsInv'
<1> USE DEF CtlInv, ListsInv
<1>1. ASSUME CleanupModule PROVE ListsInv'
  <2>1. Calls(Admin) /\ Admin \in Ctxs /\ lbuffer' = lbuffer
    BY <1>1, CleanupControl, Contexts DEF CtlInv, CleanupModule, workVars
  <2>2. /\ SameLists /\ ChainInv' /\ TailInv'
        /\ \A y \in Ctxs \ {Admin} : Held(y)' = Held(y)
    BY <2>1, CallsLists DEF SameLists
  <2>3. /\ at[Admin] # "flushing" \/ op[Admin].b = NULL
        /\ at'[Admin] # "flushing" \/ op'[Admin].b = NULL
    BY <1>1, Contexts
    DEF CleanupModule, Move, Append_blist, Pop_blist, Return, Returned, listVars, workVars,
        IdlePlaces, PopPlaces, AppendPlaces, PopPcs, LifeTypes, CallInv, CallRight, NoCall,
        PlacesOf
  <2>4. Held(Admin) = NULL /\ Held(Admin)' = NULL
    BY <1>1, Contexts
    DEF CleanupModule, Move, Append_blist, Pop_blist, Return, Returned, listVars, workVars, Held,
        IdlePlaces, PopPlaces, AppendPlaces, PopPcs, LifeTypes, CallInv, CallRight, NoCall,
        PlacesOf
  <2>5. /\ \A d \in Cpus : Kept(d)' = Kept(d)
        /\ \A d \in Cpus : /\ at'[Irq(d)] = at[Irq(d)] /\ at'[Ipi(d)] = at[Ipi(d)]
                           /\ op'[Irq(d)] = op[Irq(d)] /\ op'[Ipi(d)] = op[Ipi(d)]
    BY <2>1, <2>3, AdminKept DEF Calls
  <2>6. OwnInv' /\ AliveInv'
    <3>1. alive' = alive
      BY <1>1 DEF CleanupModule, workVars
    <3>2. \A y \in Ctxs : Held(y)' = Held(y)
      BY <2>2, <2>4
    <3> QED
      BY <2>2, <2>5, <3>1, <3>2, OwnSame
  <2>7. HandInv'
    BY <1>1, <2>1, <2>5, Contexts
    DEF CleanupModule, Move, Append_blist, Pop_blist, Return, Returned, listVars, workVars,
        HandInv, NoCall, LifeTypes
  <2>8. MadeInv'
    BY <1>1, <2>1, Contexts
    DEF CleanupModule, Move, Append_blist, Pop_blist, Return, Returned, listVars, workVars,
        MadeInv, ctlVars, LifeTypes
  <2>9. EmptyInv'
    BY <1>1, <2>1, <2>2, Contexts
    DEF CleanupModule, Move, Append_blist, Pop_blist, Return, Returned, listVars, workVars,
        EmptyInv, LifeTypes
  <2> QED
    BY <2>2, <2>6, <2>7, <2>8, <2>9
<1>2. ASSUME CleanupArch PROVE ListsInv'
  <2>1. Calls(Admin) /\ Admin \in Ctxs /\ lbuffer' = lbuffer
    BY <1>2, CleanupControl, Contexts DEF CtlInv, CleanupArch, workVars
  <2>2. /\ SameLists /\ ChainInv' /\ TailInv'
        /\ \A y \in Ctxs \ {Admin} : Held(y)' = Held(y)
    BY <2>1, CallsLists DEF SameLists
  <2>3. /\ at[Admin] # "flushing" \/ op[Admin].b = NULL
        /\ at'[Admin] # "flushing" \/ op'[Admin].b = NULL
    BY <1>2, Contexts
    DEF CleanupArch, Move, Append_blist, Pop_blist, Return, Returned, listVars, workVars,
        IdlePlaces, PopPlaces, AppendPlaces, PopPcs, LifeTypes, CallInv, CallRight, NoCall,
        PlacesOf
  <2>4. Held(Admin) = NULL /\ Held(Admin)' = NULL
    BY <1>2, Contexts
    DEF CleanupArch, Move, Append_blist, Pop_blist, Return, Returned, listVars, workVars, Held,
        IdlePlaces, PopPlaces, AppendPlaces, PopPcs, LifeTypes, CallInv, CallRight, NoCall,
        PlacesOf
  <2>5. /\ \A d \in Cpus : Kept(d)' = Kept(d)
        /\ \A d \in Cpus : /\ at'[Irq(d)] = at[Irq(d)] /\ at'[Ipi(d)] = at[Ipi(d)]
                           /\ op'[Irq(d)] = op[Irq(d)] /\ op'[Ipi(d)] = op[Ipi(d)]
    BY <2>1, <2>3, AdminKept DEF Calls
  <2>6. OwnInv' /\ AliveInv'
    <3>1. alive' = alive
      BY <1>2 DEF CleanupArch, workVars
    <3>2. \A y \in Ctxs : Held(y)' = Held(y)
      BY <2>2, <2>4
    <3> QED
      BY <2>2, <2>5, <3>1, <3>2, OwnSame
  <2>7. HandInv'
    <3>1. op'[Admin] = NoCall /\ alive' = alive
      BY <1>2, Contexts DEF CleanupArch, CallInv, CallRight, IdlePlaces, listVars
    <3>2. \A c \in Cpus : at[Irq(c)] = "out" /\ at[Ipi(c)] = "out" /\ at[Admin] # "flushing"
      BY <1>2 DEF CleanupArch, HandlersOut, InDriver, PhaseInv
    <3>3. \A c \in Cpus : Kept(c) = lbuffer[c]
      BY <3>2 DEF Kept, Away
    <3> QED
      BY <2>1, <2>5, <3>1, <3>3 DEF HandInv, OwnInv
  <2>8. MadeInv'
    BY <1>2, <2>1, Contexts
    DEF CleanupArch, Move, Append_blist, Pop_blist, Return, Returned, listVars, workVars, MadeInv,
        ctlVars, LifeTypes
  <2>9. EmptyInv'
    BY <1>2, <2>1, <2>2, Contexts
    DEF CleanupArch, Move, Append_blist, Pop_blist, Return, Returned, listVars, workVars,
        EmptyInv, LifeTypes
  <2> QED
    BY <2>2, <2>6, <2>7, <2>8, <2>9
<1>3. ASSUME FlushEnds PROVE ListsInv'
  <2>1. Calls(Admin) /\ Admin \in Ctxs /\ lbuffer' = lbuffer
    BY <1>3, CleanupControl, Contexts DEF CtlInv, FlushEnds, workVars
  <2>2. /\ SameLists /\ ChainInv' /\ TailInv'
        /\ \A y \in Ctxs \ {Admin} : Held(y)' = Held(y)
    BY <2>1, CallsLists DEF SameLists
  <2>3. /\ at[Admin] # "flushing" \/ op[Admin].b = NULL
        /\ at'[Admin] # "flushing" \/ op'[Admin].b = NULL
    BY <1>3, Contexts
    DEF FlushEnds, Move, Append_blist, Pop_blist, Return, Returned, listVars, workVars,
        IdlePlaces, PopPlaces, AppendPlaces, PopPcs, LifeTypes, CallInv, CallRight, NoCall,
        PlacesOf
  <2>4. Held(Admin) = NULL /\ Held(Admin)' = NULL
    BY <1>3, Contexts
    DEF FlushEnds, Move, Append_blist, Pop_blist, Return, Returned, listVars, workVars, Held,
        IdlePlaces, PopPlaces, AppendPlaces, PopPcs, LifeTypes, CallInv, CallRight, NoCall,
        PlacesOf
  <2>5. /\ \A d \in Cpus : Kept(d)' = Kept(d)
        /\ \A d \in Cpus : /\ at'[Irq(d)] = at[Irq(d)] /\ at'[Ipi(d)] = at[Ipi(d)]
                           /\ op'[Irq(d)] = op[Irq(d)] /\ op'[Ipi(d)] = op[Ipi(d)]
    BY <2>1, <2>3, AdminKept DEF Calls
  <2>6. OwnInv' /\ AliveInv'
    <3>1. alive' = alive
      BY <1>3 DEF FlushEnds, workVars
    <3>2. \A y \in Ctxs : Held(y)' = Held(y)
      BY <2>2, <2>4
    <3> QED
      BY <2>2, <2>5, <3>1, <3>2, OwnSame
  <2>7. HandInv'
    BY <1>3, <2>1, <2>5, Contexts
    DEF FlushEnds, Move, Append_blist, Pop_blist, Return, Returned, listVars, workVars, HandInv,
        NoCall, LifeTypes
  <2>8. MadeInv'
    BY <1>3, <2>1, Contexts
    DEF FlushEnds, Move, Append_blist, Pop_blist, Return, Returned, listVars, workVars, MadeInv,
        ctlVars, LifeTypes
  <2>9. EmptyInv'
    BY <1>3, <2>1, <2>2, Contexts
    DEF FlushEnds, Move, Append_blist, Pop_blist, Return, Returned, listVars, workVars, EmptyInv,
        LifeTypes
  <2> QED
    BY <2>2, <2>6, <2>7, <2>8, <2>9
<1>4. ASSUME FreeNext PROVE ListsInv'
  <2>1. Calls(Admin) /\ Admin \in Ctxs /\ lbuffer' = lbuffer
    BY <1>4, CleanupControl, Contexts DEF CtlInv, FreeNext, workVars
  <2>2. /\ SameLists /\ ChainInv' /\ TailInv'
        /\ \A y \in Ctxs \ {Admin} : Held(y)' = Held(y)
    BY <2>1, CallsLists DEF SameLists
  <2>3. /\ at[Admin] # "flushing" \/ op[Admin].b = NULL
        /\ at'[Admin] # "flushing" \/ op'[Admin].b = NULL
    BY <1>4, Contexts
    DEF FreeNext, Move, Append_blist, Pop_blist, Return, Returned, listVars, workVars, IdlePlaces,
        PopPlaces, AppendPlaces, PopPcs, LifeTypes, CallInv, CallRight, NoCall, PlacesOf
  <2>4. Held(Admin) = NULL /\ Held(Admin)' = NULL
    BY <1>4, Contexts
    DEF FreeNext, Move, Append_blist, Pop_blist, Return, Returned, listVars, workVars, Held,
        IdlePlaces, PopPlaces, AppendPlaces, PopPcs, LifeTypes, CallInv, CallRight, NoCall,
        PlacesOf
  <2>5. /\ \A d \in Cpus : Kept(d)' = Kept(d)
        /\ \A d \in Cpus : /\ at'[Irq(d)] = at[Irq(d)] /\ at'[Ipi(d)] = at[Ipi(d)]
                           /\ op'[Irq(d)] = op[Irq(d)] /\ op'[Ipi(d)] = op[Ipi(d)]
    BY <2>1, <2>3, AdminKept DEF Calls
  <2>6. OwnInv' /\ AliveInv'
    <3>1. alive' = alive
      BY <1>4 DEF FreeNext, workVars
    <3>2. \A y \in Ctxs : Held(y)' = Held(y)
      BY <2>2, <2>4
    <3> QED
      BY <2>2, <2>5, <3>1, <3>2, OwnSame
  <2>7. HandInv'
    BY <1>4, <2>1, <2>5, Contexts
    DEF FreeNext, Move, Append_blist, Pop_blist, Return, Returned, listVars, workVars, HandInv,
        NoCall, LifeTypes
  <2>8. MadeInv'
    BY <1>4, <2>1, Contexts
    DEF FreeNext, Move, Append_blist, Pop_blist, Return, Returned, listVars, workVars, MadeInv,
        ctlVars, LifeTypes
  <2>9. EmptyInv'
    <3>1. /\ at'[Admin] = "freeing_full" /\ op'[Admin].pc = "pop_lock"
          /\ at[Admin] = "freeing_empty" /\ op[Admin].pc = "done" /\ op[Admin].b = NULL
      BY <1>4, Contexts DEF FreeNext, Move, Pop_blist, Returned, LifeTypes
    <3>2. Chain("empty")' = Chain("empty")
      BY <2>2, LifetimeAssumption DEF SameLists
    <3> QED
      BY <3>1, <3>2 DEF EmptyInv
  <2> QED
    BY <2>2, <2>6, <2>7, <2>8, <2>9
<1>5. ASSUME Removed PROVE ListsInv'
  <2>1. Calls(Admin) /\ Admin \in Ctxs /\ lbuffer' = lbuffer
    BY <1>5, CleanupControl, Contexts DEF CtlInv, Removed, workVars
  <2>2. /\ SameLists /\ ChainInv' /\ TailInv'
        /\ \A y \in Ctxs \ {Admin} : Held(y)' = Held(y)
    BY <2>1, CallsLists DEF SameLists
  <2>3. /\ at[Admin] # "flushing" \/ op[Admin].b = NULL
        /\ at'[Admin] # "flushing" \/ op'[Admin].b = NULL
    BY <1>5, Contexts
    DEF Removed, Move, Append_blist, Pop_blist, Return, Returned, listVars, workVars, IdlePlaces,
        PopPlaces, AppendPlaces, PopPcs, LifeTypes, CallInv, CallRight, NoCall, PlacesOf
  <2>4. Held(Admin) = NULL /\ Held(Admin)' = NULL
    BY <1>5, Contexts
    DEF Removed, Move, Append_blist, Pop_blist, Return, Returned, listVars, workVars, Held,
        IdlePlaces, PopPlaces, AppendPlaces, PopPcs, LifeTypes, CallInv, CallRight, NoCall,
        PlacesOf
  <2>5. /\ \A d \in Cpus : Kept(d)' = Kept(d)
        /\ \A d \in Cpus : /\ at'[Irq(d)] = at[Irq(d)] /\ at'[Ipi(d)] = at[Ipi(d)]
                           /\ op'[Irq(d)] = op[Irq(d)] /\ op'[Ipi(d)] = op[Ipi(d)]
    BY <2>1, <2>3, AdminKept DEF Calls
  <2>6. OwnInv' /\ AliveInv'
    <3>1. alive' = alive
      BY <1>5 DEF Removed, workVars
    <3>2. \A y \in Ctxs : Held(y)' = Held(y)
      BY <2>2, <2>4
    <3> QED
      BY <2>2, <2>5, <3>1, <3>2, OwnSame
  <2>7. HandInv'
    BY <1>5, <2>1, <2>5, Contexts
    DEF Removed, Move, Append_blist, Pop_blist, Return, Returned, listVars, workVars, HandInv,
        NoCall, LifeTypes
  <2>8. MadeInv'
    BY <1>5, <2>1, Contexts
    DEF Removed, Move, Append_blist, Pop_blist, Return, Returned, listVars, workVars, MadeInv,
        ctlVars, LifeTypes
  <2>9. EmptyInv'
    <3>1. /\ at[Admin] = "freeing_full" /\ op[Admin].pc = "done" /\ op[Admin].b = NULL
          /\ at'[Admin] = "gone" /\ alive' = alive
      BY <1>5, Contexts DEF Removed, Move, Returned, LifeTypes
    <3>2. ReadersClosed => alive = {}
      BY <3>1, ListsEmptied
    <3> QED
      BY <3>1, <3>2 DEF EmptyInv
  <2> QED
    BY <2>2, <2>6, <2>7, <2>8, <2>9
<1> QED
  BY <1>1, <1>2, <1>3, <1>4, <1>5

\* Stopping a CPU leaves its buffer with it.
LEMMA StopLocalLists ==
  ASSUME CtlInv, ListsInv
  PROVE  \A c \in Cpus : StopLocal(c) => ListsInv'
<1> USE DEF CtlInv, ListsInv
<1>1. ASSUME NEW c \in Cpus, StopLocal(c) PROVE ListsInv'
  <2>1. Calls(Admin) /\ Admin \in Ctxs /\ lbuffer' = lbuffer
    BY <1>1, IpiControl, Contexts DEF CtlInv, StopLocal, workVars
  <2>2. /\ SameLists /\ ChainInv' /\ TailInv'
        /\ \A y \in Ctxs \ {Admin} : Held(y)' = Held(y)
    BY <2>1, CallsLists DEF SameLists
  <2>3. op' = op /\ at' = at /\ at[Admin] # "flushing"
    BY <1>1 DEF StopLocal, listVars, workVars
  <2>4. Held(Admin)' = Held(Admin)
    BY <2>3 DEF Held
  <2>5. /\ \A d \in Cpus : Kept(d)' = Kept(d)
        /\ \A d \in Cpus : /\ at'[Irq(d)] = at[Irq(d)] /\ at'[Ipi(d)] = at[Ipi(d)]
                           /\ op'[Irq(d)] = op[Irq(d)] /\ op'[Ipi(d)] = op[Ipi(d)]
    BY <2>1, <2>3, AdminKept DEF Calls
  <2>6. OwnInv' /\ AliveInv'
    <3>1. alive' = alive
      BY <1>1 DEF StopLocal, workVars
    <3>2. \A y \in Ctxs : Held(y)' = Held(y)
      BY <2>2, <2>4
    <3> QED
      BY <2>2, <2>5, <3>1, <3>2, OwnSame
  <2>7. HandInv'
    BY <1>1, <2>1, <2>5, Contexts
    DEF StopLocal, Move, Append_blist, Pop_blist, Return, Returned, listVars, workVars, HandInv,
        NoCall, LifeTypes
  <2>8. MadeInv'
    BY <1>1, <2>1, Contexts
    DEF StopLocal, Move, Append_blist, Pop_blist, Return, Returned, listVars, workVars, MadeInv,
        ctlVars, LifeTypes
  <2>9. EmptyInv'
    BY <1>1, <2>1, <2>2, Contexts
    DEF StopLocal, Move, Append_blist, Pop_blist, Return, Returned, listVars, workVars, EmptyInv,
        LifeTypes
  <2> QED
    BY <2>2, <2>6, <2>7, <2>8, <2>9
<1> QED
  BY <1>1

\* A new buffer is with init_module until append_blist has linked it.
LEMMA AllocateLists ==
  ASSUME CtlInv, ListsInv, Allocate
  PROVE  ListsInv'
<1> USE DEF CtlInv, ListsInv
<1> DEFINE b == CHOOSE x \in Buffers : x \notin alive
<1>1. /\ b \in Buffers \ alive /\ alive' = alive \cup {b} /\ made' = made + 1
      /\ op' = [op EXCEPT ![Admin] = [pc |-> "append_lock", list |-> "empty", b |-> b]]
      /\ at[Admin] = "allocating" /\ op[Admin] = NoCall /\ at' = at /\ lbuffer' = lbuffer
  <2>1. \E x \in Buffers : x \notin alive
    BY Spare DEF Allocate
  <2> QED
    BY <2>1 DEF Allocate, Append_blist
<1> HIDE DEF b
<1>2. Calls(Admin) /\ Admin \in Ctxs
  BY LoadControl, Contexts
<1>3. /\ SameLists /\ ChainInv' /\ TailInv'
      /\ \A y \in Ctxs \ {Admin} : Held(y)' = Held(y)
  BY <1>2, CallsLists DEF SameLists
<1>4. Held(Admin) = NULL /\ Held(Admin)' = b
  BY <1>1, <1>2 DEF Held, NoCall, PopPlaces, LifeTypes
<1>5. /\ \A d \in Cpus : Kept(d)' = Kept(d)
      /\ \A d \in Cpus : /\ at'[Irq(d)] = at[Irq(d)] /\ at'[Ipi(d)] = at[Ipi(d)]
                         /\ op'[Irq(d)] = op[Irq(d)] /\ op'[Ipi(d)] = op[Ipi(d)]
  BY <1>1, <1>2, AdminKept DEF Calls
<1>6. OwnInv' /\ AliveInv'
  BY <1>1, <1>2, <1>3, <1>4, <1>5, OwnNew
<1>7. HandInv'
  BY <1>1, <1>5 DEF HandInv
<1>8. MadeInv'
  <2>1. alive \subseteq Buffers /\ IsFiniteSet(alive) /\ Cardinality(alive) \in Nat
    BY BlistAssumption, FS_Subset, FS_CardinalityType DEF LifeTypes
  <2>2. Cardinality(alive \cup {b}) = Cardinality(alive) + 1
    BY <1>1, <2>1, FS_AddElement
  <2> QED
    BY <1>1, <2>1, <2>2 DEF MadeInv, LifeTypes
<1>9. EmptyInv'
  BY <1>1 DEF EmptyInv
<1> QED
  BY <1>3, <1>6, <1>7, <1>8, <1>9

\* What cleanup_module has popped is nowhere else, so it may be freed.
LEMMA FreeLists ==
  ASSUME CtlInv, ListsInv, Free
  PROVE  ListsInv'
<1> USE DEF CtlInv, ListsInv
<1>1. /\ at[Admin] \in {"freeing_empty", "freeing_full"} /\ op[Admin].pc = "done"
      /\ op[Admin].b # NULL /\ at' = at /\ lbuffer' = lbuffer
      /\ alive' = alive \ {op[Admin].b}
      /\ Pop_blist(Admin, IF at[Admin] = "freeing_empty" THEN "empty" ELSE "full")
  BY DEF Free, Returned
<1>2. Calls(Admin) /\ Admin \in Ctxs
  BY CleanupControl, Contexts
<1>3. /\ SameLists /\ ChainInv' /\ TailInv'
      /\ \A y \in Ctxs \ {Admin} : Held(y)' = Held(y)
  BY <1>2, CallsLists DEF SameLists
<1>4. op'[Admin].pc = "pop_lock" /\ op'[Admin].b = NULL
  BY <1>1, <1>2 DEF Pop_blist, LifeTypes
<1>5. Held(Admin) = op[Admin].b /\ Held(Admin)' = NULL
  BY <1>1, <1>4 DEF Held, PopPlaces
<1>6. /\ \A d \in Cpus : Kept(d)' = Kept(d)
      /\ \A d \in Cpus : /\ at'[Irq(d)] = at[Irq(d)] /\ at'[Ipi(d)] = at[Ipi(d)]
                         /\ op'[Irq(d)] = op[Irq(d)] /\ op'[Ipi(d)] = op[Ipi(d)]
  BY <1>1, <1>2, AdminKept DEF Calls
<1>7. OwnInv' /\ AliveInv'
  BY <1>1, <1>2, <1>3, <1>5, <1>6, OwnFree
<1>8. HandInv'
  <2>1. \A c \in Cpus : lbuffer[c] = NULL
    BY <1>1 DEF PhaseInv
  <2> QED
    BY <1>1, <1>6, <2>1 DEF HandInv
<1>9. MadeInv'
  BY <1>1 DEF MadeInv
<1>10. EmptyInv'
  <2>1. Chain("empty")' = Chain("empty")
    BY <1>3, LifetimeAssumption DEF SameLists
  <2> QED
    BY <1>1, <1>4, <2>1 DEF EmptyInv
<1> QED
  BY <1>3, <1>7, <1>8, <1>9, <1>10

\* cleanup_module takes over the buffer of a CPU whose interrupt is gone.
LEMMA FlushLists ==
  ASSUME CtlInv, ListsInv, NEW c \in Cpus, Flush(c)
  PROVE  ListsInv'
<1> USE DEF CtlInv, ListsInv
<1>1. /\ at[Admin] = "flushing" /\ op[Admin] = NoCall /\ lbuffer[c] # NULL
      /\ op' = [op EXCEPT ![Admin] = [pc |-> "append_lock", list |-> "full", b |-> lbuffer[c]]]
      /\ at' = at /\ lbuffer' = lbuffer /\ alive' = alive /\ made' = made
  BY DEF Flush, Append_blist, workVars, ctlVars
<1>2. Calls(Admin) /\ Admin \in Ctxs
  BY CleanupControl, Contexts
<1>3. /\ SameLists /\ ChainInv' /\ TailInv'
      /\ \A y \in Ctxs \ {Admin} : Held(y)' = Held(y)
  BY <1>2, CallsLists DEF SameLists
<1>4. \A d \in Cpus : /\ at'[Irq(d)] = at[Irq(d)] /\ at'[Ipi(d)] = at[Ipi(d)]
                      /\ op'[Irq(d)] = op[Irq(d)] /\ op'[Ipi(d)] = op[Ipi(d)]
                      /\ at[Irq(d)] = "out" /\ at[Ipi(d)] = "out"
  BY <1>1, <1>2, Contexts DEF Calls, By, PhaseInv, InDriver
<1>5. op'[Admin].b = lbuffer[c] /\ op'[Admin].pc = "append_lock"
  BY <1>1, <1>2 DEF LifeTypes
<1>6. Held(Admin) = NULL /\ Held(Admin)' = lbuffer[c]
  BY <1>1, <1>5 DEF Held, NoCall, PopPlaces
<1>7. Kept(c) = lbuffer[c] /\ Kept(c)' = NULL
  BY <1>1, <1>4, <1>5 DEF Kept, Away, NoCall
<1>8. ASSUME NEW d \in Cpus \ {c} PROVE Kept(d)' = Kept(d)
  <2>1. lbuffer[d] # lbuffer[c]
    BY <1>1 DEF HandInv
  <2> QED
    BY <1>1, <1>4, <1>5, <2>1 DEF Kept, Away, NoCall
<1>9. OwnInv' /\ AliveInv'
  <2>1. Held(Admin)' = Kept(c)
    BY <1>6, <1>7
  <2> QED
    BY <1>1, <1>2, <1>3, <1>6, <1>7, <1>8, <2>1, OwnGive
<1>10. HandInv'
  BY <1>1, <1>4, <1>5 DEF HandInv
<1>11. MadeInv' /\ EmptyInv'
  BY <1>1 DEF MadeInv, EmptyInv
<1> QED
  BY <1>3, <1>9, <1>10, <1>11

\* The CPU forgets its buffer when the list has it.
LEMMA FlushedLists ==
  ASSUME CtlInv, ListsInv, NEW c \in Cpus, Flushed(c)
  PROVE  ListsInv'
<1> USE DEF CtlInv, ListsInv
<1>1. /\ at[Admin] = "flushing" /\ op[Admin].pc = "done" /\ lbuffer[c] = op[Admin].b
      /\ op' = [op EXCEPT ![Admin] = NoCall] /\ lbuffer' = [lbuffer EXCEPT ![c] = NULL]
      /\ at' = at /\ alive' = alive /\ made' = made
  BY DEF Flushed, Returned, Return, ctlVars
<1>2. Calls(Admin) /\ Admin \in Ctxs
  BY CleanupControl, Contexts
<1>3. /\ SameLists /\ ChainInv' /\ TailInv'
      /\ \A y \in Ctxs \ {Admin} : Held(y)' = Held(y)
  BY <1>2, CallsLists DEF SameLists
<1>4. \A d \in Cpus : /\ at'[Irq(d)] = at[Irq(d)] /\ at'[Ipi(d)] = at[Ipi(d)]
                      /\ op'[Irq(d)] = op[Irq(d)] /\ op'[Ipi(d)] = op[Ipi(d)]
                      /\ at[Irq(d)] = "out" /\ at[Ipi(d)] = "out"
  BY <1>1, <1>2, Contexts DEF Calls, By, PhaseInv, InDriver
<1>5. op'[Admin] = NoCall /\ lbuffer'[c] = NULL /\ \A d \in Cpus \ {c} : lbuffer'[d] = lbuffer[d]
  BY <1>1, <1>2 DEF LifeTypes
<1>6. op[Admin].b # NULL
  BY <1>1, <1>2 DEF CallInv, CallRight, NoCall, IdlePlaces, PopPlaces, AppendPlaces
<1>7. Held(Admin) = NULL /\ Held(Admin)' = NULL
  BY <1>1, <1>5 DEF Held, NoCall, PopPlaces
<1>8. ASSUME NEW d \in Cpus PROVE Kept(d)' = Kept(d)
  <2>1. CASE d = c
    BY <1>1, <1>5, <2>1 DEF Kept, Away
  <2>2. CASE d # c
    <3>1. lbuffer[d] # op[Admin].b
      BY <1>1, <1>6, <2>2 DEF HandInv
    <3> QED
      BY <1>1, <1>4, <1>5, <2>2, <3>1 DEF Kept, Away, NoCall
  <2> QED
    BY <2>1, <2>2
<1>9. OwnInv' /\ AliveInv'
  <2>1. \A y \in Ctxs : Held(y)' = Held(y)
    BY <1>3, <1>7
  <2> QED
    BY <1>1, <1>3, <1>8, <2>1, OwnSame
<1>10. HandInv'
  BY <1>1, <1>4, <1>5 DEF HandInv
<1>11. MadeInv' /\ EmptyInv'
  BY <1>1 DEF MadeInv, EmptyInv
<1> QED
  BY <1>3, <1>9, <1>10, <1>11

-----------------------------------------------------------------------------
(* The steps of the list functions                                         *)

\* A list is what its pointers link.
LEMMA ChainNext ==
  ASSUME NEW l \in Lists, NEW s, LinkedAs(head'[l], nextBuffer', s)
  PROVE  Chain(l)' = s
<1>1. PICK first, next : first = head'[l] /\ next = nextBuffer'
  OBVIOUS
<1>2. Follow(first, next) = s
  BY <1>1, FollowIs
<1> QED
  BY <1>1, <1>2 DEF Chain

\* A step in a critical section of one list disturbs what is known of no other.
LEMMA TailStep ==
  ASSUME CtlInv, CtlInv', OwnInv, TailInv, NEW x \in Ctxs, By(x), at' = at,
         NEW l \in Lists, op[x].list = l, op'[x].list = l,
         op[x].pc \in HoldPcs \/ lock[l] = NULL,
         \A k \in Lists \ {l} : Chain(k)' = Chain(k) /\ tail'[k] = tail[k] /\ lock'[k] = lock[k],
         \A b \in Buffers : nextBuffer'[b] = nextBuffer[b] \/ b = Held(x) \/ b \in ToSet(Chain(l)),
         TailRight(l)' \/ Lags(l)', Knows(x)'
  PROVE  TailInv'
<1>1. ASSUME NEW k \in Lists PROVE TailRight(k)' \/ Lags(k)'
  <2>1. CASE k = l
    BY <2>1
  <2>2. CASE k # l
    <3>1. TailRight(k) \/ Lags(k)
      BY DEF TailInv
    <3>2. TailRight(k)' <=> TailRight(k)
      BY <2>2 DEF TailRight
    <3>3. lock[k] # NULL => lock[k] \in Ctxs /\ lock[k] # x
      BY <2>2 DEF CtlInv, LockInv, LifeTypes
    <3>4. lock'[k] = lock[k]
      BY <2>2
    <3> QED
      BY <3>1, <3>2, <3>3, <3>4 DEF Lags, By
  <2> QED
    BY <2>1, <2>2
<1>2. ASSUME NEW y \in Ctxs PROVE Knows(y)'
  <2>1. CASE y = x
    BY <2>1
  <2>2. CASE y # x /\ op[y].pc \notin HoldPcs
    BY <2>2 DEF Knows, HoldPcs, By
  <2>3. CASE y # x /\ op[y].pc \in HoldPcs
    <3>1. op'[y] = op[y] /\ at'[y] = at[y] /\ Knows(y) /\ op[y].list \in Lists
      BY <2>3, Inside DEF By, TailInv, CtlInv, HoldPcs
    <3>2. op[y].list # l
      BY <2>3, BlistAssumption DEF CtlInv, LockInv
    <3>3. /\ Chain(op[y].list)' = Chain(op[y].list) /\ tail'[op[y].list] = tail[op[y].list]
          /\ TailRight(op[y].list)' <=> TailRight(op[y].list)
      BY <3>1, <3>2 DEF TailRight
    <3>4. op[y].pc = "append_link" => nextBuffer'[op[y].b] = nextBuffer[op[y].b]
      <4>1. op[y].pc = "append_link" => Held(y) = op[y].b /\ op[y].b \in Buffers
        BY Inside DEF Held, CtlInv
      <4> QED
        BY <4>1, <2>3, BlistAssumption DEF OwnInv
    <3> QED
      BY <3>1, <3>3, <3>4 DEF Knows
  <2> QED
    BY <2>1, <2>2, <2>3
<1> QED
  BY <1>1, <1>2 DEF TailInv

\* In a list function the buffers of the CPUs and what is known of them stay as they are.
LEMMA ListFrame ==
  ASSUME CtlInv, HandInv, MadeInv, NEW x \in Ctxs, InList(x)
  PROVE  /\ at' = at /\ alive' = alive /\ lbuffer' = lbuffer /\ made' = made
         /\ HandInv' /\ MadeInv'
         /\ \A c \in Cpus : Kept(c)' = Kept(c)
         /\ \A y \in Ctxs \ {x} : Held(y)' = Held(y)
         /\ op[x].pc # "none"
<1>1. at' = at /\ alive' = alive /\ lbuffer' = lbuffer /\ made' = made /\ ListStep(x) /\ By(x)
  BY ListControl DEF InList, workVars, ctlVars
<1>2. op[x].pc # "none"
  BY <1>1 DEF ListStep, Lock, Unlock, AppendNext, AppendEmpty, AppendBehind, AppendTail,
              PopNothing, PopHead, PopTail, PopNext
<1>3. at[x] \in AppendPlaces => op'[x].b = op[x].b
  <2>1. at[x] \in AppendPlaces => op[x].pc # "pop_head"
    BY <1>2, Inside DEF CtlInv
  <2>2. op[x].pc # "pop_head" => \E pc : Goto(x, pc)
    BY <1>1 DEF ListStep, Lock, Unlock, AppendNext, AppendEmpty, AppendBehind, AppendTail,
                PopNothing, PopHead, PopTail, PopNext
  <2> QED
    BY <2>1, <2>2 DEF Goto, CtlInv, LifeTypes
<1>4. \A y \in Ctxs : at[y] \in AppendPlaces => op'[y].b = op[y].b
  BY <1>1, <1>3 DEF By
<1>5. op[Admin] = NoCall => op'[Admin] = op[Admin]
  BY <1>1, <1>2, Contexts DEF By, NoCall
<1>6. \A c \in Cpus : /\ at[Irq(c)] = "appended" => op'[Irq(c)].b = op[Irq(c)].b
                      /\ at[Ipi(c)] = "giving" => op'[Ipi(c)].b = op[Ipi(c)].b
  BY <1>4, Contexts DEF AppendPlaces
<1>7. at[Admin] = "flushing" => op'[Admin].b = op[Admin].b
  BY <1>4, Contexts DEF AppendPlaces
<1>8. HandInv'
  BY <1>1, <1>5, <1>6, <1>7 DEF HandInv
<1>9. \A c \in Cpus : Kept(c)' = Kept(c)
  BY <1>1, <1>7 DEF Kept, Away
<1>10. \A y \in Ctxs \ {x} : Held(y)' = Held(y)
  BY <1>1 DEF Held, By
<1> QED
  BY <1>1, <1>2, <1>8, <1>9, <1>10 DEF MadeInv

\* Writing the pointer of the buffer that a context holds changes no list.
LEMMA HeldFrame ==
  ASSUME ChainInv, OwnInv, NEW x \in Ctxs, Held(x) # NULL, head' = head,
         \A b \in Buffers \ {Held(x)} : nextBuffer'[b] = nextBuffer[b]
  PROVE  SameLists /\ ChainInv'
<1>1. ASSUME NEW l \in Lists
      PROVE  Chain(l)' = Chain(l) /\ LinkedAs(head'[l], nextBuffer', Chain(l))
  <2>1. PICK first, next, next2, s, b : /\ first = head[l] /\ next = nextBuffer /\ next2 = nextBuffer'
                                        /\ s = Chain(l) /\ b = Held(x)
    OBVIOUS
  <2>2. LinkedAs(first, next, s) /\ b \notin ToSet(s)
    BY <2>1 DEF ChainInv, OwnInv
  <2>3. \A d \in Buffers \ {b} : next2[d] = next[d]
    BY <2>1
  <2>4. LinkedAs(first, next2, s)
    BY <2>2, <2>3, LinkFrame
  <2>5. LinkedAs(head'[l], nextBuffer', s)
    BY <2>1, <2>4
  <2> QED
    BY <2>1, <2>5, ChainNext
<1> QED
  BY <1>1 DEF SameLists, ChainInv

\* Lists are the same as long as head and nextBuffer are.
LEMMA SamePointers ==
  ASSUME ChainInv, head' = head, nextBuffer' = nextBuffer
  PROVE  SameLists /\ ChainInv'
BY DEF SameLists, ChainInv, Chain

\* The steps that neither link a buffer nor advance head.
Quiet(x) ==
  Lock(x) \/ Unlock(x) \/ AppendNext(x) \/ AppendTail(x) \/ PopNothing(x) \/ PopTail(x) \/ PopNext(x)

\* Most steps of the list functions change no list.
LEMMA QuietLists ==
  ASSUME CtlInv, ListsInv, NEW x \in Ctxs, InList(x), Quiet(x)
  PROVE  SameLists /\ ChainInv' /\ TailInv' /\ OwnInv' /\ AliveInv'
<1> USE DEF CtlInv, ListsInv
<1>0. PICK l, b : l = op[x].list /\ b = op[x].b
  OBVIOUS
<1>1. /\ By(x) /\ at' = at /\ op'[x].list = l /\ CtlInv' /\ op[x].pc # "none" /\ l \in Lists
      /\ alive' = alive /\ \A c \in Cpus : Kept(c)' = Kept(c)
      /\ \A y \in Ctxs \ {x} : Held(y)' = Held(y)
  BY <1>0, ListControl, ListFrame, Inside
<1>2. op[x].pc \in {"append_lock", "append_next", "append_link", "append_tail"} => b \in Buffers /\ at[x] \in AppendPlaces
  BY <1>0, <1>1, Inside
<1>3. op[x].pc = "pop_next" => b \in Buffers
  BY <1>0, Inside
<1>4. op[x].pc \in {"pop_lock", "pop_head", "pop_tail", "pop_next"} => at[x] \in PopPlaces
  BY <1>0, <1>1, Inside
<1>5. at[x] \in AppendPlaces <=> at[x] \notin PopPlaces
  BY <1>0, <1>1, Inside
<1>6. op[x].pc \in HoldPcs => lock[l] = x
  BY <1>0 DEF LockInv
<1>7. TailRight(l) \/ Lags(l)
  BY <1>1 DEF TailInv
<1>8. ASSUME SameLists, ChainInv', TailRight(l)', Knows(x)', Held(x)' = Held(x),
             op[x].pc \in HoldPcs \/ lock[l] = NULL,
             \A k \in Lists \ {l} : tail'[k] = tail[k] /\ lock'[k] = lock[k],
             \A d \in Buffers : nextBuffer'[d] = nextBuffer[d] \/ d = Held(x)
      PROVE  SameLists /\ ChainInv' /\ TailInv' /\ OwnInv' /\ AliveInv'
  <2>1. TailInv'
    BY <1>0, <1>1, <1>8, TailStep DEF SameLists
  <2>2. \A y \in Ctxs : Held(y)' = Held(y)
    BY <1>1, <1>8
  <2>3. OwnInv' /\ AliveInv'
    BY <1>1, <1>8, <2>2, OwnSame
  <2> QED
    BY <1>8, <2>1, <2>3
<1>10. CASE Lock(x)
  <2>1. /\ op[x].pc \in {"append_lock", "pop_lock"} /\ lock[l] = NULL
        /\ UNCHANGED <<head, tail, nextBuffer>> /\ lock' = [lock EXCEPT ![l] = x]
        /\ op'[x].pc \in {"append_next", "pop_head"} /\ op'[x].b = op[x].b
    BY <1>0, <1>10, <1>1 DEF Lock, Goto, LifeTypes
  <2>2. SameLists /\ ChainInv'
    BY <2>1, SamePointers
  <2>3. TailRight(l)'
    BY <1>1, <1>7, <2>1, <2>2 DEF SameLists, TailRight, Lags
  <2>4. Knows(x)'
    BY <1>0, <2>1 DEF Knows
  <2>5. op'[x].pc = "append_next" <=> op[x].pc = "append_lock"
    BY <1>10, <2>1 DEF Lock, Goto, LifeTypes
  <2>6. Held(x)' = Held(x)
    BY <1>1, <1>4, <2>1, <2>5 DEF Held
  <2> QED
    BY <1>8, <2>1, <2>2, <2>3, <2>4, <2>6 DEF LifeTypes
<1>11. CASE Unlock(x)
  <2>1. /\ op[x].pc = "unlock" /\ UNCHANGED <<head, tail, nextBuffer>>
        /\ lock' = [lock EXCEPT ![l] = NULL]
        /\ op'[x].pc = "done" /\ op'[x].b = op[x].b
    BY <1>0, <1>11, <1>1 DEF Unlock, Goto, LifeTypes
  <2>2. SameLists /\ ChainInv'
    BY <2>1, SamePointers
  <2>3. lock[l] = x
    BY <1>6, <2>1 DEF HoldPcs
  <2>4. TailRight(l)'
    BY <1>1, <1>7, <2>1, <2>2, <2>3 DEF SameLists, TailRight, Lags
  <2>5. Knows(x)'
    BY <1>0, <2>1 DEF Knows
  <2>6. Held(x)' = Held(x)
    BY <1>1, <2>1 DEF Held
  <2> QED
    BY <1>8, <2>1, <2>2, <2>4, <2>5, <2>6 DEF LifeTypes, HoldPcs
<1>12. CASE AppendNext(x)
  <2>1. /\ op[x].pc = "append_next" /\ UNCHANGED <<head, tail, lock>>
        /\ nextBuffer' = [nextBuffer EXCEPT ![b] = NULL] /\ b \in Buffers
        /\ op'[x].pc = "append_link" /\ op'[x].b = b
    BY <1>0, <1>12, <1>1, <1>2 DEF AppendNext, Goto, LifeTypes
  <2>2. Held(x) = b /\ Held(x)' = b /\ b # NULL
    BY <1>0, <2>1, BlistAssumption DEF Held
  <2>3. SameLists /\ ChainInv'
    BY <2>1, <2>2, HeldFrame DEF LifeTypes
  <2>4. lock[l] = x
    BY <1>6, <2>1 DEF HoldPcs
  <2>5. TailRight(l)'
    BY <1>1, <1>7, <2>1, <2>3, <2>4 DEF SameLists, TailRight, Lags
  <2>6. Knows(x)'
    BY <1>0, <2>1 DEF Knows, LifeTypes
  <2> QED
    BY <1>8, <2>1, <2>2, <2>3, <2>5, <2>6 DEF LifeTypes, HoldPcs
<1>13. CASE AppendTail(x)
  <2>1. /\ op[x].pc = "append_tail" /\ UNCHANGED <<head, nextBuffer, lock>>
        /\ tail' = [tail EXCEPT ![l] = b] /\ op'[x].pc = "unlock" /\ op'[x].b = b
        /\ at[x] \notin PopPlaces
    BY <1>0, <1>13, <1>1, <1>2, <1>5 DEF AppendTail, Goto, LifeTypes
  <2>2. SameLists /\ ChainInv'
    BY <2>1, SamePointers
  <2>3. Chain(l) # <<>> /\ Last(Chain(l)) = b
    BY <1>0, <2>1 DEF TailInv, Knows
  <2>4. Chain(l)' = Chain(l) /\ tail'[l] = b
    BY <1>1, <2>1, <2>2 DEF SameLists, LifeTypes
  <2>5. TailRight(l)'
    BY <2>3, <2>4 DEF TailRight
  <2>6. b \in ToSet(Chain(l))
    BY <1>1, <2>3, FirstOf DEF ChainInv
  <2>7. Knows(x)'
    BY <1>0, <1>1, <2>1, <2>4, <2>6 DEF Knows
  <2>8. Held(x)' = Held(x)
    BY <1>1, <2>1 DEF Held
  <2> QED
    BY <1>8, <2>1, <2>2, <2>5, <2>7, <2>8 DEF LifeTypes, HoldPcs
<1>14. CASE PopNothing(x)
  <2>1. /\ op[x].pc = "pop_head" /\ UNCHANGED <<head, tail, nextBuffer, lock>>
        /\ op'[x].pc = "unlock" /\ op'[x].b = op[x].b /\ at[x] \in PopPlaces
    BY <1>14, <1>1, <1>4 DEF PopNothing, Goto, LifeTypes
  <2>2. SameLists /\ ChainInv'
    BY <2>1, SamePointers
  <2>3. lock[l] = x
    BY <1>6, <2>1 DEF HoldPcs
  <2>4. TailRight(l)'
    BY <1>1, <1>7, <2>1, <2>2, <2>3 DEF SameLists, TailRight, Lags
  <2>5. Knows(x)'
    BY <1>0, <1>1, <1>5, <2>1 DEF Knows
  <2>6. Held(x)' = Held(x)
    BY <1>1, <2>1 DEF Held
  <2> QED
    BY <1>8, <2>1, <2>2, <2>4, <2>5, <2>6 DEF HoldPcs
<1>15. CASE PopTail(x)
  <2>1. /\ op[x].pc = "pop_tail" /\ UNCHANGED <<head, nextBuffer, lock>>
        /\ tail' = IF head[l] = NULL THEN [tail EXCEPT ![l] = NULL] ELSE tail
        /\ op'[x].pc = "pop_next" /\ op'[x].b = op[x].b /\ at[x] \in PopPlaces
    BY <1>0, <1>15, <1>1, <1>4 DEF PopTail, Goto, LifeTypes
  <2>2. SameLists /\ ChainInv'
    BY <2>1, SamePointers
  <2>3. Chain(l) = <<>> \/ TailRight(l)
    BY <1>0, <2>1 DEF TailInv, Knows
  <2>4. head[l] = NULL <=> Chain(l) = <<>>
    BY <1>1, FirstOf DEF ChainInv
  <2>5. Chain(l)' = Chain(l) /\ tail'[l] = IF head[l] = NULL THEN NULL ELSE tail[l]
    BY <1>1, <2>1, <2>2 DEF SameLists, LifeTypes
  <2>6. TailRight(l)'
    BY <2>3, <2>4, <2>5 DEF TailRight
  <2>7. Knows(x)'
    BY <1>0, <2>1 DEF Knows
  <2>8. Held(x)' = Held(x)
    BY <1>1, <2>1 DEF Held
  <2> QED
    BY <1>8, <2>1, <2>2, <2>6, <2>7, <2>8 DEF LifeTypes, HoldPcs
<1>16. CASE PopNext(x)
  <2>1. /\ op[x].pc = "pop_next" /\ UNCHANGED <<head, tail, lock>> /\ at[x] \in PopPlaces
        /\ nextBuffer' = [nextBuffer EXCEPT ![b] = NULL] /\ b \in Buffers
        /\ op'[x].pc = "unlock" /\ op'[x].b = b
    BY <1>0, <1>16, <1>1, <1>3, <1>4 DEF PopNext, Goto, LifeTypes
  <2>2. Held(x) = b /\ Held(x)' = b /\ b # NULL
    BY <1>0, <1>1, <2>1, BlistAssumption DEF Held
  <2>3. SameLists /\ ChainInv'
    BY <2>1, <2>2, HeldFrame DEF LifeTypes
  <2>4. lock[l] = x
    BY <1>6, <2>1 DEF HoldPcs
  <2>5. TailRight(l)'
    BY <1>1, <1>7, <2>1, <2>3, <2>4 DEF SameLists, TailRight, Lags
  <2>6. Knows(x)'
    BY <1>0, <1>1, <1>5, <2>1 DEF Knows
  <2> QED
    BY <1>8, <2>1, <2>2, <2>3, <2>5, <2>6 DEF LifeTypes, HoldPcs
<1> QED
  BY <1>10, <1>11, <1>12, <1>13, <1>14, <1>15, <1>16 DEF Quiet

\* Appending adds one element, at the end.
LEMMA PutOne ==
  ASSUME NEW s \in Seq(Buffers), NEW b \in Buffers
  PROVE  /\ Append(s, b) # <<>> /\ Last(Append(s, b)) = b
         /\ ToSet(Append(s, b)) = ToSet(s) \cup {b}
<1> DEFINE n == Len(s)
           t == Append(s, b)
<1>1. t \in Seq(Buffers) /\ n \in Nat /\ Len(t) = n + 1 /\ t[n + 1] = b
      /\ \A i \in 1 .. n : t[i] = s[i]
  OBVIOUS
<1>2. (1 .. n + 1) = (1 .. n) \cup {n + 1}
  BY <1>1
<1> HIDE DEF t, n
<1>3. t # <<>>
  BY <1>1
<1>4. Last(t) = b
  BY <1>1 DEF Last
<1>5. \A d : d \in ToSet(t) <=> \E i \in 1 .. n + 1 : t[i] = d
  BY <1>1, InSet
<1>6. \A d : d \in ToSet(s) <=> \E i \in 1 .. n : s[i] = d
  BY InSet DEF n
<1>7. \A d : d \in ToSet(t) <=> d \in ToSet(s) \cup {b}
  BY <1>1, <1>2, <1>5, <1>6
<1> QED
  BY <1>3, <1>4, <1>7 DEF t

\* Linking the buffer puts it behind all others of its list.
LEMMA PutLists ==
  ASSUME CtlInv, ListsInv, NEW x \in Ctxs, InList(x), AppendEmpty(x) \/ AppendBehind(x)
  PROVE  /\ ChainInv' /\ TailInv' /\ OwnInv' /\ AliveInv'
         /\ \E l \in Lists, b \in Buffers :
              /\ l = op[x].list /\ Chain(l)' = Append(Chain(l), b)
              /\ \A k \in Lists : b \notin ToSet(Chain(k))
              /\ \A k \in Lists \ {l} : Chain(k)' = Chain(k)
<1> USE DEF CtlInv, ListsInv
<1>0. PICK l, b, s, first, next : /\ l = op[x].list /\ b = op[x].b /\ s = Chain(l)
                                  /\ first = head[l] /\ next = nextBuffer
  OBVIOUS
<1>1. /\ By(x) /\ at' = at /\ op'[x].list = l /\ CtlInv' /\ op[x].pc # "none" /\ l \in Lists
      /\ alive' = alive /\ \A c \in Cpus : Kept(c)' = Kept(c)
      /\ \A y \in Ctxs \ {x} : Held(y)' = Held(y)
  BY <1>0, ListControl, ListFrame, Inside
<1>2. /\ op[x].pc = "append_link" /\ b \in Buffers /\ b # NULL /\ at[x] \notin PopPlaces
      /\ op'[x].pc = "append_tail" /\ op'[x].b = b
      /\ tail' = tail /\ lock' = lock
  <2>1. op[x].pc = "append_link" /\ Goto(x, "append_tail") /\ tail' = tail /\ lock' = lock
    BY DEF AppendEmpty, AppendBehind
  <2> QED
    BY <1>0, <2>1, Inside, BlistAssumption DEF Goto, LifeTypes
<1>3. lock[l] = x /\ TailRight(l) /\ next[b] = NULL
  <2>1. lock[l] = x
    BY <1>0, <1>2 DEF LockInv, HoldPcs
  <2>2. TailRight(l)
    BY <1>1, <1>2, <2>1 DEF TailInv, Lags
  <2>3. next[b] = NULL
    BY <1>0, <1>2 DEF TailInv, Knows
  <2> QED
    BY <2>1, <2>2, <2>3
<1>4. Held(x) = b /\ Held(x)' = NULL
  BY <1>0, <1>1, <1>2 DEF Held
<1>5. \A k \in Lists : b \notin ToSet(Chain(k))
  BY <1>4 DEF OwnInv
<1>6. LinkedAs(first, next, s) /\ s \in Seq(Buffers)
  BY <1>0, <1>1 DEF ChainInv, LinkedAs
<1>7. s # <<>> => Last(s) \in ToSet(s) /\ Last(s) \in Buffers /\ Last(s) # NULL
  BY <1>6, FirstOf
<1>8. /\ LinkedAs(head'[l], nextBuffer', Append(s, b))
      /\ \A k \in Lists \ {l} : LinkedAs(head'[k], nextBuffer', Chain(k))
      /\ \A d \in Buffers : nextBuffer'[d] = nextBuffer[d] \/ d \in ToSet(s)
  <2>1. CASE AppendEmpty(x)
    <3>1. head' = [head EXCEPT ![l] = b] /\ nextBuffer' = nextBuffer
      BY <1>0, <2>1 DEF AppendEmpty
    <3>2. head[l] = NULL \/ tail[l] = NULL
      BY <1>0, <2>1 DEF AppendEmpty
    <3>3. s = <<>>
      BY <1>0, <1>3, <1>6, <1>7, <3>2, FirstOf DEF TailRight
    <3>4. LinkedAs(b, next, <<b>>)
      BY <1>2, <1>3, LinkFirst
    <3>5. Append(s, b) = <<b>>
      BY <3>3
    <3>6. head'[l] = b /\ \A k \in Lists \ {l} : head'[k] = head[k]
      BY <1>1, <3>1 DEF LifeTypes
    <3> QED
      BY <1>0, <3>1, <3>4, <3>5, <3>6 DEF ChainInv
  <2>2. CASE AppendBehind(x)
    <3>1. /\ head' = head /\ nextBuffer' = [nextBuffer EXCEPT ![tail[l]] = b]
          /\ head[l] # NULL
      BY <1>0, <2>2 DEF AppendBehind
    <3>2. s # <<>>
      BY <1>0, <1>6, <3>1, FirstOf
    <3>3. tail[l] = Last(s)
      BY <1>0, <1>3, <3>2 DEF TailRight
    <3>4. PICK next2 : next2 = nextBuffer'
      OBVIOUS
    <3>5. next2[Last(s)] = b /\ \A d \in Buffers \ {Last(s)} : next2[d] = next[d]
      BY <1>0, <1>7, <3>1, <3>2, <3>3, <3>4 DEF LifeTypes
    <3>6. b \notin ToSet(s)
      BY <1>0, <1>1, <1>5
    <3>7. LinkedAs(first, next2, Append(s, b))
      BY <1>2, <1>3, <1>6, <3>2, <3>5, <3>6, LinkBehind
    <3>8. ASSUME NEW k \in Lists \ {l} PROVE LinkedAs(head'[k], nextBuffer', Chain(k))
      <4>1. PICK t, one : t = Chain(k) /\ one = head[k]
        OBVIOUS
      <4>2. LinkedAs(one, next, t)
        BY <1>0, <4>1 DEF ChainInv
      <4>3. Last(s) \notin ToSet(t)
        BY <1>0, <1>1, <1>7, <3>2, <4>1 DEF OwnInv
      <4>4. LinkedAs(one, next2, t)
        BY <3>5, <4>2, <4>3, LinkFrame
      <4> QED
        BY <3>1, <3>4, <4>1, <4>4
    <3>9. \A d \in Buffers : nextBuffer'[d] = nextBuffer[d] \/ d \in ToSet(s)
      BY <1>0, <1>7, <3>2, <3>4, <3>5
    <3> QED
      BY <1>0, <3>1, <3>4, <3>7, <3>8, <3>9
  <2> QED
    BY <2>1, <2>2
<1>9. Chain(l)' = Append(s, b) /\ \A k \in Lists \ {l} : Chain(k)' = Chain(k)
  <2>1. Chain(l)' = Append(s, b)
    BY <1>1, <1>8, ChainNext
  <2>2. ASSUME NEW k \in Lists \ {l} PROVE Chain(k)' = Chain(k)
    <3>1. PICK t : t = Chain(k)
      OBVIOUS
    <3>2. LinkedAs(head'[k], nextBuffer', t)
      BY <1>8, <3>1
    <3>3. Chain(k)' = t
      BY <3>2, ChainNext
    <3> QED
      BY <3>1, <3>3
  <2> QED
    BY <2>1, <2>2
<1>10. ChainInv'
  BY <1>8, <1>9 DEF ChainInv
<1>11. Append(s, b) # <<>> /\ Last(Append(s, b)) = b /\ ToSet(Append(s, b)) = ToSet(s) \cup {b}
  BY <1>2, <1>6, PutOne
<1>12. TailInv'
  <2>1. Lags(l)'
    BY <1>1, <1>2, <1>3, BlistAssumption DEF Lags
  <2>2. Knows(x)'
    BY <1>1, <1>2, <1>9, <1>11 DEF Knows
  <2>3. \A k \in Lists \ {l} : Chain(k)' = Chain(k) /\ tail'[k] = tail[k] /\ lock'[k] = lock[k]
    BY <1>2, <1>9
  <2>4. \A d \in Buffers : nextBuffer'[d] = nextBuffer[d] \/ d \in ToSet(Chain(l))
    BY <1>0, <1>8
  <2> QED
    BY <1>0, <1>1, <1>2, <2>1, <2>2, <2>3, <2>4, TailStep DEF HoldPcs
<1>13. OwnInv' /\ AliveInv'
  <2>1. ToSet(Chain(l))' = ToSet(Chain(l)) \cup {Held(x)}
    BY <1>0, <1>4, <1>9, <1>11
  <2> QED
    BY <1>1, <1>2, <1>4, <1>9, <2>1, OwnPut
<1> QED
  BY <1>0, <1>1, <1>2, <1>5, <1>9, <1>10, <1>12, <1>13

\* Advancing head takes the first buffer of its list.
LEMMA PopLists ==
  ASSUME CtlInv, ListsInv, NEW x \in Ctxs, InList(x), PopHead(x)
  PROVE  /\ ChainInv' /\ TailInv' /\ OwnInv' /\ AliveInv'
         /\ \E l \in Lists :
              /\ l = op[x].list /\ Chain(l) # <<>> /\ Chain(l)' = Tail(Chain(l))
              /\ \A k \in Lists \ {l} : Chain(k)' = Chain(k)
         /\ op'[x].b # NULL
<1> USE DEF CtlInv, ListsInv
<1>0. PICK l, b, s, next : l = op[x].list /\ b = head[l] /\ s = Chain(l) /\ next = nextBuffer
  OBVIOUS
<1>1. /\ By(x) /\ at' = at /\ op'[x].list = l /\ CtlInv' /\ op[x].pc # "none" /\ l \in Lists
      /\ alive' = alive /\ \A c \in Cpus : Kept(c)' = Kept(c)
      /\ \A y \in Ctxs \ {x} : Held(y)' = Held(y)
  BY <1>0, ListControl, ListFrame, Inside
<1>2. /\ op[x].pc = "pop_head" /\ op[x].b = NULL /\ b # NULL
      /\ at[x] \in PopPlaces /\ at[x] \notin AppendPlaces
      /\ op'[x].pc = "pop_tail" /\ op'[x].b = b
      /\ head' = [head EXCEPT ![l] = next[b]] /\ UNCHANGED <<tail, nextBuffer, lock>>
  <2>1. /\ op[x].pc = "pop_head" /\ b # NULL
        /\ head' = [head EXCEPT ![l] = next[b]] /\ UNCHANGED <<tail, nextBuffer, lock>>
        /\ op' = [op EXCEPT ![x].pc = "pop_tail", ![x].b = b]
    BY <1>0 DEF PopHead
  <2> QED
    BY <2>1, <1>1, Inside DEF LifeTypes
<1>3. lock[l] = x /\ TailRight(l)
  <2>1. lock[l] = x
    BY <1>0, <1>2 DEF LockInv, HoldPcs
  <2> QED
    BY <1>1, <1>2, <2>1 DEF TailInv, Lags
<1>4. Held(x) = NULL /\ Held(x)' = b
  BY <1>1, <1>2 DEF Held
<1>5. LinkedAs(b, next, s) /\ s \in Seq(Buffers) /\ s # <<>>
  <2>1. LinkedAs(b, next, s)
    BY <1>0, <1>1 DEF ChainInv
  <2> QED
    BY <1>2, <2>1, FirstOf DEF LinkedAs
<1>6. /\ LinkedAs(next[b], next, Tail(s)) /\ b \notin ToSet(Tail(s)) /\ b \in ToSet(s)
      /\ ToSet(Tail(s)) = ToSet(s) \ {b}
      /\ Tail(s) # <<>> => Last(Tail(s)) = Last(s)
  <2>1. b \in ToSet(s)
    BY <1>5, FirstOf
  <2>2. /\ LinkedAs(next[b], next, Tail(s)) /\ b \notin ToSet(Tail(s))
        /\ ToSet(Tail(s)) \subseteq ToSet(s) /\ \A d \in ToSet(s) : d = b \/ d \in ToSet(Tail(s))
        /\ Tail(s) # <<>> => Last(Tail(s)) = Last(s)
    BY <1>5, LinkTail
  <2> QED
    BY <2>1, <2>2
<1>7. Chain(l)' = Tail(s) /\ \A k \in Lists \ {l} : Chain(k)' = Chain(k)
  <2>1. head'[l] = next[b] /\ nextBuffer' = next /\ \A k \in Lists \ {l} : head'[k] = head[k]
    BY <1>0, <1>1, <1>2 DEF LifeTypes
  <2>2. LinkedAs(head'[l], nextBuffer', Tail(s))
    BY <1>6, <2>1
  <2>3. Chain(l)' = Tail(s)
    BY <1>1, <2>2, ChainNext
  <2>4. \A k \in Lists \ {l} : Chain(k)' = Chain(k)
    BY <1>0, <2>1 DEF Chain
  <2> QED
    BY <2>3, <2>4
<1>8. ChainInv'
  <2>1. head'[l] = next[b] /\ nextBuffer' = next /\ \A k \in Lists \ {l} : head'[k] = head[k]
    BY <1>0, <1>1, <1>2 DEF LifeTypes
  <2>2. LinkedAs(head[l], nextBuffer, Chain(l))'
    <3>1. LinkedAs(next[b], next, Tail(s))
      BY <1>6
    <3> QED
      BY <1>7, <2>1, <3>1 DEF LinkedAs
  <2>3. ASSUME NEW k \in Lists, k # l PROVE LinkedAs(head[k], nextBuffer, Chain(k))'
    <3>1. LinkedAs(head[k], nextBuffer, Chain(k))
      BY DEF ChainInv
    <3> QED
      BY <1>0, <1>7, <2>1, <2>3, <3>1 DEF LinkedAs
  <2> QED
    BY <2>2, <2>3 DEF ChainInv
<1>9. TailInv'
  <2>1. Lags(l)'
    BY <1>1, <1>2, <1>3, BlistAssumption DEF Lags
  <2>2. Chain(l)' = <<>> \/ TailRight(l)'
    BY <1>0, <1>2, <1>3, <1>5, <1>6, <1>7 DEF TailRight
  <2>3. Knows(x)'
    BY <1>1, <1>2, <2>2 DEF Knows
  <2>4. \A k \in Lists \ {l} : Chain(k)' = Chain(k) /\ tail'[k] = tail[k] /\ lock'[k] = lock[k]
    BY <1>2, <1>7
  <2> QED
    BY <1>0, <1>1, <1>2, <2>1, <2>3, <2>4, TailStep DEF HoldPcs
<1>10. OwnInv' /\ AliveInv'
  <2>1. ToSet(Chain(l))' = ToSet(Chain(l)) \ {b} /\ b \in ToSet(Chain(l))
    BY <1>0, <1>6, <1>7
  <2> QED
    BY <1>1, <1>4, <1>7, <2>1, OwnPop
<1> QED
  BY <1>0, <1>1, <1>2, <1>5, <1>7, <1>8, <1>9, <1>10

\* At the end only cleanup_module uses the lists, and what it found empty stays empty.
LEMMA EmptyStep ==
  ASSUME CtlInv, ListsInv, NEW x \in Ctxs, InList(x)
  PROVE  EmptyInv'
<1> USE DEF CtlInv, ListsInv
<1>1. /\ By(x) /\ at' = at /\ op'[x].list = op[x].list /\ CtlInv' /\ op[x].pc # "none"
      /\ op[x].list \in Lists /\ alive' = alive /\ ListStep(x)
  BY ListControl, ListFrame, Inside DEF InList
<1>2. SUFFICES ASSUME ReadersClosed, at[Admin] \in {"freeing_empty", "freeing_full"}
               PROVE  EmptyInv'
  BY <1>1 DEF EmptyInv
<1>3. x = Admin
  <2>1. at[x] # "out"
    BY <1>1 DEF CallInv, CallRight, IdlePlaces, NoCall
  <2>2. \A c \in Cpus : at[Irq(c)] = "out" /\ at[Ipi(c)] = "out"
    BY <1>2 DEF PhaseInv, InDriver
  <2>3. \A y \in Readers : at[y] = "out"
    BY <1>2 DEF ReaderInv, PhaseInv, InDriver
  <2> QED
    BY <2>1, <2>2, <2>3, Contexts
<1>4. op[Admin].list = ListAt(at[Admin]) /\ at[Admin] \in PopPlaces
  BY <1>1, <1>2, <1>3 DEF CallInv, CallRight, PopPlaces
<1>5. \A k \in Lists : k # op[Admin].list \/ Chain(k) = <<>> => Chain(k)' = Chain(k)
  <2>1. CASE Quiet(x)
    BY <2>1, QuietLists DEF SameLists
  <2>2. CASE PopHead(x)
    <3>1. PICK l \in Lists : /\ l = op[x].list /\ Chain(l) # <<>>
                             /\ \A k \in Lists \ {l} : Chain(k)' = Chain(k)
      BY <2>2, PopLists
    <3> QED
      BY <1>3, <3>1
  <2>3. op[x].pc # "append_link"
    BY <1>3, <1>4, Inside
  <2> QED
    BY <1>1, <2>1, <2>2, <2>3 DEF ListStep, Quiet, AppendEmpty, AppendBehind
<1>6. at[Admin] = "freeing_full" => Chain("empty")' = <<>>
  <2>1. at[Admin] = "freeing_full" => Chain("empty") = <<>>
    BY <1>2 DEF EmptyInv
  <2> QED
    BY <1>5, <2>1, LifetimeAssumption
<1>7. ASSUME op'[Admin].pc \in {"unlock", "done"}, op'[Admin].b = NULL, NEW l, l = op[Admin].list
      PROVE  Chain(l)' = <<>>
  <2>1. CASE op[Admin].pc \in {"unlock", "done"} /\ op[Admin].b = NULL
    <3>1. Chain(l) = <<>>
      BY <1>2, <1>4, <1>7, <2>1 DEF EmptyInv, ListAt
    <3> QED
      BY <1>1, <1>3, <1>5, <1>7, <3>1
  <2>2. CASE PopNothing(x)
    <3>1. head[l] = NULL /\ l \in Lists
      BY <1>1, <1>3, <1>7, <2>2 DEF PopNothing
    <3>2. Chain(l) = <<>>
      BY <3>1, FirstOf DEF ChainInv
    <3> QED
      BY <1>5, <3>1, <3>2
  <2>3. PopNothing(x) \/ (op[Admin].pc \in {"unlock", "done"} /\ op[Admin].b = NULL)
    <3>1. PopHead(x) => op'[x].b # NULL
      BY PopLists
    <3>2. op[x].pc \in {"pop_tail", "pop_next"} => op[x].b # NULL
      BY Inside, BlistAssumption
    <3>3. op[x].pc \notin {"append_lock", "append_next", "append_link", "append_tail"}
      BY <1>3, <1>4, Inside
    <3>4. PopHead(x) \/ \E pc : Goto(x, pc)
      BY <1>1 DEF ListStep, Lock, Unlock, AppendNext, AppendEmpty, AppendBehind, AppendTail,
                  PopNothing, PopTail, PopNext
    <3>5. op'[x].b = op[x].b
      BY <1>3, <1>7, <3>1, <3>4 DEF Goto, LifeTypes
    <3> QED
      BY <1>1, <1>3, <1>7, <3>1, <3>2, <3>3, <3>5
      DEF ListStep, Lock, Unlock, AppendNext, AppendEmpty, AppendBehind, AppendTail,
          PopHead, PopTail, PopNext, Goto, LifeTypes
  <2> QED
    BY <2>1, <2>2, <2>3
<1>8. at[Admin] = "freeing_empty" => op[Admin].list = "empty"
  BY <1>4 DEF ListAt
<1>9. at[Admin] = "freeing_full" => op[Admin].list = "full"
  BY <1>4 DEF ListAt
<1>10. at'[Admin] # "gone"
  BY <1>1, <1>2
<1> QED
  BY <1>1, <1>6, <1>7, <1>8, <1>9, <1>10 DEF EmptyInv

-----------------------------------------------------------------------------
(* Theorems                                                                *)

\* The invariant holds when the module is about to be loaded.
LEMMA FirstState ==
  ASSUME LifeInit
  PROVE  LifeInv /\ \A l \in Lists : Chain(l) = <<>>
<1>0. /\ op = [x \in Ctxs |-> NoCall] /\ at = [x \in Ctxs |-> "out"]
      /\ alive = {} /\ lbuffer = [c \in Cpus |-> NULL]
      /\ head = [l \in Lists |-> NULL] /\ tail = [l \in Lists |-> NULL]
      /\ nextBuffer = [b \in Buffers |-> NULL] /\ lock = [l \in Lists |-> NULL]
      /\ build \in Builds /\ counting = [c \in Cpus |-> FALSE] /\ pending = [c \in Cpus |-> FALSE]
      /\ installed = FALSE /\ shutdown = 0 /\ opened = FALSE /\ todo = {} /\ made = 0 /\ starts = 0
  BY DEF LifeInit, BlistInit
<1>1. LifeTypes
  <2>1. at \in [Ctxs -> IdlePlaces \cup PopPlaces \cup AppendPlaces]
    BY <1>0 DEF IdlePlaces
  <2>2. \A x \in Ctxs : at[x] \in PlacesOf(x[2])
    <3>1. \A kind : "out" \in PlacesOf(kind)
      BY DEF PlacesOf
    <3> QED
      BY <1>0, <3>1
  <2>3. op \in [Ctxs -> [pc : {"none"} \cup AppendPcs \cup PopPcs, list : Lists \cup {NULL},
                        b : Buffers \cup {NULL}]]
    BY <1>0 DEF NoCall
  <2>4. counting \in [Cpus -> BOOLEAN] /\ pending \in [Cpus -> BOOLEAN] /\ installed \in BOOLEAN /\ opened \in BOOLEAN
    BY <1>0
  <2> QED
    BY <1>0, <2>1, <2>2, <2>3, <2>4 DEF LifeTypes
<1>2. CallInv
  BY <1>0 DEF CallInv, CallRight, PopPlaces, AppendPlaces
<1>3. LockInv
  BY <1>0 DEF LockInv, NoCall, HoldPcs
<1>4. Admin \in Ctxs /\ at[Admin] = "out" /\ \A c \in Cpus : at[Irq(c)] = "out" /\ at[Ipi(c)] = "out"
  BY <1>0, Contexts
<1>5. PhaseInv /\ ReaderInv
  <2>1. \A x \in Readers : at[x] = "out"
    BY <1>0, Contexts
  <2>2. \A c \in Cpus : Still(c)
    BY <1>0, <1>4 DEF Still
  <2> QED
    BY <1>0, <1>4, <2>1, <2>2 DEF PhaseInv, ReaderInv, InDriver
<1>6. ASSUME NEW l \in Lists PROVE LinkedAs(head[l], nextBuffer, <<>>) /\ Chain(l) = <<>>
  <2>1. PICK first, next : first = head[l] /\ next = nextBuffer
    OBVIOUS
  <2>2. first = NULL
    BY <1>0, <2>1
  <2>3. LinkedAs(first, next, <<>>)
    BY <2>2 DEF LinkedAs, IsInjective
  <2>4. Follow(first, next) = <<>>
    BY <2>3, FollowIs
  <2> QED
    BY <2>1, <2>3, <2>4 DEF Chain
<1>7. ChainInv /\ TailInv
  BY <1>0, <1>6 DEF ChainInv, TailInv, TailRight, Knows, NoCall
<1>8. (\A x \in Ctxs : Held(x) = NULL) /\ \A c \in Cpus : Kept(c) = NULL
  BY <1>0 DEF Held, Kept, NoCall, PopPlaces
<1>9. \A l \in Lists : ToSet(Chain(l)) = {}
  <2>1. ToSet(<<>>) = {}
    BY DEF ToSet
  <2> QED
    BY <1>6, <2>1
<1>10. OwnInv /\ AliveInv
  BY <1>0, <1>8, <1>9 DEF OwnInv, AliveInv
<1>11. HandInv
  BY <1>0, <1>4 DEF HandInv
<1>12. MadeInv /\ EmptyInv
  BY <1>0, <1>4 DEF MadeInv, EmptyInv
<1> QED
  BY <1>1, <1>2, <1>3, <1>5, <1>6, <1>7, <1>10, <1>11, <1>12 DEF LifeInv

\* A step outside the list functions keeps the invariant and changes no list.
LEMMA CallerStep ==
  ASSUME IntelStopsFirst, CtlInv, ListsInv, LifeNext, ~ \E x \in Ctxs : InList(x)
  PROVE  CtlInv' /\ ListsInv' /\ SameLists
<1>1. MadeInv
  BY DEF ListsInv
<1>2. ASSUME NEW x, Calls(x) PROVE SameLists
  BY <1>2, CallsLists DEF ListsInv, SameLists
<1>3. ASSUME NEW c \in Cpus, Overflow(c) \/ IrqStep(c) \/ IpiStep(c)
      PROVE  CtlInv' /\ ListsInv' /\ SameLists
  BY <1>2, <1>3, IrqControl, IpiControl, IrqLists, IpiLists, StopLocalLists DEF IrqStep, IpiStep
<1>4. ASSUME NEW x \in Readers, Read(x) \/ ReadInterrupted(x) \/ ReaderStep(x)
      PROVE  CtlInv' /\ ListsInv' /\ SameLists
  BY <1>2, <1>4, ReaderControl, ReaderLists DEF ReaderStep
<1>5. ASSUME \/ Load \/ LoadRefused \/ Allocate \/ AllocateFails \/ Allocated \/ Loaded
      PROVE  CtlInv' /\ ListsInv' /\ SameLists
  BY <1>1, <1>2, <1>5, LoadControl, LoadLists, AllocateLists
<1>6. ASSUME \/ Start \/ StartEnds \/ Stop \/ StopEnds
      PROVE  CtlInv' /\ ListsInv' /\ SameLists
  BY <1>2, <1>6, StatusControl, StatusLists
<1>7. ASSUME \/ CleanupModule \/ CleanupArch \/ FlushEnds \/ Free \/ FreeNext \/ Removed
             \/ \E c \in Cpus : Flush(c) \/ Flushed(c)
      PROVE  CtlInv' /\ ListsInv' /\ SameLists
  BY <1>2, <1>7, CleanupControl, CleanupLists, FreeLists, FlushLists, FlushedLists
<1> QED
  BY <1>3, <1>4, <1>5, <1>6, <1>7 DEF LifeNext, AdminStep

\* A step inside the list functions keeps the invariant.
LEMMA ListInv ==
  ASSUME CtlInv, ListsInv, NEW x \in Ctxs, InList(x)
  PROVE  CtlInv' /\ ListsInv'
<1>1. CtlInv'
  BY ListControl
<1>2. HandInv' /\ MadeInv'
  BY ListFrame DEF ListsInv
<1>3. EmptyInv'
  BY EmptyStep
<1>4. ListStep(x)
  BY DEF InList
<1>5. ChainInv' /\ TailInv' /\ OwnInv' /\ AliveInv'
  BY <1>4, QuietLists, PutLists, PopLists DEF ListStep, Quiet
<1> QED
  BY <1>1, <1>2, <1>3, <1>5 DEF ListsInv

\* LifeInv is inductive.
LEMMA LifeStep ==
  ASSUME IntelStopsFirst, LifeInv, [LifeNext]_lifeVars
  PROVE  LifeInv'
<1>1. CtlInv /\ ListsInv
  BY DEF LifeInv, CtlInv, ListsInv
<1>2. CASE UNCHANGED lifeVars
  <2>1. /\ UNCHANGED <<head, tail, nextBuffer, lock, op, at, alive, lbuffer, counting, pending>>
        /\ UNCHANGED <<build, installed, shutdown, opened, todo, made, starts>>
    BY <1>2 DEF lifeVars, listVars, workVars, hwVars, ctlVars
  <2>2. \A l \in Lists : Chain(l)' = Chain(l)
    BY <2>1 DEF Chain
  <2>3. (\A x \in Ctxs : Held(x)' = Held(x)) /\ \A c \in Cpus : Kept(c)' = Kept(c)
    BY <2>1 DEF Held, Kept, Away
  <2>4. CtlInv'
    BY <1>1, <2>1 DEF CtlInv, LifeTypes, CallInv, LockInv, PhaseInv, ReaderInv, Still, InDriver
  <2>5. ChainInv' /\ HandInv' /\ MadeInv'
    BY <1>1, <2>1, <2>2 DEF ListsInv, ChainInv, HandInv, MadeInv
  <2>6. OwnInv' /\ AliveInv'
    BY <1>1, <2>1, <2>2, <2>3, OwnSame DEF ListsInv, SameLists
  <2>7. EmptyInv'
    BY <1>1, <2>1, <2>2, LifetimeAssumption DEF ListsInv, EmptyInv
  <2>8. TailInv'
    <3>1. ASSUME NEW y \in Ctxs PROVE Knows(y)'
      <4>1. op[y].pc # "none" => op[y].list \in Lists
        BY <1>1, Inside DEF CtlInv
      <4>2. Knows(y)
        BY <1>1 DEF ListsInv, TailInv
      <4> QED
        BY <2>1, <2>2, <4>1, <4>2 DEF Knows, TailRight
    <3> QED
      BY <1>1, <2>1, <2>2, <3>1 DEF ListsInv, TailInv, TailRight, Lags
  <2> QED
    BY <2>4, <2>5, <2>6, <2>7, <2>8 DEF LifeInv, CtlInv
<1>3. CASE LifeNext
  BY <1>1, <1>3, CallerStep, ListInv DEF LifeInv, CtlInv, ListsInv
<1> QED
  BY <1>2, <1>3

\* LifeInv holds throughout.
LEMMA LifeInvariant ==
  ASSUME IntelStopsFirst
  PROVE  LifeSpec => []LifeInv
<1>1. LifeInit => LifeInv
  BY FirstState
<1>2. LifeInv /\ [LifeNext]_lifeVars => LifeInv'
  BY LifeStep
<1> QED
  BY <1>1, <1>2, PTL DEF LifeSpec

\* A list that no context has locked is well formed: append_blist and pop_blist keep head,
\* tail and the nextBuffer pointers together whatever the interleaving, and no buffer gets
\* into two lists, if Intel stops before it starts.
THEOREM ListsLinked == IntelStopsFirst => (LifeSpec => []WellLinked)
<1> SUFFICES ASSUME IntelStopsFirst PROVE LifeSpec => []WellLinked
  OBVIOUS
<1>1. LifeInv => WellLinked
  <2> SUFFICES ASSUME LifeInv, NEW l \in Lists, lock[l] = NULL
               PROVE  /\ (head[l] = NULL) = (tail[l] = NULL)
                      /\ Chain(l) # <<>> => tail[l] = Last(Chain(l))
                      /\ IsInjective(Chain(l))
                      /\ \A k \in Lists \ {l} : ToSet(Chain(l)) \cap ToSet(Chain(k)) = {}
    BY DEF WellLinked
  <2> USE DEF LifeInv
  <2>1. TailRight(l)
    BY DEF TailInv, Lags
  <2>2. LinkedAs(head[l], nextBuffer, Chain(l))
    BY DEF ChainInv
  <2>3. head[l] = NULL <=> Chain(l) = <<>>
    BY <2>2, FirstOf
  <2>4. Chain(l) # <<>> => Last(Chain(l)) # NULL
    BY <2>2, FirstOf
  <2>5. IsInjective(Chain(l))
    BY <2>2 DEF LinkedAs
  <2>6. head[l] = NULL <=> tail[l] = NULL
    BY <2>1, <2>3, <2>4 DEF TailRight
  <2> QED
    BY <2>1, <2>5, <2>6 DEF TailRight, OwnInv
<1> QED
  BY <1>1, LifeInvariant, PTL

\* At every moment, in the middle of a critical section too, the chains that start at head are
\* queues of distinct buffers: append_blist puts one behind all others, pop_blist takes the
\* first, and no other step changes them, if Intel stops before it starts.
THEOREM ListsAreQueues == IntelStopsFirst => (LifeSpec => ImplementsQueues)
<1> SUFFICES ASSUME IntelStopsFirst PROVE LifeSpec => ImplementsQueues
  OBVIOUS
<1>1. LifeInit => Queues!Init
  BY FirstState DEF Queues!Init
<1>2. LifeInv /\ [LifeNext]_lifeVars => [Queues!Next]_([l \in Lists |-> Chain(l)])
  <2> SUFFICES ASSUME LifeInv, [LifeNext]_lifeVars
               PROVE  Queues!Next \/ UNCHANGED [l \in Lists |-> Chain(l)]
    OBVIOUS
  <2>1. CtlInv /\ ListsInv
    BY DEF LifeInv, CtlInv, ListsInv
  <2>2. SameLists => UNCHANGED [l \in Lists |-> Chain(l)]
    BY DEF SameLists
  <2>3. CASE UNCHANGED lifeVars
    BY <2>2, <2>3 DEF lifeVars, listVars, SameLists, Chain
  <2>4. CASE LifeNext /\ ~ \E x \in Ctxs : InList(x)
    BY <2>1, <2>2, <2>4, CallerStep
  <2>5. ASSUME NEW x \in Ctxs, InList(x)
        PROVE  Queues!Next \/ UNCHANGED [l \in Lists |-> Chain(l)]
    <3>1. CASE Quiet(x)
      BY <2>1, <2>2, <2>5, <3>1, QuietLists
    <3>2. CASE AppendEmpty(x) \/ AppendBehind(x)
      <4>1. PICK l \in Lists, b \in Buffers :
              /\ Chain(l)' = Append(Chain(l), b)
              /\ \A k \in Lists : b \notin ToSet(Chain(k))
              /\ \A k \in Lists \ {l} : Chain(k)' = Chain(k)
        BY <2>1, <2>5, <3>2, PutLists
      <4>2. Queues!Put(l, b)
        <5>1. b \notin Queues!Queued
          <6>1. \A k \in Lists : [i \in Lists |-> Chain(i)][k] = Chain(k)
            OBVIOUS
          <6>2. \A k \in Lists : b \notin ToSet([i \in Lists |-> Chain(i)][k])
            BY <4>1, <6>1
          <6>3. Queues!Queued = UNION {ToSet([i \in Lists |-> Chain(i)][k]) : k \in Lists}
            BY DEF Queues!Queued, Queues!ToSet, ToSet
          <6> QED
            BY <6>2, <6>3
        <5>2. [k \in Lists |-> Chain(k)]' = [[k \in Lists |-> Chain(k)] EXCEPT ![l] = Append(@, b)]
          BY <4>1
        <5> QED
          BY <5>1, <5>2 DEF Queues!Put
      <4> QED
        BY <4>2 DEF Queues!Next
    <3>3. CASE PopHead(x)
      <4>1. PICK l \in Lists : /\ Chain(l) # <<>> /\ Chain(l)' = Tail(Chain(l))
                               /\ \A k \in Lists \ {l} : Chain(k)' = Chain(k)
        BY <2>1, <2>5, <3>3, PopLists
      <4>2. Queues!Take(l)
        BY <4>1 DEF Queues!Take
      <4> QED
        BY <4>2 DEF Queues!Next
    <3>4. ListStep(x)
      BY <2>5 DEF InList
    <3> QED
      BY <3>1, <3>2, <3>3, <3>4 DEF ListStep, Quiet
  <2> QED
    BY <2>3, <2>4, <2>5
<1> QED
  BY <1>1, <1>2, LifeInvariant, PTL DEF LifeSpec, ImplementsQueues, Queues!Spec

\* What a context uses in a list function, and what lists and CPUs have, is allocated.
LEMMA AliveThroughout ==
  ASSUME LifeInv
  PROVE  BuffersAlive
<1> USE DEF LifeInv
<1>1. ASSUME NEW x \in Ctxs, Masking(x), op[x].b # NULL PROVE op[x].b \in alive
  <2>1. op[x].pc \in AppendPcs \cup PopPcs /\ op[x].pc \notin {"none", "done"}
    BY <1>1 DEF Masking, LifeTypes
  <2>2. CallRight(at[x], op[x]) /\ op[x].list \in Lists /\ (at[x] \in AppendPlaces <=> at[x] \notin PopPlaces)
    BY <2>1, Inside DEF CallInv
  <2>3. CASE at[x] \in PopPlaces \/ op[x].pc \in {"append_lock", "append_next", "append_link"}
    BY <1>1, <2>3 DEF AliveInv, Held
  <2>4. CASE at[x] \in AppendPlaces /\ op[x].pc \in {"append_tail", "unlock"}
    <3>1. op[x].b \in ToSet(Chain(op[x].list))
      <4>1. CASE op[x].pc = "append_tail"
        <5>1. PICK l, s : l = op[x].list /\ s = Chain(l)
          OBVIOUS
        <5>2. LinkedAs(head[l], nextBuffer, s) /\ s # <<>> /\ Last(s) = op[x].b
          BY <2>2, <4>1, <5>1 DEF ChainInv, TailInv, Knows
        <5> QED
          BY <5>1, <5>2, FirstOf
      <4>2. CASE op[x].pc = "unlock"
        BY <2>4, <4>2 DEF TailInv, Knows
      <4> QED
        BY <2>4, <4>1, <4>2
    <3> QED
      BY <2>2, <3>1 DEF AliveInv
  <2>5. at[x] \in AppendPlaces => op[x].pc \in AppendPcs
    BY <2>1, <2>2 DEF CallRight, NoCall
  <2> QED
    BY <2>1, <2>2, <2>3, <2>4, <2>5 DEF AppendPcs
<1> QED
  BY <1>1 DEF BuffersAlive, AliveInv, HandInv

\* Whether or not a process still reads the device when the module is removed, no context in
\* append_blist or pop_blist, no list and no CPU has a buffer that was freed, if Intel stops
\* before it starts.
THEOREM NoBufferDangles == IntelStopsFirst => (LifeSpec => []BuffersAlive)
<1> SUFFICES ASSUME IntelStopsFirst PROVE LifeSpec => []BuffersAlive
  OBVIOUS
<1> QED
  BY AliveThroughout, LifeInvariant, PTL

\* When no process reads the device as the module is removed, and Intel stops before it
\* starts, cleanup_module frees every buffer, and then nothing is left in the driver.
THEOREM NothingLeft == IntelStopsFirst /\ ReadersClosed => (LifeSpec => []MemorySafe)
<1> SUFFICES ASSUME IntelStopsFirst, ReadersClosed PROVE LifeSpec => []MemorySafe
  OBVIOUS
<1>1. LifeInv => MemorySafe
  <2> SUFFICES ASSUME LifeInv PROVE MemorySafe
    OBVIOUS
  <2>1. ASSUME at[Admin] = "gone"
        PROVE  alive = {} /\ (\A x \in Ctxs \ {Admin} : ~InDriver(x)) /\ ~installed
    <3>1. \A c \in Cpus : at[Irq(c)] = "out" /\ at[Ipi(c)] = "out"
      BY <2>1 DEF LifeInv, PhaseInv, InDriver
    <3>2. \A x \in Readers : at[x] = "out"
      BY <2>1 DEF LifeInv, PhaseInv, ReaderInv, InDriver
    <3>3. Home \in Cpus /\ alive = {}
      BY <2>1, LifetimeAssumption DEF LifeInv, EmptyInv
    <3> QED
      BY <2>1, <3>1, <3>2, <3>3, Contexts DEF LifeInv, PhaseInv, InDriver
  <2> QED
    BY <2>1, AliveThroughout DEF MemorySafe
<1> QED
  BY <1>1, LifeInvariant, PTL

=============================================================================
