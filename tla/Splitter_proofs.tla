--------------------------- MODULE Splitter_proofs ---------------------------
(***************************************************************************)
(* Theorems about the splitter, for any recorded file that ends anywhere,  *)
(* any number of cores, of open files and of samples per packet, and any   *)
(* names.                                                                  *)
(***************************************************************************)
EXTENDS Splitter, DataInduction

-----------------------------------------------------------------------------
(* Strings                                                                 *)

\* m characters from a place on.
Chars(f, at, m) == \A j \in 0 .. m - 1 : Byte(f, at + j) # NUL

\* The length of a string that ends within the file or at its end.
LEMMA StrlenIs ==
  ASSUME NEW f, NEW at, NEW m, Len(f) \in Nat, m \in 0 .. Len(f),
         Byte(f, at + m) = NUL, Chars(f, at, m)
  PROVE  strlen(f, at) = m
<1> DEFINE Right(k) == Byte(f, at + k) = NUL /\ \A j \in 0 .. k - 1 : Byte(f, at + j) # NUL
<1>1. PICK l : l = CHOOSE k \in 0 .. Len(f) : Right(k)
  OBVIOUS
<1>2. Right(m)
  BY DEF Chars
<1>3. l \in 0 .. Len(f) /\ Right(l)
  <2> HIDE DEF Right
  <2> QED
    BY <1>1, <1>2, Zenon
<1>4. ~(l < m) /\ ~(m < l)
  BY <1>2, <1>3
<1>5. l = m
  BY <1>3, <1>4
<1> QED
  BY <1>1, <1>5 DEF strlen

\* The number of characters read when n may be.
LEMMA StrnlenIs ==
  ASSUME NEW f, NEW at, NEW n \in Nat, NEW m \in 0 .. n,
         m = n \/ Byte(f, at + m) = NUL, Chars(f, at, m)
  PROVE  strnlen(f, at, n) = m
<1> DEFINE Right(k) ==
      /\ k = n \/ Byte(f, at + k) = NUL
      /\ \A j \in 0 .. k - 1 : Byte(f, at + j) # NUL
<1>1. PICK l : l = CHOOSE k \in 0 .. n : Right(k)
  OBVIOUS
<1>2. Right(m)
  BY DEF Chars
<1>3. l \in 0 .. n /\ Right(l)
  <2> HIDE DEF Right
  <2> QED
    BY <1>1, <1>2, Zenon
<1>4. ~(l < m) /\ ~(m < l)
  BY <1>2, <1>3
<1>5. l = m
  BY <1>3, <1>4
<1> QED
  BY <1>1, <1>5 DEF strnlen

-----------------------------------------------------------------------------
(* Packets as bytes                                                        *)

PacketType ==
  [core : Nat, pid : Nat, samples : Seq(Nat), cmdline : Seq(Nat \ {NUL}), exe : Seq(Nat \ {NUL})]

\* Where the names of a packet begin and end.
NamesAt(p) == HeaderBytes + Len(p.samples)
ExeAt(p) == NamesAt(p) + Len(p.cmdline) + 1
Bytes(p) == ExeAt(p) + Len(p.exe) + 1

\* The bytes of a packet, numbered from 0 like those of a file.
Spelled(e, p) ==
  /\ e \in Seq(Nat) /\ Len(e) = Bytes(p)
  /\ Byte(e, 0) = p.core /\ Byte(e, 1) = Len(p.samples) /\ Byte(e, 2) = p.pid
  /\ \A i \in 1 .. Len(p.samples) : Byte(e, HeaderBytes + i - 1) = p.samples[i]
  /\ \A i \in 1 .. Len(p.cmdline) : Byte(e, NamesAt(p) + i - 1) = p.cmdline[i]
  /\ Byte(e, NamesAt(p) + Len(p.cmdline)) = NUL
  /\ \A i \in 1 .. Len(p.exe) : Byte(e, ExeAt(p) + i - 1) = p.exe[i]
  /\ Byte(e, ExeAt(p) + Len(p.exe)) = NUL

\* The bytes of two sequences one after the other.
LEMMA ByteJoin ==
  ASSUME NEW s \in Seq(Nat), NEW t \in Seq(Nat), NEW i \in Nat
  PROVE  /\ i < Len(s) => Byte(s \o t, i) = Byte(s, i)
         /\ i >= Len(s) => Byte(s \o t, i) = Byte(t, i - Len(s))
<1>1. /\ s \o t \in Seq(Nat) /\ Len(s \o t) = Len(s) + Len(t) /\ Len(s) \in Nat /\ Len(t) \in Nat
      /\ \A k \in 1 .. Len(s) + Len(t) : (s \o t)[k] = IF k <= Len(s) THEN s[k] ELSE t[k - Len(s)]
  OBVIOUS
<1>2. ASSUME i < Len(s) PROVE Byte(s \o t, i) = Byte(s, i)
  <2>1. i + 1 \in 1 .. Len(s) + Len(t) /\ i + 1 <= Len(s) /\ i < Len(s \o t)
    BY <1>1, <1>2
  <2> QED
    BY <1>1, <1>2, <2>1 DEF Byte
<1>3. ASSUME i >= Len(s), i < Len(s) + Len(t) PROVE Byte(s \o t, i) = Byte(t, i - Len(s))
  <2>1. i + 1 \in 1 .. Len(s) + Len(t) /\ ~(i + 1 <= Len(s)) /\ i < Len(s \o t) /\ i - Len(s) < Len(t)
        /\ i + 1 - Len(s) = i - Len(s) + 1
    BY <1>1, <1>3
  <2> QED
    BY <1>1, <2>1 DEF Byte
<1>4. ASSUME i >= Len(s), ~(i < Len(s) + Len(t)) PROVE Byte(s \o t, i) = Byte(t, i - Len(s))
  <2>1. ~(i < Len(s \o t)) /\ ~(i - Len(s) < Len(t))
    BY <1>1, <1>4
  <2> QED
    BY <2>1 DEF Byte
<1> QED
  BY <1>2, <1>3, <1>4

\* The two together, as one sequence.
Joined(u, s, t) ==
  /\ u = s \o t /\ Len(u) = Len(s) + Len(t)
  /\ \A i \in Nat : i < Len(s) => Byte(u, i) = Byte(s, i)
  /\ \A i \in Nat : Byte(u, Len(s) + i) = Byte(t, i)

\* Two sequences side by side, byte by byte.
LEMMA JoinIs ==
  ASSUME NEW s \in Seq(Nat), NEW t \in Seq(Nat)
  PROVE  \E u \in Seq(Nat) : Joined(u, s, t)
<1>1. s \o t \in Seq(Nat) /\ Len(s \o t) = Len(s) + Len(t) /\ Len(s) \in Nat
  OBVIOUS
<1>2. ASSUME NEW i \in Nat PROVE Byte(s \o t, Len(s) + i) = Byte(t, i)
  <2>1. PICK j \in Nat : j = Len(s) + i
    BY <1>1
  <2>2. j >= Len(s) /\ j - Len(s) = i
    BY <1>1, <2>1
  <2>3. Byte(s \o t, j) = Byte(t, j - Len(s))
    BY <2>2, ByteJoin
  <2> QED
    BY <2>1, <2>2, <2>3
<1> QED
  BY <1>1, <1>2, ByteJoin DEF Joined

\* The byte at a place is the element after it.
LEMMA ByteIs ==
  ASSUME NEW S, NEW s \in Seq(S), NEW i \in 1 .. Len(s)
  PROVE  Byte(s, i - 1) = s[i]
<1>1. i \in Nat /\ Len(s) \in Nat /\ i - 1 < Len(s) /\ i - 1 + 1 = i
  OBVIOUS
<1> QED
  BY <1>1 DEF Byte

\* What Encode puts where.
LEMMA Spelling ==
  ASSUME NEW p \in PacketType
  PROVE  Spelled(Encode(p), p)
<1>1. PICK h \in Seq(Nat) : h = <<p.core, Len(p.samples), p.pid>>
  <2>1. <<p.core, Len(p.samples), p.pid>> \in Seq(Nat)
    BY DEF PacketType
  <2> QED
    BY <2>1, Zenon
<1>2. PICK z \in Seq(Nat) : z = <<NUL>>
  <2>1. <<NUL>> \in Seq(Nat)
    BY DEF NUL
  <2> QED
    BY <2>1, Zenon
<1>3. PICK x \in Seq(Nat), y \in Seq(Nat), w \in Seq(Nat) :
        x = p.samples /\ y = p.cmdline /\ w = p.exe
  BY DEF PacketType
<1>4. PICK q \in Nat, m \in Nat, n \in Nat : q = Len(x) /\ m = Len(y) /\ n = Len(w)
  OBVIOUS
<1>5. /\ Len(h) = 3 /\ Len(z) = 1
      /\ Byte(h, 0) = p.core /\ Byte(h, 1) = q /\ Byte(h, 2) = p.pid /\ Byte(z, 0) = NUL
  BY <1>1, <1>2, <1>3, <1>4 DEF Byte
<1>6. PICK a \in Seq(Nat) : Joined(a, h, x)
  BY JoinIs
<1>7. PICK b \in Seq(Nat) : Joined(b, a, y)
  BY JoinIs
<1>8. PICK c \in Seq(Nat) : Joined(c, b, z)
  BY JoinIs
<1>9. PICK d \in Seq(Nat) : Joined(d, c, w)
  BY JoinIs
<1>10. PICK e \in Seq(Nat) : Joined(e, d, z)
  BY JoinIs
<1>11. Encode(p) = e
  BY <1>1, <1>2, <1>3, <1>6, <1>7, <1>8, <1>9, <1>10 DEF Encode, Joined
<1>12. /\ Len(a) = 3 + q /\ Len(b) = 3 + q + m /\ Len(c) = 3 + q + m + 1
       /\ Len(d) = 3 + q + m + 1 + n /\ Len(e) = 3 + q + m + 1 + n + 1
  BY <1>4, <1>5, <1>6, <1>7, <1>8, <1>9, <1>10 DEF Joined
<1>13. /\ \A i \in Nat : i < 3 => Byte(a, i) = Byte(h, i)
       /\ \A i \in Nat : i < 3 + q => Byte(b, i) = Byte(a, i)
       /\ \A i \in Nat : i < 3 + q + m => Byte(c, i) = Byte(b, i)
       /\ \A i \in Nat : i < 3 + q + m + 1 => Byte(d, i) = Byte(c, i)
       /\ \A i \in Nat : i < 3 + q + m + 1 + n => Byte(e, i) = Byte(d, i)
  <2>1. \A i \in Nat : i < 3 => Byte(a, i) = Byte(h, i)
    BY <1>5, <1>6 DEF Joined
  <2>2. \A i \in Nat : i < 3 + q => Byte(b, i) = Byte(a, i)
    BY <1>7, <1>12 DEF Joined
  <2>3. \A i \in Nat : i < 3 + q + m => Byte(c, i) = Byte(b, i)
    BY <1>8, <1>12 DEF Joined
  <2>4. \A i \in Nat : i < 3 + q + m + 1 => Byte(d, i) = Byte(c, i)
    BY <1>9, <1>12 DEF Joined
  <2>5. \A i \in Nat : i < 3 + q + m + 1 + n => Byte(e, i) = Byte(d, i)
    BY <1>10, <1>12 DEF Joined
  <2> QED
    BY <2>1, <2>2, <2>3, <2>4, <2>5
<1>14. /\ \A i \in Nat : Byte(a, 3 + i) = Byte(x, i)
       /\ \A i \in Nat : Byte(b, 3 + q + i) = Byte(y, i)
       /\ \A i \in Nat : Byte(c, 3 + q + m + i) = Byte(z, i)
       /\ \A i \in Nat : Byte(d, 3 + q + m + 1 + i) = Byte(w, i)
       /\ \A i \in Nat : Byte(e, 3 + q + m + 1 + n + i) = Byte(z, i)
  <2>1. \A i \in Nat : Byte(a, 3 + i) = Byte(x, i)
    BY <1>5, <1>6 DEF Joined
  <2>2. \A i \in Nat : Byte(b, 3 + q + i) = Byte(y, i)
    BY <1>7, <1>12 DEF Joined
  <2>3. \A i \in Nat : Byte(c, 3 + q + m + i) = Byte(z, i)
    BY <1>8, <1>12 DEF Joined
  <2>4. \A i \in Nat : Byte(d, 3 + q + m + 1 + i) = Byte(w, i)
    BY <1>9, <1>12 DEF Joined
  <2>5. \A i \in Nat : Byte(e, 3 + q + m + 1 + n + i) = Byte(z, i)
    BY <1>10, <1>12 DEF Joined
  <2> QED
    BY <2>1, <2>2, <2>3, <2>4, <2>5
<1>15. /\ Byte(e, 0) = p.core /\ Byte(e, 1) = q /\ Byte(e, 2) = p.pid
  <2>1. ASSUME NEW i \in Nat, i < 3 PROVE Byte(e, i) = Byte(h, i)
    BY <2>1, <1>13
  <2>2. PICK i \in Nat, j \in Nat, k \in Nat : i = 0 /\ j = 1 /\ k = 2
    OBVIOUS
  <2>3. Byte(e, i) = Byte(h, i) /\ Byte(e, j) = Byte(h, j) /\ Byte(e, k) = Byte(h, k)
    BY <2>1, <2>2
  <2> QED
    BY <1>5, <2>2, <2>3
<1>16. ASSUME NEW i \in 1 .. q PROVE Byte(e, 3 + i - 1) = x[i]
  <2>1. PICK j \in Nat, k \in Nat : j = 3 + i - 1 /\ k = i - 1
    OBVIOUS
  <2>2. Byte(e, j) = Byte(a, j)
    BY <2>1, <1>13
  <2>3. Byte(a, 3 + k) = Byte(x, k) /\ j = 3 + k
    BY <2>1, <1>14
  <2>4. Byte(x, i - 1) = x[i]
    BY <1>4, ByteIs
  <2> QED
    BY <2>1, <2>2, <2>3, <2>4
<1>17. ASSUME NEW i \in 1 .. m PROVE Byte(e, 3 + q + i - 1) = y[i]
  <2>1. PICK j \in Nat, k \in Nat : j = 3 + q + i - 1 /\ k = i - 1
    OBVIOUS
  <2>2. Byte(e, j) = Byte(b, j)
    BY <2>1, <1>13
  <2>3. Byte(b, 3 + q + k) = Byte(y, k) /\ j = 3 + q + k
    BY <2>1, <1>14
  <2>4. Byte(y, i - 1) = y[i]
    BY <1>4, ByteIs
  <2> QED
    BY <2>1, <2>2, <2>3, <2>4
<1>18. Byte(e, 3 + q + m) = NUL
  <2>1. PICK j \in Nat, k \in Nat : j = 3 + q + m /\ k = 0
    OBVIOUS
  <2>2. Byte(e, j) = Byte(c, j)
    BY <2>1, <1>13
  <2>3. Byte(c, 3 + q + m + k) = Byte(z, k) /\ j = 3 + q + m + k
    BY <2>1, <1>14
  <2> QED
    BY <1>5, <2>1, <2>2, <2>3
<1>19. ASSUME NEW i \in 1 .. n PROVE Byte(e, 3 + q + m + 1 + i - 1) = w[i]
  <2>1. PICK j \in Nat, k \in Nat : j = 3 + q + m + 1 + i - 1 /\ k = i - 1
    OBVIOUS
  <2>2. Byte(e, j) = Byte(d, j)
    BY <2>1, <1>13
  <2>3. Byte(d, 3 + q + m + 1 + k) = Byte(w, k) /\ j = 3 + q + m + 1 + k
    BY <2>1, <1>14
  <2>4. Byte(w, i - 1) = w[i]
    BY <1>4, ByteIs
  <2> QED
    BY <2>1, <2>2, <2>3, <2>4
<1>20. Byte(e, 3 + q + m + 1 + n) = NUL
  <2>1. PICK j \in Nat, k \in Nat : j = 3 + q + m + 1 + n /\ k = 0
    OBVIOUS
  <2>2. Byte(e, 3 + q + m + 1 + n + k) = Byte(z, k) /\ j = 3 + q + m + 1 + n + k
    BY <2>1, <1>14
  <2> QED
    BY <1>5, <2>1, <2>2
<1>21. NamesAt(p) = 3 + q /\ ExeAt(p) = 3 + q + m + 1 /\ Bytes(p) = 3 + q + m + 1 + n + 1
  BY <1>3, <1>4 DEF NamesAt, ExeAt, Bytes, HeaderBytes
<1> QED
  BY <1>3, <1>4, <1>11, <1>12, <1>15, <1>16, <1>17, <1>18, <1>19, <1>20, <1>21
  DEF Spelled, HeaderBytes

-----------------------------------------------------------------------------
(* Reading strings back                                                    *)

\* What follows a file reads as 0.
LEMMA BeyondFile ==
  ASSUME NEW f \in Seq(Nat), NEW x \in Nat, x >= Len(f), NEW n \in Nat
  PROVE  strnlen(f, x, n) = 0 /\ StringAt(f, x) = <<>>
<1>1. PICK k \in Nat : k = 0
  OBVIOUS
<1>2. Len(f) \in Nat /\ k \in 0 .. n /\ k \in 0 .. Len(f) /\ Byte(f, x + k) = NUL
  BY <1>1 DEF Byte
<1>3. Chars(f, x, k)
  BY <1>1 DEF Chars
<1>4. strnlen(f, x, n) = k /\ strlen(f, x) = k
  BY <1>2, <1>3, StrnlenIs, StrlenIs
<1> QED
  BY <1>1, <1>4 DEF StringAt

\* The string s is written at x, as far as the file goes.
StringHere(f, x, s) ==
  /\ \A i \in 1 .. Len(s) : x + i - 1 < Len(f) => Byte(f, x + i - 1) = s[i]
  /\ x + Len(s) < Len(f) => Byte(f, x + Len(s)) = NUL

\* It is read as it is, or as far as the file goes.
LEMMA StringRead ==
  ASSUME NEW f \in Seq(Nat), NEW x \in Nat, NEW s \in Seq(Nat \ {NUL}), StringHere(f, x, s),
         NEW n \in Nat, n = Len(f) - x
  PROVE  /\ n <= Len(s) => strnlen(f, x, n) = n
         /\ n > Len(s) => strnlen(f, x, n) = Len(s) /\ StringAt(f, x) = s
         /\ IsPrefix(StringAt(f, x), s)
<1>1. PICK l \in Nat, m \in Nat : l = Len(f) /\ m = Len(s)
  OBVIOUS
<1>2. PICK k \in Nat : k = IF n <= m THEN n ELSE m
  BY <1>1
<1>3. \A i \in 1 .. k : Byte(f, x + i - 1) = s[i] /\ s[i] # NUL
  BY <1>1, <1>2 DEF StringHere
<1>4. Chars(f, x, k)
  <2> SUFFICES ASSUME NEW j \in 0 .. k - 1 PROVE Byte(f, x + j) # NUL
    BY DEF Chars
  <2>1. PICK i \in 1 .. k : i = j + 1
    OBVIOUS
  <2>2. x + i - 1 = x + j
    BY <2>1
  <2> QED
    BY <1>3, <2>2
<1>5. Byte(f, x + k) = NUL
  BY <1>1, <1>2 DEF StringHere, Byte
<1>6. strlen(f, x) = k
  <2>1. Len(f) \in Nat /\ k \in 0 .. Len(f)
    BY <1>1, <1>2
  <2> QED
    BY <2>1, <1>4, <1>5, StrlenIs
<1>7. strnlen(f, x, n) = k
  BY <1>2, <1>4, <1>5, StrnlenIs
<1>8. StringAt(f, x) = [i \in 1 .. k |-> Byte(f, x + i - 1)]
  BY <1>6, Zenon DEF StringAt
<1>9. StringAt(f, x) = [i \in 1 .. k |-> s[i]]
  BY <1>3, <1>8
<1>10. k = m => StringAt(f, x) = s
  BY <1>1, <1>9
<1>11. IsPrefix(StringAt(f, x), s)
  <2>1. PICK t : t = [i \in 1 .. k |-> s[i]]
    OBVIOUS
  <2>2. t \in Seq(Nat) /\ Len(t) = k /\ k <= Len(s) /\ \A i \in 1 .. k : t[i] = s[i]
    BY <2>1, <1>1, <1>2
  <2>3. IsPrefix(t, s)
    BY <2>2 DEF IsPrefix
  <2> QED
    BY <2>1, <2>3, <1>9
<1> QED
  BY <1>1, <1>2, <1>7, <1>10, <1>11

-----------------------------------------------------------------------------
(* Packets in a file                                                       *)

\* A sequence with one more element, as a function.
LEMMA AppendIs ==
  ASSUME NEW S, NEW s \in Seq(S), NEW e \in S, NEW k, k = Len(s) + 1
  PROVE  Append(s, e) = [i \in 1 .. k |-> IF i = k THEN e ELSE s[i]]
<1>0. Append(s, e) \in Seq(S)
  OBVIOUS
<1>1. PICK a \in Seq(S) : a = Append(s, e)
  BY <1>0, Zenon
<1>2. Len(a) = k /\ \A i \in 1 .. k : a[i] = IF i = k THEN e ELSE s[i]
  BY <1>1
<1>3. a = [i \in 1 .. k |-> a[i]]
  BY <1>2
<1> QED
  BY <1>1, <1>2, <1>3

\* Where the packets w end in a file that begins with the description.
Ends(w) ==
  [k \in 0 .. Len(w) |-> Len(Description) + Len(FlattenSeq([i \in 1 .. k |-> Encode(w[i])]))]

\* Each packet ends its size after the one before.
LEMMA EndsAre ==
  ASSUME NEW w \in Seq(PacketType)
  PROVE  /\ Ends(w) \in [0 .. Len(w) -> Nat]
         /\ Ends(w)[0] = Len(Description)
         /\ \A k \in 1 .. Len(w) : Ends(w)[k] = Ends(w)[k - 1] + Bytes(w[k])
<1> DEFINE Parts(k) == [i \in 1 .. k |-> Encode(w[i])]
<1>0. PICK n \in Nat : n = Len(w)
  OBVIOUS
<1>1. \A i \in 1 .. n : Encode(w[i]) \in Seq(Nat) /\ Len(Encode(w[i])) = Bytes(w[i])
  BY <1>0, Spelling DEF Spelled
<1>2. ASSUME NEW k \in 0 .. n PROVE Parts(k) \in Seq(Seq(Nat)) /\ Len(Parts(k)) = k
  BY <1>1, <1>2
<1>3. ASSUME NEW k \in 0 .. n PROVE FlattenSeq(Parts(k)) \in Seq(Nat)
  BY <1>2, FlattenType
<1>4. ASSUME NEW k \in 1 .. n
      PROVE  FlattenSeq(Parts(k)) = FlattenSeq(Parts(k - 1)) \o Encode(w[k])
  <2>1. PICK j \in 0 .. n : j = k - 1
    OBVIOUS
  <2>2. Parts(j) \in Seq(Seq(Nat)) /\ Len(Parts(j)) = j /\ Encode(w[k]) \in Seq(Nat)
    BY <1>1, <1>2
  <2>3. PICK s \in Seq(Seq(Nat)) : s = Parts(j)
    BY <2>2
  <2>4. Append(s, Encode(w[k])) = Parts(k)
    <3>1. Len(s) = j /\ \A i \in 1 .. j : s[i] = Encode(w[i])
      BY <2>2, <2>3
    <3>2. PICK e \in Seq(Nat) : e = Encode(w[k])
      BY <2>2
    <3>3. Append(s, e) = [i \in 1 .. k |-> IF i = k THEN e ELSE s[i]]
      <4>1. PICK S : S = Seq(Nat)
        OBVIOUS
      <4>2. s \in Seq(S) /\ e \in S /\ k = Len(s) + 1
        BY <2>1, <3>1, <4>1
      <4> QED
        BY <4>2, AppendIs
    <3>4. \A i \in 1 .. k : Encode(w[i]) = IF i = k THEN e ELSE s[i]
      BY <2>1, <3>1, <3>2
    <3> QED
      BY <3>2, <3>3, <3>4
  <2>5. FlattenSeq(Append(s, Encode(w[k]))) = FlattenSeq(s) \o Encode(w[k])
    BY <2>2, FlattenAppend
  <2> QED
    BY <2>1, <2>3, <2>4, <2>5
<1>5. ASSUME NEW k \in 0 .. n
      PROVE  Ends(w)[k] = 2 + Len(FlattenSeq(Parts(k))) /\ Len(FlattenSeq(Parts(k))) \in Nat
  <2>1. Len(Description) = 2
    BY DEF Description
  <2>2. Len(FlattenSeq(Parts(k))) \in Nat
    BY <1>3
  <2> QED
    BY <1>0, <2>1, <2>2 DEF Ends
<1>6. Len(FlattenSeq(Parts(0))) = 0
  <2>1. Parts(0) = <<>>
    OBVIOUS
  <2> QED
    BY <2>1, FlattenEmpty
<1>7. Len(Description) = 2
  BY DEF Description
<1>8. ASSUME NEW k \in 1 .. n PROVE Ends(w)[k] = Ends(w)[k - 1] + Bytes(w[k])
  <2>1. PICK j \in 0 .. n : j = k - 1
    OBVIOUS
  <2>2. PICK s \in Seq(Nat), e \in Seq(Nat) : s = FlattenSeq(Parts(j)) /\ e = Encode(w[k])
    BY <1>1, <1>3
  <2>3. FlattenSeq(Parts(k)) = s \o e
    BY <1>4, <2>1, <2>2
  <2>4. Len(s \o e) = Len(s) + Len(e) /\ Len(e) = Bytes(w[k]) /\ Len(s) \in Nat /\ Len(e) \in Nat
    BY <1>1, <2>2
  <2>5. Ends(w)[k] = 2 + Len(s \o e) /\ Ends(w)[j] = 2 + Len(s)
    <3> HIDE DEF Parts
    <3>1. k \in 0 .. n
      OBVIOUS
    <3> QED
      BY <1>5, <2>2, <2>3, <3>1
  <2> QED
    BY <2>1, <2>4, <2>5
<1>9. Ends(w) \in [0 .. n -> Nat]
  <2> HIDE DEF Parts
  <2>1. Ends(w) = [k \in 0 .. n |-> Ends(w)[k]]
    BY <1>0 DEF Ends
  <2>2. \A k \in 0 .. n : Ends(w)[k] \in Nat
    BY <1>5
  <2> QED
    BY <2>1, <2>2
<1>10. Ends(w)[0] = 2
  <2> HIDE DEF Parts
  <2> QED
    BY <1>5, <1>6
<1> QED
  BY <1>0, <1>7, <1>8, <1>9, <1>10

\* A packet has a header and the ends of two strings at least.
LEMMA BytesAre ==
  ASSUME NEW p \in PacketType
  PROVE  Bytes(p) \in Nat \ {0}
<1>1. Len(p.samples) \in Nat /\ Len(p.cmdline) \in Nat /\ Len(p.exe) \in Nat
  BY DEF PacketType
<1>2. PICK q \in Nat, m \in Nat, n \in Nat : q = Len(p.samples) /\ m = Len(p.cmdline) /\ n = Len(p.exe)
  BY <1>1
<1>3. NamesAt(p) = 3 + q /\ ExeAt(p) = 3 + q + m + 1 /\ Bytes(p) = 3 + q + m + 1 + n + 1
  BY <1>2 DEF Bytes, ExeAt, NamesAt, HeaderBytes
<1> QED
  BY <1>3

\* Later packets end later.
LEMMA EndsGrow ==
  ASSUME NEW w \in Seq(PacketType), NEW k \in 0 .. Len(w), NEW l \in 0 .. Len(w), k < l
  PROVE  Ends(w)[k] < Ends(w)[l]
<1>0. PICK n \in Nat : n = Len(w)
  OBVIOUS
<1>1. PICK e \in [0 .. n -> Nat] : e = Ends(w) /\ \A i \in 1 .. n : e[i] = e[i - 1] + Bytes(w[i])
  BY <1>0, EndsAre
<1>2. \A i \in 1 .. n : Bytes(w[i]) \in Nat \ {0}
  BY <1>0, BytesAre
<1> DEFINE T == {d \in 0 .. l - k - 1 : e[k] < e[k + d + 1]}
<1>3. ASSUME NEW d \in Nat, k + d + 1 <= n PROVE e[k + d + 1] > e[k + d] /\ e[k + d] \in Nat
  <2>1. PICK i \in 1 .. n : i = k + d + 1
    BY <1>0, <1>3
  <2>2. i - 1 = k + d
    BY <2>1
  <2> QED
    BY <1>1, <1>2, <2>1, <2>2
<1>4. 0 \in T
  <2>1. PICK d \in Nat : d = 0
    OBVIOUS
  <2>2. k + d + 1 <= n /\ k + d = k
    BY <1>0, <2>1
  <2> QED
    BY <1>3, <2>1, <2>2
<1>5. ASSUME NEW d \in T, d < l - k - 1 PROVE d + 1 \in T
  <2>1. PICK x \in Nat : x = d + 1
    BY <1>5
  <2>2. k + x + 1 <= n /\ k + x = k + d + 1 /\ e[k] < e[k + d + 1]
    BY <1>0, <1>5, <2>1
  <2>3. e[k + x + 1] > e[k + x] /\ e[k + x] \in Nat
    BY <1>3, <2>2
  <2>4. k + x + 1 \in 0 .. n /\ k \in 0 .. n
    BY <1>0, <2>2
  <2>5. e[k + x + 1] \in Nat /\ e[k] \in Nat
    BY <1>1, <2>4
  <2>6. e[k] < e[k + x + 1]
    <3>1. e[k] < e[k + x]
      BY <2>2
    <3> QED
      BY <2>3, <2>5, <3>1
  <2> QED
    BY <1>5, <2>1, <2>6
<1>6. l - k - 1 \in T
  <2> HIDE DEF T
  <2>1. l - k - 1 \in Nat
    OBVIOUS
  <2>2. T \in SUBSET (0 .. l - k - 1)
    BY DEF T
  <2> QED
    BY <2>1, <2>2, <1>4, <1>5, UpTo
<1>7. k + (l - k - 1) + 1 = l
  OBVIOUS
<1> QED
  BY <1>1, <1>6, <1>7

\* The packets w lie one after the other in f, as far as it goes.
Laid(w, f) ==
  /\ f \in Seq(Nat) /\ Len(f) >= Len(Description)
  /\ Byte(f, 0) # NUL /\ Byte(f, 1) = NUL
  /\ \A k \in 1 .. Len(w) : \A i \in 0 .. Bytes(w[k]) - 1 :
       Ends(w)[k - 1] + i < Len(f) =>
         Byte(f, Ends(w)[k - 1] + i) = Byte(Encode(w[k]), i)

\* The bytes of a packet, by their distance from its first one.
BytesLie(w, f) ==
  \A k \in 1 .. Len(w), i \in Nat :
    i < Bytes(w[k]) /\ Ends(w)[k - 1] + i < Len(f) =>
      Byte(f, Ends(w)[k - 1] + i) = Byte(Encode(w[k]), i)

\* Laid, by the distance from the first byte.
LEMMA LaidIs ==
  ASSUME NEW w \in Seq(PacketType), NEW f
  PROVE  Laid(w, f) <=> /\ f \in Seq(Nat) /\ Len(f) >= Len(Description)
                        /\ Byte(f, 0) # NUL /\ Byte(f, 1) = NUL
                        /\ BytesLie(w, f)
<1>1. \A k \in 1 .. Len(w) : \A i : i \in 0 .. Bytes(w[k]) - 1 <=> i \in Nat /\ i < Bytes(w[k])
  <2>1. \A k \in 1 .. Len(w) : Bytes(w[k]) \in Nat
    BY BytesAre
  <2> QED
    BY <2>1
<1> QED
  BY <1>1, Zenon DEF Laid, BytesLie

\* What packet_read makes of the packet p at a place of the file f.
Reads(r, p, f, at) ==
  /\ r.core = p.core /\ r.pid = p.pid /\ r.samples = p.samples
  /\ r.read \in Nat /\ at + NamesAt(p) <= Len(f)
  /\ IsPrefix(StringAt(f, r.cmdline), p.cmdline) /\ IsPrefix(StringAt(f, r.exe), p.exe)
  /\ IF at + Bytes(p) <= Len(f)
     THEN /\ StringAt(f, r.cmdline) = p.cmdline /\ StringAt(f, r.exe) = p.exe
          /\ r.read = Bytes(p)
     ELSE at + r.read \in Len(f) + 1 .. Len(f) + 2

\* The lengths of a packet's parts, and where they begin.
Lengths(p, q, m, n, x, y, z) ==
  /\ q = Len(p.samples) /\ m = Len(p.cmdline) /\ n = Len(p.exe)
  /\ x = NamesAt(p) /\ y = ExeAt(p) /\ z = Bytes(p)

\* A packet has these lengths, as numbers.
LEMMA LengthsAre ==
  ASSUME NEW p \in PacketType
  PROVE  \E q, m, n, x, y, z \in Nat :
           Lengths(p, q, m, n, x, y, z) /\ x = 3 + q /\ y = x + m + 1 /\ z = y + n + 1
<1>1. Len(p.samples) \in Nat /\ Len(p.cmdline) \in Nat /\ Len(p.exe) \in Nat
  BY DEF PacketType
<1>2. PICK q \in Nat, m \in Nat, n \in Nat : q = Len(p.samples) /\ m = Len(p.cmdline) /\ n = Len(p.exe)
  BY <1>1
<1>3. PICK x \in Nat, y \in Nat, z \in Nat : x = 3 + q /\ y = x + m + 1 /\ z = y + n + 1
  OBVIOUS
<1>4. x = NamesAt(p) /\ y = ExeAt(p) /\ z = Bytes(p)
  BY <1>2, <1>3 DEF NamesAt, ExeAt, Bytes, HeaderBytes
<1> QED
  BY <1>2, <1>3, <1>4 DEF Lengths

\* The bytes of the packet p at a place of a file, as far as it goes.
PacketLies(f, at, p) ==
  /\ Byte(f, at) = p.core
  /\ at + 1 < Len(f) => Byte(f, at + 1) = Len(p.samples)
  /\ at + 2 < Len(f) => Byte(f, at + 2) = p.pid
  /\ \A i \in 1 .. Len(p.samples) : at + HeaderBytes + i - 1 < Len(f) =>
       Byte(f, at + HeaderBytes + i - 1) = p.samples[i]
  /\ StringHere(f, at + NamesAt(p), p.cmdline)
  /\ StringHere(f, at + ExeAt(p), p.exe)

\* Each packet of a file that Laid describes lies where Ends says.
LEMMA BytesHere ==
  ASSUME NEW w \in Seq(PacketType), NEW f, Laid(w, f), NEW k \in 1 .. Len(w),
         NEW at \in Nat, at = Ends(w)[k - 1], NEW p, p = w[k], at < Len(f)
  PROVE  PacketLies(f, at, p)
<1> DEFINE e == Encode(p)
<1>1. p \in PacketType /\ Spelled(e, p)
  BY Spelling
<1> HIDE DEF e
<1>2. PICK q \in Nat, m \in Nat, n \in Nat, nm \in Nat, ex \in Nat, size \in Nat :
        Lengths(p, q, m, n, nm, ex, size) /\ nm = 3 + q /\ ex = nm + m + 1 /\ size = ex + n + 1
  BY <1>1, LengthsAre
<1>2a. nm = 3 + q /\ ex = nm + m + 1 /\ size = ex + n + 1
  BY <1>2
<1>2b. /\ q = Len(p.samples) /\ m = Len(p.cmdline) /\ n = Len(p.exe)
       /\ nm = NamesAt(p) /\ ex = ExeAt(p) /\ size = Bytes(p)
  BY <1>2 DEF Lengths
<1>3. PICK l \in Nat : l = Len(f)
  BY DEF Laid
<1>4. \A i \in Nat : i < size /\ at + i < l => Byte(f, at + i) = Byte(e, i)
  BY <1>2b, <1>3, LaidIs DEF BytesLie, e
<1>5. Byte(f, at) = p.core /\ (at + 1 < l => Byte(f, at + 1) = q) /\ (at + 2 < l => Byte(f, at + 2) = p.pid)
  <2>1. PICK i \in Nat, j \in Nat, k2 \in Nat : i = 0 /\ j = 1 /\ k2 = 2
    OBVIOUS
  <2>2. Byte(e, i) = p.core /\ Byte(e, j) = q /\ Byte(e, k2) = p.pid
    BY <1>1, <1>2b, <2>1 DEF Spelled
  <2>3. at + i = at /\ i < size /\ j < size /\ k2 < size
    BY <1>2a, <2>1
  <2>4. Byte(f, at + i) = p.core
    BY <1>3, <1>4, <2>2, <2>3
  <2>5. at + j < l => Byte(f, at + j) = q
    BY <1>4, <2>2, <2>3
  <2>6. at + k2 < l => Byte(f, at + k2) = p.pid
    BY <1>4, <2>2, <2>3
  <2> QED
    BY <2>1, <2>3, <2>4, <2>5, <2>6
<1>6. ASSUME NEW i \in 1 .. q, at + 3 + i - 1 < l PROVE Byte(f, at + 3 + i - 1) = p.samples[i]
  <2>1. PICK j \in Nat : j = 3 + i - 1
    OBVIOUS
  <2>2. j < size /\ at + j = at + 3 + i - 1
    BY <1>2a, <2>1, SMTT(20)
  <2>3. Byte(e, j) = p.samples[i]
    BY <1>1, <1>2b, <2>1 DEF Spelled, HeaderBytes
  <2> QED
    BY <1>4, <1>6, <2>2, <2>3
<1>7. StringHere(f, at + NamesAt(p), p.cmdline)
  <2>1. ASSUME NEW i \in 1 .. m, at + nm + i - 1 < l
        PROVE  Byte(f, at + nm + i - 1) = p.cmdline[i]
    <3>1. PICK j \in Nat : j = nm + i - 1
      BY <1>2a
    <3>2. j < size /\ at + j = at + nm + i - 1
      BY <1>2a, <3>1
    <3>3. Byte(e, j) = p.cmdline[i]
      BY <1>1, <1>2b, <3>1 DEF Spelled
    <3> QED
      BY <1>4, <2>1, <3>2, <3>3
  <2>2. ASSUME at + nm + m < l PROVE Byte(f, at + nm + m) = NUL
    <3>1. PICK j \in Nat : j = nm + m
      BY <1>2a
    <3>2. j < size /\ at + j = at + nm + m
      BY <1>2a, <3>1, SMTT(20)
    <3>3. Byte(e, j) = NUL
      BY <1>1, <1>2b, <3>1 DEF Spelled
    <3> QED
      BY <1>4, <2>2, <3>2, <3>3
  <2> QED
    BY <1>2b, <1>3, <2>1, <2>2 DEF StringHere
<1>8. StringHere(f, at + ExeAt(p), p.exe)
  <2>1. ASSUME NEW i \in 1 .. n, at + ex + i - 1 < l
        PROVE  Byte(f, at + ex + i - 1) = p.exe[i]
    <3>1. PICK j \in Nat : j = ex + i - 1
      BY <1>2a
    <3>2. j < size /\ at + j = at + ex + i - 1
      BY <1>2a, <3>1
    <3>3. Byte(e, j) = p.exe[i]
      BY <1>1, <1>2b, <3>1 DEF Spelled
    <3> QED
      BY <1>4, <2>1, <3>2, <3>3
  <2>2. ASSUME at + ex + n < l PROVE Byte(f, at + ex + n) = NUL
    <3>1. PICK j \in Nat : j = ex + n
      BY <1>2a
    <3>2. j < size /\ at + j = at + ex + n
      BY <1>2a, <3>1
    <3>3. Byte(e, j) = NUL
      BY <1>1, <1>2b, <3>1 DEF Spelled
    <3> QED
      BY <1>4, <2>2, <3>2, <3>3
  <2> QED
    BY <1>2b, <1>3, <2>1, <2>2 DEF StringHere
<1> QED
  BY <1>2b, <1>3, <1>5, <1>6, <1>7, <1>8 DEF HeaderBytes, PacketLies

\* read_info gives nothing, or one pair of names.
LEMMA ReadInfoIs ==
  ASSUME NEW f, NEW ptr, NEW n, NEW len, len = strnlen(f, ptr, n), NEW k,
         k = strnlen(f, ptr + len + 1, IF n = len THEN Len(f) ELSE n - len - 1)
  PROVE  /\ len = n - 1 => ReadInfo(f, ptr, n) = {}
         /\ len # n - 1 => ReadInfo(f, ptr, n)
              = {[cmdline |-> ptr, exe |-> ptr + len + 1, read |-> len + 1 + k + 1]}
<1>1. ReadInfo(f, ptr, n) =
        {[cmdline |-> ptr, exe |-> ptr + l + 1,
          read |-> l + 1 + strnlen(f, ptr + l + 1, IF n = l THEN Len(f) ELSE n - l - 1) + 1] :
         l \in {len} \ {n - 1}}
  BY Zenon DEF ReadInfo
<1>2. ASSUME len = n - 1 PROVE ReadInfo(f, ptr, n) = {}
  <2>1. {len} \ {n - 1} = {}
    BY <1>2
  <2> QED
    BY <1>1, <2>1, Zenon
<1>3. ASSUME len # n - 1
      PROVE  ReadInfo(f, ptr, n) = {[cmdline |-> ptr, exe |-> ptr + len + 1, read |-> len + 1 + k + 1]}
  <2>1. {len} \ {n - 1} = {len}
    BY <1>3
  <2> QED
    BY <1>1, <2>1, Zenon
<1> QED
  BY <1>2, <1>3

\* The packet with these names.
Decoded(f, at, q, info) ==
  [core |-> Byte(f, at), pid |-> Byte(f, at + 2),
   samples |-> [i \in 1 .. q |-> Byte(f, at + HeaderBytes + i - 1)],
   cmdline |-> info.cmdline, exe |-> info.exe,
   read |-> HeaderBytes + q + info.read]

AllDecoded(f, at, q, n) ==
  {Decoded(f, at, q, info) : info \in ReadInfo(f, at + HeaderBytes + q, n - HeaderBytes - q)}

\* packet_read reads the names when the samples are there.
LEMMA PacketReadIs ==
  ASSUME NEW f, NEW at, NEW n, NEW q, q = Byte(f, at + 1)
  PROVE  PacketRead(f, at, n) =
           IF n < HeaderBytes \/ n - HeaderBytes < q THEN {} ELSE AllDecoded(f, at, q, n)
BY Zenon DEF PacketRead, AllDecoded, Decoded

\* packet_read finds the packet that lies there, or nothing when bytes are missing.
LEMMA Decode ==
  ASSUME NEW p \in PacketType, NEW f \in Seq(Nat), NEW at \in Nat, PacketLies(f, at, p),
         NEW l \in Nat, l = Len(f), NEW left \in Nat, left = l - at
  PROVE  /\ \A r \in PacketRead(f, at, left) : Reads(r, p, f, at)
         /\ at + Bytes(p) <= Len(f) => PacketRead(f, at, left) # {}
<1>2. PICK q \in Nat, m \in Nat, n \in Nat, nm \in Nat, ex \in Nat, size \in Nat :
        Lengths(p, q, m, n, nm, ex, size) /\ nm = 3 + q /\ ex = nm + m + 1 /\ size = ex + n + 1
  BY LengthsAre
<1>3. nm = 3 + q /\ ex = nm + m + 1 /\ size = ex + n + 1
  BY <1>2
<1>4. /\ q = Len(p.samples) /\ m = Len(p.cmdline) /\ n = Len(p.exe)
      /\ nm = NamesAt(p) /\ ex = ExeAt(p) /\ size = Bytes(p)
  BY <1>2 DEF Lengths
<1>6. /\ Byte(f, at) = p.core
      /\ at + 1 < l => Byte(f, at + 1) = q
      /\ at + 2 < l => Byte(f, at + 2) = p.pid
      /\ \A i \in 1 .. q : at + 3 + i - 1 < l => Byte(f, at + 3 + i - 1) = p.samples[i]
      /\ StringHere(f, at + nm, p.cmdline)
      /\ StringHere(f, at + ex, p.exe)
  BY <1>4 DEF PacketLies, HeaderBytes
<1>7. ASSUME left < 3 \/ left - 3 < q PROVE PacketRead(f, at, left) = {} /\ at + size > l
  <2>1. CASE left < 3
    <3>1. PacketRead(f, at, left) = {}
      BY <2>1, PacketReadIs DEF HeaderBytes
    <3> QED
      BY <2>1, <3>1, <1>3
  <2>2. CASE ~(left < 3) /\ left - 3 < q
    <3>0. at + 1 < l
      BY <2>2
    <3>1. Byte(f, at + 1) = q
      BY <3>0, <1>6
    <3>2. PacketRead(f, at, left) = {}
      BY <2>2, <3>1, PacketReadIs DEF HeaderBytes
    <3> QED
      BY <2>2, <3>2, <1>3
  <2> QED
    BY <1>7, <2>1, <2>2
<1> DEFINE samples(x) == [i \in 1 .. x |-> Byte(f, at + 3 + i - 1)]
<1>8. ASSUME ~(left < 3 \/ left - 3 < q), NEW base \in Nat, NEW rest \in Nat,
             base = at + nm, rest = left - nm
      PROVE  /\ PacketRead(f, at, left) = {Decoded(f, at, q, info) : info \in ReadInfo(f, base, rest)}
             /\ \A info : /\ Decoded(f, at, q, info).core = p.core
                          /\ Decoded(f, at, q, info).pid = p.pid
                          /\ Decoded(f, at, q, info).samples = p.samples
                          /\ Decoded(f, at, q, info).cmdline = info.cmdline
                          /\ Decoded(f, at, q, info).exe = info.exe
                          /\ Decoded(f, at, q, info).read = nm + info.read
  <2>1. Byte(f, at + 1) = q /\ Byte(f, at + 2) = p.pid
    <3>1. at + 1 < l /\ at + 2 < l
      BY <1>8
    <3> QED
      BY <1>6, <3>1
  <2>2. at + 3 + q = base /\ left - 3 - q = rest
    BY <1>3, <1>8
  <2>3. samples(q) = p.samples
    <3>1. \A i \in 1 .. q : at + 3 + i - 1 < l
      BY <1>8
    <3>2. \A i \in 1 .. q : Byte(f, at + 3 + i - 1) = p.samples[i]
      BY <1>6, <3>1
    <3>3. PICK s \in Seq(Nat) : s = p.samples
      BY DEF PacketType
    <3>4. s = [i \in 1 .. q |-> s[i]]
      BY <1>4, <3>3
    <3> QED
      BY <3>2, <3>3, <3>4
  <2>4. PacketRead(f, at, left) = {Decoded(f, at, q, info) : info \in ReadInfo(f, base, rest)}
    <3>1. PacketRead(f, at, left) = AllDecoded(f, at, q, left)
      BY <1>8, <2>1, PacketReadIs DEF HeaderBytes
    <3>2. at + HeaderBytes + q = base /\ left - HeaderBytes - q = rest
      BY <2>2 DEF HeaderBytes
    <3> QED
      BY <3>1, <3>2, Zenon DEF AllDecoded
  <2>5. HeaderBytes = 3 /\ \A x : 3 + q + x = nm + x
    BY <1>3 DEF HeaderBytes
  <2> QED
    BY <1>6, <2>1, <2>3, <2>4, <2>5 DEF Decoded
<1>9. CASE left < 3 \/ left - 3 < q
  BY <1>4, <1>7, <1>9
<1>10. CASE ~(left < 3 \/ left - 3 < q)
  <2>1. PICK base \in Nat, rest \in Nat : base = at + nm /\ rest = left - nm
    <3>1. at + nm \in Nat /\ left - nm \in Nat
      BY <1>3, <1>10
    <3> QED
      BY <3>1
  <2>2. at + nm <= l /\ rest = l - base
    BY <1>10, <1>3, <2>1
  <2>3. PICK len : len = strnlen(f, base, rest)
    OBVIOUS
  <2>4. PICK k : k = strnlen(f, base + len + 1, IF rest = len THEN Len(f) ELSE rest - len - 1)
    OBVIOUS
  <2>5. PICK info : info = [cmdline |-> base, exe |-> base + len + 1, read |-> len + 1 + k + 1]
    OBVIOUS
  <2>6. /\ len = rest - 1 => ReadInfo(f, base, rest) = {}
        /\ len # rest - 1 => ReadInfo(f, base, rest) = {info}
    BY <2>3, <2>4, <2>5, ReadInfoIs
  <2>7. PICK r : r = Decoded(f, at, q, info)
    OBVIOUS
  <2>8. /\ len = rest - 1 => PacketRead(f, at, left) = {}
        /\ len # rest - 1 => PacketRead(f, at, left) = {r}
    <3>1. PacketRead(f, at, left) = {Decoded(f, at, q, i) : i \in ReadInfo(f, base, rest)}
      BY <1>8, <1>10, <2>1
    <3>2. CASE len = rest - 1
      BY <2>6, <3>1, <3>2, Zenon
    <3>3. CASE len # rest - 1
      BY <2>6, <2>7, <3>1, <3>3, Zenon
    <3> QED
      BY <3>2, <3>3
  <2>9. /\ r.core = p.core /\ r.pid = p.pid /\ r.samples = p.samples
        /\ r.cmdline = base /\ r.exe = base + len + 1 /\ r.read = nm + (len + 1 + k + 1)
    <3>1. /\ r.core = p.core /\ r.pid = p.pid /\ r.samples = p.samples
          /\ r.cmdline = info.cmdline /\ r.exe = info.exe /\ r.read = nm + info.read
      BY <1>8, <1>10, <2>1, <2>7
    <3> QED
      BY <2>5, <3>1
  <2>10. StringHere(f, base, p.cmdline) /\ StringHere(f, at + ex, p.exe)
    BY <1>6, <2>1
  <2>11. p.cmdline \in Seq(Nat \ {NUL}) /\ p.exe \in Seq(Nat \ {NUL})
    BY DEF PacketType
  <2>12. /\ rest <= m => len = rest
         /\ rest > m => len = m /\ StringAt(f, base) = p.cmdline
         /\ IsPrefix(StringAt(f, base), p.cmdline)
    <3>1. PICK s \in Seq(Nat \ {NUL}) : s = p.cmdline
      BY <2>11
    <3>2. rest = Len(f) - base /\ m = Len(s) /\ StringHere(f, base, s)
      BY <1>4, <2>2, <2>10, <3>1
    <3>3. /\ rest <= Len(s) => strnlen(f, base, rest) = rest
          /\ rest > Len(s) => strnlen(f, base, rest) = Len(s) /\ StringAt(f, base) = s
          /\ IsPrefix(StringAt(f, base), s)
      BY <3>2, StringRead
    <3> QED
      BY <2>3, <3>1, <3>2, <3>3
  <2>13. ASSUME rest <= m PROVE Reads(r, p, f, at) /\ at + size > l
    <3>1. len = rest
      BY <2>12, <2>13
    <3>2. PICK x \in Nat : x = base + len + 1
      BY <3>1
    <3>3. x = l + 1
      BY <2>2, <3>1, <3>2
    <3>4. k = 0 /\ StringAt(f, x) = <<>>
      BY <2>4, <3>1, <3>2, <3>3, BeyondFile
    <3>5. IsPrefix(<<>>, p.exe)
      BY <2>11 DEF IsPrefix
    <3>6. at + size > l
      BY <1>3, <2>1, <2>2, <2>13
    <3>7. r.read \in Nat /\ at + r.read = l + 2
      BY <2>1, <2>2, <2>9, <3>1, <3>4
    <3>8. /\ at + NamesAt(p) <= Len(f) /\ ~(at + Bytes(p) <= Len(f))
          /\ at + r.read \in Len(f) + 1 .. Len(f) + 2
      <4>1. PICK read \in Nat : read = r.read
        BY <3>7
      <4> QED
        <5>1. at + NamesAt(p) <= Len(f) /\ ~(at + Bytes(p) <= Len(f))
          BY <1>4, <2>2, <3>6
        <5>2. at + r.read \in Len(f) + 1 .. Len(f) + 2
          BY <3>7, <4>1
        <5> QED
          BY <5>1, <5>2
    <3>9. IsPrefix(StringAt(f, r.cmdline), p.cmdline) /\ IsPrefix(StringAt(f, r.exe), p.exe)
      BY <2>9, <2>12, <3>2, <3>4, <3>5
    <3> QED
      BY <2>9, <3>6, <3>7, <3>8, <3>9, Zenon DEF Reads
  <2>14. ASSUME rest = m + 1 PROVE len = rest - 1 /\ at + size > l
    <3>1. len = m
      BY <2>12, <2>14
    <3>2. at + size > l
      BY <1>3, <2>1, <2>2, <2>14
    <3> QED
      BY <2>14, <3>1, <3>2
  <2>15. ASSUME rest > m + 1
         PROVE  Reads(r, p, f, at) /\ len # rest - 1
    <3>1. len = m /\ StringAt(f, base) = p.cmdline
      BY <2>12, <2>15
    <3>2. PICK x \in Nat, c \in Nat : x = at + ex /\ c = l - x
      <4>1. at + ex \in Nat /\ l - (at + ex) \in Nat
        BY <1>3, <2>1, <2>2, <2>15
      <4> QED
        BY <4>1
    <3>3. x = base + len + 1 /\ c = rest - len - 1 /\ rest # len
      BY <1>3, <2>1, <2>2, <2>15, <3>1, <3>2
    <3>4. k = strnlen(f, x, c)
      BY <2>4, <3>3
    <3>5. /\ c <= n => k = c
          /\ c > n => k = n /\ StringAt(f, x) = p.exe
          /\ IsPrefix(StringAt(f, x), p.exe)
      <4>1. c = Len(f) - x /\ StringHere(f, x, p.exe)
        BY <2>10, <3>2
      <4>2. PICK s \in Seq(Nat \ {NUL}) : s = p.exe
        BY <2>11
      <4>3. c = Len(f) - x /\ StringHere(f, x, s)
        BY <4>1, <4>2
      <4>4. /\ c <= Len(s) => strnlen(f, x, c) = c
            /\ c > Len(s) => strnlen(f, x, c) = Len(s) /\ StringAt(f, x) = s
            /\ IsPrefix(StringAt(f, x), s)
        BY <4>3, StringRead
      <4> QED
        BY <1>4, <3>4, <4>2, <4>4
    <3>6. k \in Nat
      BY <3>5, <3>2
    <3>7. r.read = nm + (m + 1 + k + 1) /\ r.cmdline = base /\ r.exe = x
      BY <2>9, <3>1, <3>3
    <3>8. r.read \in Nat
      BY <3>6, <3>7
    <3>9. at + NamesAt(p) <= Len(f)
      BY <1>4, <2>2
    <3>10. IsPrefix(StringAt(f, r.cmdline), p.cmdline) /\ IsPrefix(StringAt(f, r.exe), p.exe)
      BY <2>12, <3>5, <3>7
    <3>11. Reads(r, p, f, at)
      <4>1. CASE c <= n
        <5>1. at + size > l
          BY <1>3, <3>2, <4>1
        <5>2. at + r.read = l + 1
          <6>1. k = c /\ l = x + c
            BY <3>2, <3>5, <4>1
          <6>2. x = at + nm + m + 1
            BY <1>3, <3>2
          <6> QED
            BY <3>7, <6>1, <6>2
        <5>3. ~(at + Bytes(p) <= Len(f)) /\ at + r.read \in Len(f) + 1 .. Len(f) + 2
          BY <1>4, <5>1, <5>2
        <5> QED
          BY <2>9, <3>8, <3>9, <3>10, <5>3, Zenon DEF Reads
      <4>2. CASE c > n
        <5>1. at + size <= l
          BY <1>3, <3>2, <4>2
        <5>2. r.read = size
          BY <1>3, <3>5, <3>7, <4>2
        <5>3. at + Bytes(p) <= Len(f) /\ r.read = Bytes(p)
          BY <1>4, <5>1, <5>2
        <5>4. StringAt(f, r.cmdline) = p.cmdline /\ StringAt(f, r.exe) = p.exe
          BY <3>1, <3>5, <3>7, <4>2
        <5> QED
          BY <2>9, <3>8, <3>9, <3>10, <5>3, <5>4, Zenon DEF Reads
      <4> QED
        BY <3>2, <4>1, <4>2
    <3>12. len # rest - 1
      BY <2>15, <3>1
    <3> QED
      BY <3>11, <3>12
  <2>16. rest <= m \/ rest = m + 1 \/ rest > m + 1
    OBVIOUS
  <2>17. \A r2 \in PacketRead(f, at, left) : Reads(r2, p, f, at)
    BY <2>8, <2>13, <2>14, <2>15, <2>16
  <2>18. ASSUME at + size <= l PROVE PacketRead(f, at, left) # {}
    <3>1. len # rest - 1
      BY <2>13, <2>14, <2>15, <2>16, <2>18
    <3> QED
      BY <2>8, <3>1
  <2> QED
    BY <1>4, <2>17, <2>18
<1> QED
  BY <1>9, <1>10

-----------------------------------------------------------------------------
(* Recording                                                               *)

\* The packets v are those of w and p, which ends last.
Extended(v, w, p) ==
  /\ v \in Seq(PacketType) /\ Len(v) = Len(w) + 1 /\ v[Len(w) + 1] = p
  /\ \A k \in 1 .. Len(w) : v[k] = w[k]
  /\ \A k \in 0 .. Len(w) : Ends(v)[k] = Ends(w)[k]
  /\ Ends(v)[Len(w) + 1] = Ends(w)[Len(w)] + Bytes(p)

\* One more packet leaves the ends of the others where they are.
LEMMA EndsAppend ==
  ASSUME NEW w \in Seq(PacketType), NEW p \in PacketType, NEW v, v = Append(w, p)
  PROVE  Extended(v, w, p)
<1>1. PICK n \in Nat, m \in Nat : n = Len(w) /\ m = n + 1
  OBVIOUS
<1>2. v \in Seq(PacketType) /\ Len(v) = m /\ v[m] = p /\ \A k \in 1 .. n : v[k] = w[k]
  <2>1. Append(w, p) \in Seq(PacketType)
    OBVIOUS
  <2>2. Append(w, p) = [i \in 1 .. m |-> IF i = m THEN p ELSE w[i]]
    BY <1>1, AppendIs
  <2>3. Len(v) = m
    BY <1>1
  <2> QED
    BY <1>1, <2>1, <2>2, <2>3
<1>3. ASSUME NEW k \in 0 .. n PROVE Ends(v)[k] = Ends(w)[k]
  <2>1. ASSUME NEW i \in 1 .. k PROVE Encode(v[i]) = Encode(w[i])
    <3>1. i \in 1 .. n
      OBVIOUS
    <3>2. v[i] = w[i]
      BY <1>2, <3>1
    <3> QED
      BY <3>2
  <2>2. [i \in 1 .. k |-> Encode(v[i])] = [i \in 1 .. k |-> Encode(w[i])]
    BY <2>1, Zenon
  <2>3. k \in 0 .. Len(v) /\ k \in 0 .. Len(w)
    BY <1>1, <1>2
  <2> QED
    BY <2>2, <2>3, Zenon DEF Ends
<1>4. Ends(v)[m] = Ends(w)[n] + Bytes(p)
  <2>1. m \in 1 .. Len(v) /\ m - 1 = n /\ n \in 0 .. n
    BY <1>1, <1>2
  <2>2. Ends(v)[m] = Ends(v)[m - 1] + Bytes(v[m])
    BY <1>2, <2>1, EndsAre
  <2> QED
    BY <1>2, <1>3, <2>1, <2>2
<1> QED
  BY <1>1, <1>2, <1>3, <1>4 DEF Extended

\* A packet that is written lies behind the others.
LEMMA LaidAppend ==
  ASSUME NEW w \in Seq(PacketType), NEW p \in PacketType, NEW f, Laid(w, f),
         Len(f) = Ends(w)[Len(w)]
  PROVE  /\ Laid(Append(w, p), f \o Encode(p))
         /\ Len(f \o Encode(p)) = Ends(Append(w, p))[Len(Append(w, p))]
<1>1. PICK v : v = Append(w, p)
  OBVIOUS
<1>2. PICK n \in Nat, m \in Nat : n = Len(w) /\ m = n + 1
  OBVIOUS
<1>3. /\ v \in Seq(PacketType) /\ Len(v) = m /\ v[m] = p /\ \A k \in 1 .. n : v[k] = w[k]
      /\ \A k \in 0 .. n : Ends(v)[k] = Ends(w)[k]
      /\ Ends(v)[m] = Ends(w)[n] + Bytes(p)
  <2>1. Extended(v, w, p)
    BY <1>1, EndsAppend
  <2> QED
    BY <1>2, <2>1 DEF Extended
<1>4. PICK e \in Seq(Nat) : e = Encode(p) /\ Len(e) = Bytes(p)
  BY Spelling DEF Spelled
<1>5. f \in Seq(Nat)
  BY DEF Laid
<1>6. PICK g \in Seq(Nat) : Joined(g, f, e)
  BY <1>5, JoinIs
<1>7. PICK l \in Nat : l = Len(f) /\ l = Ends(w)[n]
  BY <1>2, <1>5
<1>8. /\ g = f \o e /\ Len(g) = l + Bytes(p)
      /\ \A i \in Nat : i < l => Byte(g, i) = Byte(f, i)
      /\ \A i \in Nat : Byte(g, l + i) = Byte(e, i)
  BY <1>4, <1>6, <1>7 DEF Joined
<1>9. PICK ends \in [0 .. n -> Nat] :
        ends = Ends(w) /\ \A k \in 1 .. n : ends[k] = ends[k - 1] + Bytes(w[k])
  BY <1>2, EndsAre
<1>10. ASSUME NEW k \in 1 .. m, NEW i \in Nat, i < Bytes(v[k])
       PROVE  Byte(g, Ends(v)[k - 1] + i) = Byte(Encode(v[k]), i)
  <2>0. PICK j \in 0 .. n : j = k - 1
    BY <1>2
  <2>1. CASE k = m
    <3>1. Ends(v)[j] = l /\ v[k] = p
      BY <1>2, <1>3, <1>7, <2>0, <2>1
    <3> QED
      BY <1>4, <1>8, <2>0, <3>1
  <2>2. CASE k # m
    <3>1. k \in 1 .. n /\ v[k] = w[k] /\ Ends(v)[j] = ends[j]
      BY <1>2, <1>3, <1>9, <2>0, <2>2
    <3>2. PICK x \in Nat : x = ends[j] + i
      BY <1>9
    <3>3. x < ends[k]
      <4>1. ends[k] = ends[j] + Bytes(w[k]) /\ Bytes(w[k]) \in Nat
        BY <1>2, <1>9, <2>0, <3>1, BytesAre
      <4>2. PICK y \in Nat : y = Bytes(w[k]) /\ i < y
        BY <1>10, <3>1, <4>1
      <4> QED
        BY <1>9, <3>2, <4>1, <4>2
    <3>4. ends[k] <= l
      <4>1. CASE k = n
        BY <1>7, <1>9, <4>1
      <4>2. CASE k # n
        <5>1. k \in 0 .. Len(w) /\ n \in 0 .. Len(w) /\ k < n
          BY <1>2, <3>1, <4>2
        <5>2. ends[k] < ends[n]
          BY <1>9, <5>1, EndsGrow
        <5> QED
          BY <1>7, <1>9, <5>2, <5>1
      <4> QED
        BY <4>1, <4>2
    <3>5. x < l
      BY <1>9, <3>1, <3>3, <3>4
    <3>6. Byte(f, Ends(w)[k - 1] + i) = Byte(Encode(w[k]), i)
      <4>1. Ends(w)[k - 1] + i = x /\ i < Bytes(w[k])
        BY <1>9, <1>10, <2>0, <3>1, <3>2
      <4> QED
        BY <1>2, <1>7, <3>1, <3>5, <4>1, LaidIs, ZenonT(30) DEF BytesLie
    <3> QED
      BY <1>8, <1>9, <2>0, <3>1, <3>2, <3>5, <3>6
  <2> QED
    BY <2>1, <2>2
<1>11. Len(g) >= Len(Description) /\ Byte(g, 0) # NUL /\ Byte(g, 1) = NUL
  <2>1. PICK i \in Nat, j \in Nat : i = 0 /\ j = 1
    OBVIOUS
  <2>2. l >= 2 /\ Byte(f, i) # NUL /\ Byte(f, j) = NUL /\ Len(Description) = 2
    BY <1>7, <2>1 DEF Laid, Description
  <2>3. i < l /\ j < l
    BY <2>1, <2>2
  <2>4. Bytes(p) \in Nat
    BY BytesAre
  <2>5. Byte(g, i) # NUL /\ Byte(g, j) = NUL
    BY <1>8, <2>2, <2>3
  <2>6. PICK y \in Nat : y = Bytes(p)
    BY <2>4
  <2> QED
    BY <1>8, <2>1, <2>2, <2>5, <2>6
<1>12. Laid(v, g)
  BY <1>3, <1>10, <1>11, LaidIs DEF BytesLie
<1> QED
  BY <1>1, <1>3, <1>4, <1>7, <1>8, <1>12

\* A file that lost its end.
LEMMA LaidCut ==
  ASSUME NEW w \in Seq(PacketType), NEW f, Laid(w, f), NEW c \in Nat, c <= Len(f), c >= 2
  PROVE  Laid(w, SubSeq(f, 1, c)) /\ Len(SubSeq(f, 1, c)) = c
<1>1. f \in Seq(Nat) /\ Len(Description) = 2
  BY DEF Laid, Description
<1>2. SubSeq(f, 1, c) \in Seq(Nat) /\ Len(SubSeq(f, 1, c)) = c /\ \A i \in 1 .. c : SubSeq(f, 1, c)[i] = f[i]
  BY <1>1
<1>3. PICK g \in Seq(Nat) : g = SubSeq(f, 1, c) /\ Len(g) = c /\ \A i \in 1 .. c : g[i] = f[i]
  BY <1>2, Zenon
<1>4. ASSUME NEW i \in Nat, i < c PROVE Byte(g, i) = Byte(f, i)
  <2>1. i + 1 \in 1 .. c /\ i < Len(g) /\ i < Len(f)
    BY <1>1, <1>3, <1>4
  <2> QED
    BY <1>3, <2>1 DEF Byte
<1>5. Byte(g, 0) # NUL /\ Byte(g, 1) = NUL
  <2>1. PICK i \in Nat, j \in Nat : i = 0 /\ j = 1
    OBVIOUS
  <2>2. Byte(g, i) = Byte(f, i) /\ Byte(g, j) = Byte(f, j)
    BY <1>4, <2>1
  <2> QED
    BY <2>1, <2>2 DEF Laid
<1>6. ASSUME NEW k \in 1 .. Len(w), NEW i \in Nat, i < Bytes(w[k]), Ends(w)[k - 1] + i < c,
             NEW x \in Nat, x = Ends(w)[k - 1] + i
      PROVE  Byte(g, x) = Byte(Encode(w[k]), i)
  <2>1. Byte(g, x) = Byte(f, x) /\ x < Len(f)
    BY <1>1, <1>4, <1>6
  <2> QED
    BY <1>6, <2>1, LaidIs DEF BytesLie
<1>7. ASSUME NEW k \in 1 .. Len(w), NEW i \in Nat, i < Bytes(w[k]), Ends(w)[k - 1] + i < c
      PROVE  Byte(g, Ends(w)[k - 1] + i) = Byte(Encode(w[k]), i)
  <2>1. PICK j \in 0 .. Len(w) : j = k - 1
    OBVIOUS
  <2>2. PICK e \in Nat : e = Ends(w)[j]
    BY EndsAre
  <2>3. PICK x \in Nat : x = e + i
    OBVIOUS
  <2> QED
    BY <1>6, <1>7, <2>1, <2>2, <2>3
<1>8. Laid(w, g)
  BY <1>1, <1>3, <1>5, <1>7, LaidIs DEF BytesLie
<1> QED
  BY <1>3, <1>8

-----------------------------------------------------------------------------
(* Samples and rows of zeros                                               *)

\* The concatenations of the first k sequences.
Concats(f, seqs, n, X) ==
  /\ f \in [0 .. n -> Seq(X)] /\ f[0] = <<>>
  /\ \A k \in 1 .. n : f[k] = f[k - 1] \o seqs[k]
  /\ FlattenSeq(seqs) = f[n]

\* There are such, as the length is finite.
LEMMA ConcatsExist ==
  ASSUME NEW X, NEW n \in Nat, NEW seqs \in Seq(Seq(X)), n = Len(seqs)
  PROVE  \E f : Concats(f, seqs, n, X)
<1>1. PICK f \in [0 .. n -> Seq(X)] : f[0] = <<>> /\ \A k \in 1 .. n : f[k] = f[k - 1] \o seqs[k]
  BY Flattening
<1>2. FlattenSeq(seqs) = f[n]
  BY <1>1, FlattenIs
<1> QED
  BY <1>1, <1>2 DEF Concats

\* Empty parts concatenated are nothing.
LEMMA FlattenNothing ==
  ASSUME NEW X, NEW n \in Nat, NEW seqs \in Seq(Seq(X)), n = Len(seqs),
         \A k \in 1 .. n : seqs[k] = <<>>
  PROVE  FlattenSeq(seqs) = <<>>
<1>1. PICK f \in [0 .. n -> Seq(X)] : f[0] = <<>> /\ \A k \in 1 .. n : f[k] = f[k - 1] \o seqs[k]
  BY Flattening
<1>2. FlattenSeq(seqs) = f[n]
  BY <1>1, FlattenIs
<1> DEFINE T == {k \in 0 .. n : f[k] = <<>>}
<1>3. 0 \in T
  BY <1>1
<1>4. ASSUME NEW k \in T, k < n PROVE k + 1 \in T
  <2>1. PICK m \in 1 .. n : m = k + 1
    BY <1>4
  <2>2. m - 1 = k /\ seqs[m] = <<>>
    BY <2>1
  <2>3. f[m] = f[k] \o <<>>
    BY <1>1, <2>2
  <2>4. f[m] = <<>>
    BY <2>3
  <2> QED
    BY <2>1, <2>4
<1>5. n \in T
  <2>1. T \in SUBSET (0 .. n)
    OBVIOUS
  <2> HIDE DEF T
  <2> QED
    BY <1>3, <1>4, <2>1, UpTo
<1> QED
  BY <1>2, <1>5

\* The parts more are those of seqs but for one, behind which there are only empty ones.
OneMore(seqs, more, j) ==
  /\ j \in 1 .. Len(seqs) /\ Len(more) = Len(seqs)
  /\ \A k \in 1 .. Len(seqs) : /\ k < j => more[k] = seqs[k]
                               /\ k >= j => seqs[k] = <<>>
                               /\ k > j => more[k] = <<>>

\* That part is added at the end.
LEMMA FlattenOneMore ==
  ASSUME NEW X, NEW seqs \in Seq(Seq(X)), NEW more \in Seq(Seq(X)), NEW j, OneMore(seqs, more, j)
  PROVE  FlattenSeq(more) = FlattenSeq(seqs) \o more[j]
<1>0. PICK n \in Nat : n = Len(seqs)
  OBVIOUS
<1>1. /\ n = Len(seqs) /\ n = Len(more) /\ j \in 1 .. n
      /\ \A k \in 1 .. n : /\ k < j => more[k] = seqs[k]
                           /\ k >= j => seqs[k] = <<>>
                           /\ k > j => more[k] = <<>>
  BY <1>0 DEF OneMore
<1>1a. n = Len(seqs) /\ n = Len(more)
  BY <1>1
<1>2. PICK f : Concats(f, seqs, n, X)
  BY <1>1a, ConcatsExist
<1>3. PICK g : Concats(g, more, n, X)
  BY <1>1a, ConcatsExist
<1>4. FlattenSeq(seqs) = f[n] /\ FlattenSeq(more) = g[n]
  BY <1>2, <1>3 DEF Concats
<1>4a. /\ f \in [0 .. n -> Seq(X)] /\ f[0] = <<>> /\ \A k \in 1 .. n : f[k] = f[k - 1] \o seqs[k]
      /\ g \in [0 .. n -> Seq(X)] /\ g[0] = <<>> /\ \A k \in 1 .. n : g[k] = g[k - 1] \o more[k]
  BY <1>2, <1>3 DEF Concats
<1>5. PICK s \in Seq(X) : s = more[j]
  BY <1>1
<1> DEFINE T == {k \in 0 .. n : g[k] = IF k < j THEN f[k] ELSE f[k] \o s}
<1>6. 0 \in T
  BY <1>1, <1>4a
<1>7. ASSUME NEW k \in T, k < n PROVE k + 1 \in T
  <2>1. PICK m \in 1 .. n : m = k + 1
    BY <1>7
  <2>2. m - 1 = k /\ k \in 0 .. n
    BY <2>1
  <2>3. f[m] = f[k] \o seqs[m] /\ g[m] = g[k] \o more[m] /\ f[k] \in Seq(X) /\ g[k] \in Seq(X)
    BY <1>4a, <2>2
  <2>4. CASE m < j
    <3>1. g[k] = f[k] /\ more[m] = seqs[m]
      BY <1>1, <2>1, <2>4
    <3>2. g[m] = f[m]
      BY <2>3, <3>1
    <3> QED
      BY <2>1, <2>4, <3>2
  <2>5. CASE m = j
    <3>1. g[k] = f[k] /\ seqs[m] = <<>> /\ more[m] = s
      BY <1>1, <1>5, <2>1, <2>5
    <3>2. f[m] = f[k] /\ g[m] = f[k] \o s
      BY <2>3, <3>1
    <3>3. g[m] = f[m] \o s /\ ~(m < j)
      BY <2>5, <3>2
    <3> QED
      BY <2>1, <3>3
  <2>6. CASE m > j
    <3>0. ~(k < j)
      BY <1>1, <2>1, <2>6
    <3>1. g[k] = f[k] \o s /\ seqs[m] = <<>> /\ more[m] = <<>>
      BY <1>1, <2>1, <2>6, <3>0
    <3>2. f[m] = f[k] /\ g[m] = g[k]
      <4>1. PICK u \in Seq(X), v \in Seq(X) : u = f[k] /\ v = g[k]
        BY <2>3
      <4>2. f[m] = u \o <<>> /\ g[m] = v \o <<>>
        BY <2>3, <3>1, <4>1
      <4> QED
        BY <4>1, <4>2
    <3>3. g[m] = f[m] \o s /\ ~(m < j)
      BY <1>1, <2>6, <3>1, <3>2
    <3> QED
      BY <2>1, <3>3
  <2> QED
    BY <1>1, <2>4, <2>5, <2>6
<1>8. n \in T
  <2>1. T \in SUBSET (0 .. n)
    OBVIOUS
  <2> HIDE DEF T
  <2> QED
    BY <1>6, <1>7, <2>1, UpTo
<1>9. g[n] = f[n] \o s
  <2>1. ~(n < j)
    BY <1>1
  <2> QED
    BY <1>8, <2>1
<1> HIDE DEF T
<1> QED
  BY <1>4, <1>5, <1>9

\* An element at the end of the second sequence is at the end of both.
LEMMA AppendJoin ==
  ASSUME NEW s \in Seq(Nat), NEW u \in Seq(Nat), NEW e \in Nat
  PROVE  s \o Append(u, e) = Append(s \o u, e)
<1>1. PICK a \in Seq(Nat), b \in Seq(Nat) : a = s \o Append(u, e) /\ b = Append(s \o u, e)
  <2>1. s \o Append(u, e) \in Seq(Nat) /\ Append(s \o u, e) \in Seq(Nat)
    OBVIOUS
  <2> QED
    BY <2>1, Zenon
<1>2. PICK n \in Nat : n = Len(s) + Len(u) + 1
  OBVIOUS
<1>3. Len(a) = n /\ Len(b) = n
  BY <1>1, <1>2
<1>4. ASSUME NEW i \in 1 .. n PROVE a[i] = b[i]
  <2>1. a[i] = IF i <= Len(s) THEN s[i] ELSE Append(u, e)[i - Len(s)]
    BY <1>1, <1>2, SMTT(20)
  <2>2. b[i] = IF i = n THEN e ELSE (s \o u)[i]
    BY <1>1, <1>2
  <2>3. CASE i <= Len(s)
    BY <1>2, <2>1, <2>2, <2>3
  <2>4. CASE i > Len(s) /\ i # n
    BY <1>2, <2>1, <2>2, <2>4
  <2>5. CASE i = n
    BY <1>2, <2>1, <2>2, <2>5
  <2> QED
    BY <1>2, <2>3, <2>4, <2>5
<1> QED
  BY <1>1, <1>3, <1>4

\* The parts of Rows are sequences of samples.
RowParts(f) == [i \in DOMAIN f |-> IF f[i] = 0 THEN <<>> ELSE <<f[i]>>]

\* Rows joins them.
LEMMA RowPartsType ==
  ASSUME NEW s \in Seq(Nat)
  PROVE  /\ RowParts(s) \in Seq(Seq(Nat)) /\ Len(RowParts(s)) = Len(s)
         /\ \A i \in 1 .. Len(s) : RowParts(s)[i] = IF s[i] = 0 THEN <<>> ELSE <<s[i]>>
         /\ Rows(s) = FlattenSeq(RowParts(s)) /\ Rows(s) \in Seq(Nat)
<1>1. \A i \in 1 .. Len(s) : (IF s[i] = 0 THEN <<>> ELSE <<s[i]>>) \in Seq(Nat)
  OBVIOUS
<1>2. RowParts(s) = [i \in 1 .. Len(s) |-> IF s[i] = 0 THEN <<>> ELSE <<s[i]>>]
  BY DEF RowParts
<1>3. RowParts(s) \in Seq(Seq(Nat)) /\ Len(RowParts(s)) = Len(s)
  BY <1>1, <1>2
<1>4. Rows(s) = FlattenSeq(RowParts(s))
  BY Zenon DEF Rows, RowParts
<1>5. FlattenSeq(RowParts(s)) \in Seq(Nat)
  BY <1>3, FlattenType
<1> QED
  BY <1>2, <1>3, <1>4, <1>5

\* An empty file has no rows.
LEMMA RowsEmpty == Rows(<<>>) = <<>>
<1>0. <<>> \in Seq(Nat)
  OBVIOUS
<1>1. PICK s \in Seq(Nat) : s = <<>>
  BY <1>0, Zenon
<1>2. RowParts(s) \in Seq(Seq(Nat)) /\ Len(RowParts(s)) = Len(s) /\ Rows(s) = FlattenSeq(RowParts(s))
  BY RowPartsType
<1>3. RowParts(s) = <<>>
  BY <1>1, <1>2
<1> QED
  BY <1>1, <1>2, <1>3, FlattenEmpty

\* A row more is a sample more, unless it is a row of zeros.
LEMMA RowsAppend ==
  ASSUME NEW s \in Seq(Nat), NEW e \in Nat
  PROVE  Rows(Append(s, e)) = IF e = 0 THEN Rows(s) ELSE Append(Rows(s), e)
<1>0. (IF e = 0 THEN <<>> ELSE <<e>>) \in Seq(Nat) /\ Append(s, e) \in Seq(Nat)
  OBVIOUS
<1>1. PICK part \in Seq(Nat) : part = IF e = 0 THEN <<>> ELSE <<e>>
  BY <1>0, Zenon
<1>2. PICK t \in Seq(Nat) : t = Append(s, e)
  BY <1>0, Zenon
<1>3. PICK n \in Nat, m \in Nat : n = Len(s) /\ m = n + 1
  OBVIOUS
<1>4. Len(t) = m /\ t[m] = e /\ \A i \in 1 .. n : t[i] = s[i]
  BY <1>2, <1>3
<1>5. PICK a \in Seq(Seq(Nat)) : /\ a = RowParts(s) /\ Len(a) = n
                                 /\ \A i \in 1 .. n : a[i] = IF s[i] = 0 THEN <<>> ELSE <<s[i]>>
  BY <1>3, RowPartsType
<1>6. PICK b \in Seq(Seq(Nat)) : /\ b = RowParts(t) /\ Len(b) = m
                                 /\ \A i \in 1 .. m : b[i] = IF t[i] = 0 THEN <<>> ELSE <<t[i]>>
  BY <1>4, RowPartsType
<1>7. Append(a, part) = b
  <2>1. PICK S : S = Seq(Nat)
    OBVIOUS
  <2>2. Append(a, part) = [i \in 1 .. m |-> IF i = m THEN part ELSE a[i]]
    <3>1. a \in Seq(S) /\ part \in S /\ m = Len(a) + 1
      BY <1>3, <1>5, <2>1
    <3> QED
      BY <3>1, AppendIs
  <2>3. b = [i \in 1 .. m |-> b[i]]
    BY <1>6
  <2>4. \A i \in 1 .. m : b[i] = IF i = m THEN part ELSE a[i]
    <3>1. b[m] = part
      <4>1. m \in 1 .. m
        BY <1>3
      <4> QED
        BY <1>1, <1>4, <1>6, <4>1
    <3>2. ASSUME NEW i \in 1 .. n PROVE b[i] = a[i]
      <4>1. i \in 1 .. m
        BY <1>3
      <4> QED
        BY <1>4, <1>5, <1>6, <4>1
    <3> QED
      BY <1>3, <3>1, <3>2
  <2> QED
    BY <2>2, <2>3, <2>4
<1>8. FlattenSeq(b) = FlattenSeq(a) \o part
  BY <1>7, FlattenAppend
<1>9. PICK r \in Seq(Nat) : r = Rows(s) /\ r = FlattenSeq(a)
  BY <1>5, RowPartsType
<1>10. Rows(t) = r \o part
  BY <1>6, <1>8, <1>9, RowPartsType
<1>11. r \o part = IF e = 0 THEN r ELSE Append(r, e)
  <2>1. r \o <<>> = r /\ r \o <<e>> = Append(r, e)
    OBVIOUS
  <2> QED
    BY <1>1, <2>1
<1> QED
  BY <1>2, <1>9, <1>10, <1>11

\* The samples of a packet are added.
LEMMA RowsJoin ==
  ASSUME NEW s \in Seq(Nat), NEW t \in Seq(Nat), \A i \in 1 .. Len(t) : t[i] # 0
  PROVE  Rows(s \o t) = Rows(s) \o t
<1>1. PICK n \in Nat : n = Len(t)
  OBVIOUS
<1>2. PICK r \in Seq(Nat) : r = Rows(s)
  BY RowPartsType
<1> DEFINE First(d) == SubSeq(t, 1, d)
           T == {d \in 0 .. n : Rows(s \o First(d)) = r \o First(d)}
<1>3. 0 \in T
  <2>1. First(0) = <<>>
    OBVIOUS
  <2>2. s \o <<>> = s /\ r \o <<>> = r
    OBVIOUS
  <2>3. Rows(s \o First(0)) = r \o First(0)
    BY <1>2, <2>1, <2>2
  <2> HIDE DEF First
  <2> QED
    BY <2>3
<1>4. ASSUME NEW d \in T, d < n PROVE d + 1 \in T
  <2>1. PICK m \in 1 .. n : m = d + 1
    BY <1>4
  <2>2. PICK e \in Nat \ {0} : e = t[m]
    BY <1>1, <2>1
  <2>3. PICK u \in Seq(Nat) : u = First(d)
    <3>1. First(d) \in Seq(Nat)
      BY <1>1
    <3> QED
      BY <3>1, Zenon
  <2>4. First(m) = Append(u, e)
    BY <1>1, <2>1, <2>2, <2>3
  <2>5. s \o Append(u, e) = Append(s \o u, e) /\ r \o Append(u, e) = Append(r \o u, e)
    BY AppendJoin
  <2>6. PICK v \in Seq(Nat) : v = s \o u
    <3>1. s \o u \in Seq(Nat)
      OBVIOUS
    <3> QED
      BY <3>1, Zenon
  <2>7. Rows(Append(v, e)) = Append(Rows(v), e)
    BY RowsAppend
  <2>8. Rows(v) = r \o u
    BY <2>3, <2>6
  <2>9. Rows(s \o First(m)) = r \o First(m)
    BY <2>4, <2>5, <2>6, <2>7, <2>8
  <2> HIDE DEF First
  <2>10. m \in T
    BY <2>9
  <2> HIDE DEF T
  <2> QED
    BY <2>1, <2>10
<1>5. n \in T
  <2>1. T \in SUBSET (0 .. n)
    OBVIOUS
  <2> HIDE DEF T
  <2> QED
    BY <1>3, <1>4, <2>1, UpTo
<1>6. First(n) = t
  BY <1>1
<1> QED
  BY <1>2, <1>5, <1>6

-----------------------------------------------------------------------------
(* Packets and their samples                                               *)

\* The samples' numbers: those of the k-th packet follow the multiple of MaxQuantity.
LEMMA SampleNumber ==
  ASSUME NEW k \in Nat, NEW i \in 1 .. MaxQuantity
  PROVE  MaxQuantity * k + i \in Nat \ {0} /\ PacketOf(MaxQuantity * k + i) = k
<1>1. PICK n \in Nat \ {0} : n = MaxQuantity
  BY SplitterAssumption
<1>2. PICK p : p = n * k
  OBVIOUS
<1>3. p \in Nat
  BY <1>2
<1>4. PICK x \in Nat : x = p + i
  BY <1>1, <1>3
<1>5. x # 0 /\ p <= x - 1 /\ x - 1 < p + n /\ x - 1 \in Nat
  BY <1>1, <1>3, <1>4
<1>6. PICK y \in Nat, z \in Int : y = x - 1 /\ z = y \div n
  BY <1>1, <1>5
<1>7. z = k
  <2>1. n * z <= y /\ y < n * z + n
    BY <1>1, <1>6
  <2>2. ASSUME z < k PROVE FALSE
    <3>1. PICK d \in Nat : k = z + 1 + d
      <4>1. k - z - 1 \in Nat /\ k = z + 1 + (k - z - 1)
        BY <2>2
      <4> QED
        BY <4>1
    <3>2. n * k = n * z + n + n * d /\ n * d \in Nat /\ n * z \in Int
      BY <3>1
    <3> QED
      BY <1>2, <1>3, <1>5, <1>6, <2>1, <3>2
  <2>3. ASSUME k < z PROVE FALSE
    <3>1. PICK d \in Nat : z = k + 1 + d
      <4>1. z - k - 1 \in Nat /\ z = k + 1 + (z - k - 1)
        BY <2>3
      <4> QED
        BY <4>1
    <3>2. n * z = n * k + n + n * d /\ n * d \in Nat /\ n * k \in Int
      BY <3>1
    <3> QED
      BY <1>2, <1>3, <1>5, <1>6, <2>1, <3>2
  <2> QED
    BY <1>6, <2>2, <2>3
<1>8. (x - 1) \div n = k
  BY <1>6, <1>7
<1> QED
  BY <1>1, <1>2, <1>4, <1>5, <1>8 DEF PacketOf

\* A packet the sender writes is well formed, and its samples tell its number.
LEMMA WrittenIs ==
  ASSUME NEW k \in 1 .. MaxPackets, NEW h \in Headers
  PROVE  /\ Written(k, h) \in PacketType /\ NULL # Written(k, h).pid
         /\ \A i \in DOMAIN Written(k, h).samples :
              /\ Written(k, h).samples[i] # 0
              /\ PacketOf(Written(k, h).samples[i]) = k
<1>1. PICK q \in 0 .. MaxQuantity : q = Quantity(k)
  BY SplitterAssumption
<1>2. Cmdline(k) \in Seq(Nat \ {NUL}) /\ Exe(k) \in Seq(Nat \ {NUL})
  BY SplitterAssumption
<1>3. h.core \in Nat /\ h.pid \in Nat /\ NULL # h.pid
  BY SplitterAssumption
<1>4. \A i \in 1 .. q : /\ MaxQuantity * k + i \in Nat \ {0}
                        /\ PacketOf(MaxQuantity * k + i) = k
  <2>1. ASSUME NEW i \in 1 .. q
        PROVE  MaxQuantity * k + i \in Nat \ {0} /\ PacketOf(MaxQuantity * k + i) = k
    <3>1. i \in 1 .. MaxQuantity /\ k \in Nat
      BY <1>1, SplitterAssumption
    <3> QED
      BY <3>1, SampleNumber
  <2> QED
    BY <2>1
<1> DEFINE s == [i \in 1 .. Quantity(k) |-> MaxQuantity * k + i]
<1>5. s \in Seq(Nat)
  <2>1. \A i \in 1 .. q : MaxQuantity * k + i \in Nat
    BY <1>4
  <2>2. s = [i \in 1 .. q |-> MaxQuantity * k + i]
    BY <1>1
  <2>3. s \in [1 .. q -> Nat]
    BY <2>1, <2>2, Zenon
  <2>4. q \in Nat
    BY SplitterAssumption
  <2> HIDE DEF s
  <2> QED
    BY <2>3, <2>4
<1>6. DOMAIN s = 1 .. q /\ \A i \in 1 .. q : s[i] = MaxQuantity * k + i
  BY <1>1
<1>7. \A i \in DOMAIN s : s[i] # 0 /\ PacketOf(s[i]) = k
  <2> HIDE DEF s
  <2> QED
    BY <1>4, <1>6
<1>8. Written(k, h) = [core |-> h.core, pid |-> h.pid, samples |-> s,
                       cmdline |-> Cmdline(k), exe |-> Exe(k)]
  BY DEF Written
<1> HIDE DEF s
<1>9. Written(k, h) \in PacketType /\ Written(k, h).pid = h.pid /\ Written(k, h).samples = s
  BY <1>2, <1>3, <1>5, <1>8 DEF PacketType
<1> QED
  BY <1>3, <1>7, <1>9

\* Where the k-th packet ends, and where its samples end.
LEMMA EndOfIs ==
  ASSUME written \in Seq(PacketType), NEW k \in 1 .. Len(written)
  PROVE  /\ EndOf(k) = Ends(written)[k]
         /\ EndOf(k) - Len(written[k].cmdline) - Len(written[k].exe) - 2
              = Ends(written)[k - 1] + NamesAt(written[k])
<1>1. EndOf(k) = Ends(written)[k]
  BY DEF EndOf, Ends
<1>2. PICK p \in PacketType : p = written[k]
  OBVIOUS
<1>3. PICK q \in Nat, m \in Nat, n \in Nat, x \in Nat, y \in Nat, z \in Nat :
        Lengths(p, q, m, n, x, y, z) /\ x = 3 + q /\ y = x + m + 1 /\ z = y + n + 1
  BY LengthsAre
<1>4. m = Len(p.cmdline) /\ n = Len(p.exe) /\ x = NamesAt(p) /\ z = Bytes(p)
  BY <1>3 DEF Lengths
<1>5. PICK j \in 0 .. Len(written) : j = k - 1
  OBVIOUS
<1>6. PICK a \in Nat, b \in Nat : a = Ends(written)[j] /\ b = Ends(written)[k] /\ b = a + z
  <2>1. Ends(written)[j] \in Nat /\ Ends(written)[k] \in Nat
    BY EndsAre
  <2>2. Ends(written)[k] = Ends(written)[k - 1] + Bytes(written[k])
    BY EndsAre
  <2>3. Ends(written)[k] = Ends(written)[j] + z
    BY <1>2, <1>4, <1>5, <2>2
  <2> QED
    BY <2>1, <2>3
<1>7. b - m - n - 2 = a + x
  <2>1. y = x + m + 1 /\ z = y + n + 1 /\ b = a + z
    BY <1>3, <1>6
  <2> QED
    BY <2>1
<1> QED
  BY <1>1, <1>2, <1>4, <1>5, <1>6, <1>7

\* The largest number of a set to which a larger one was added.
LEMMA MaxAdded ==
  ASSUME NEW n \in Nat, NEW T \in SUBSET (1 .. n), NEW j, j = n + 1
  PROVE  Max(T \cup {j}) = j
<1>1. j \in Nat /\ T \cup {j} \in SUBSET (1 .. j) /\ T \cup {j} # {}
  BY SMT
<1>2. /\ Max(T \cup {j}) \in T \cup {j}
      /\ \A y \in T \cup {j} : Max(T \cup {j}) >= y
  BY <1>1, MaxIn
<1>3. Max(T \cup {j}) >= j
  BY <1>2
<1>4. ASSUME NEW y \in T PROVE ~(y >= j)
  OBVIOUS
<1>5. Max(T \cup {j}) \in T => FALSE
  BY <1>3, <1>4
<1> QED
  BY <1>2, <1>5

-----------------------------------------------------------------------------
(* The invariant                                                           *)

\* The samples of the k-th packet have its number.
Numbered(k) ==
  \A i \in DOMAIN written[k].samples :
    written[k].samples[i] # 0 /\ PacketOf(written[k].samples[i]) = k

\* The packets are well formed, and their samples tell which packet they are from.
WrittenInv ==
  /\ written \in Seq(PacketType) /\ Len(written) <= MaxPackets
  /\ \A k \in DOMAIN written : NULL # written[k].pid /\ Numbered(k)

\* The file has all packets, or ends in the last one.
FileInv ==
  /\ Laid(written, file)
  /\ IF pc = "recording" THEN Len(file) = Ends(written)[Len(written)]
     ELSE /\ written # <<>>
          /\ Ends(written)[Len(written) - 1] < Len(file)
          /\ Len(file) <= Ends(written)[Len(written)]

\* The program is at the beginning of the next packet, or beyond the file.
PositionInv ==
  /\ taken \in 0 .. Len(written) /\ position \in 0 .. Len(file) + 2
  /\ pc = "recording" => position = 0 /\ taken = 0
  /\ pc = "loop" => \/ position = Ends(written)[taken]
                    \/ taken = Len(written) /\ position > Len(file)
  /\ pc = "process" => /\ taken < Len(written) /\ position = Ends(written)[taken]
                       /\ Reads(pkt, written[taken + 1], file, position)
  /\ \A k \in 1 .. taken : Ends(written)[k - 1] + NamesAt(written[k]) <= Len(file)
  /\ pc \in {"closing", "done"} => Whole \subseteq 1 .. taken

\* The processes that have files.
Files == DOMAIN content
States == {"recording", "loop", "process", "closing", "done", "aborted", "exited", "killed"}

\* The processes of the packets done with have files.
EachFiled == \A k \in 1 .. taken : written[k].core < NumCores => written[k].pid \in Files

\* Every core writes to the file of the process it saw last.
OutInv ==
  /\ pc \in States
  /\ IsFiniteSet(Files) /\ Cardinality(Files) <= MaxFiles
  /\ \A p \in Files : content[p] \in Seq(Nat) /\ FiledFor(p) # {}
  /\ EachFiled
  /\ last_pid \in [0 .. NumCores - 1 -> Files \cup {NULL}] /\ currFile = last_pid
  /\ Opened = IF pc = "done" THEN {} ELSE Files

\* No row of zeros follows the i-th row of the file of p.
InTail(p, i) == \A m \in i .. Len(content[p]) : content[p][m] # 0

\* A sample that no row of zeros follows came from a core that has stayed with the process.
TailInv ==
  \A p \in Files : \A i \in DOMAIN content[p] :
    LET k == PacketOf(content[p][i])
        c == written[k].core
    IN  /\ content[p][i] # 0 => k \in FiledFor(p)
        /\ InTail(p, i) => /\ last_pid[c] = p
                           /\ \A m \in k .. taken : written[m].core = c => written[m].pid = p

\* The names of a process are those of its last packet, as far as the file has them.
NamesRight(p, names) ==
  LET k == Max(FiledFor(p)) IN
  /\ IsPrefix(names.cmdline, written[k].cmdline)
  /\ IsPrefix(names.exe, written[k].exe)
  /\ k \in Whole => names = [cmdline |-> written[k].cmdline, exe |-> written[k].exe]

\* The index names every file once.
IndexRight ==
  /\ {line[1] : line \in index} = Files
  /\ \A line \in index : NamesRight(line[1], line[2])
  /\ Cardinality(index) = Cardinality(Files)

\* The maps of names, and the index made of one at the end.
NamesInv ==
  /\ \A p \in Opened : NamesRight(p, pid_files[p])
  /\ pc = "done" => IndexRight

\* The inductive invariant.
SplitInv ==
  /\ WrittenInv /\ FileInv /\ PositionInv
  /\ OutInv /\ SamplesFiled /\ SectionsUnbroken /\ TailInv /\ NamesInv

-----------------------------------------------------------------------------
(* A packet is done with                                                   *)

\* A process without a file had no packet.
LEMMA FilesAre ==
  /\ EachFiled <=> \A p : p \notin Files => FiledFor(p) = {}
  /\ EachFiled' <=> \A p : p \notin Files' => FiledFor(p)' = {}
<1>1. EachFiled => \A p : p \notin Files => FiledFor(p) = {}
  BY Zenon DEF EachFiled, FiledFor
<1>2. (\A p : p \notin Files => FiledFor(p) = {}) => EachFiled
  <2>1. SUFFICES ASSUME \A p : p \notin Files => FiledFor(p) = {},
                        NEW k \in 1 .. taken, written[k].core < NumCores, written[k].pid \notin Files
                 PROVE  FALSE
    BY DEF EachFiled
  <2>2. k \in FiledFor(written[k].pid)
    BY <2>1 DEF FiledFor
  <2> QED
    BY <2>1, <2>2
<1>3. EachFiled' => \A p : p \notin Files' => FiledFor(p)' = {}
  BY Zenon DEF EachFiled, FiledFor
<1>4. (\A p : p \notin Files' => FiledFor(p)' = {}) => EachFiled'
  <2>1. SUFFICES ASSUME \A p : p \notin Files' => FiledFor(p)' = {},
                        NEW k \in 1 .. taken', (written[k].core < NumCores)', (written[k].pid)' \notin Files'
                 PROVE  FALSE
    BY DEF EachFiled
  <2>2. PICK q : q = (written[k].pid)'
    OBVIOUS
  <2>3. k \in FiledFor(q)'
    BY <2>1, <2>2 DEF FiledFor
  <2> QED
    BY <2>1, <2>2, <2>3
<1> QED
  BY <1>1, <1>2, <1>3, <1>4

\* The j-th packet is the next: of process q on core c, with the samples s.
Current(j, c, q, s) ==
  /\ taken \in Nat /\ j = taken + 1 /\ j \in 1 .. Len(written)
  /\ written[j].core = c /\ written[j].pid = q /\ written[j].samples = s
  /\ c \in Nat /\ q # NULL /\ s \in Seq(Nat)
  /\ \A i \in 1 .. Len(s) : s[i] # 0 /\ PacketOf(s[i]) = j

\* It is the one that process_packet was given.
Given(j, c, q, s) ==
  /\ Current(j, c, q, s) /\ pkt.core = c /\ pkt.pid = q /\ pkt.samples = s
  /\ position = Ends(written)[j - 1] /\ Reads(pkt, written[j], file, position)

\* A packet being processed is the next one.
LEMMA CurrentIs ==
  ASSUME WrittenInv, PositionInv, pc = "process"
  PROVE  \E j, c, q, s : Given(j, c, q, s)
<1>1. PICK j : j = taken + 1
  OBVIOUS
<1>2. /\ taken \in Nat /\ j \in 1 .. Len(written) /\ position = Ends(written)[taken] /\ j - 1 = taken
      /\ Reads(pkt, written[j], file, position)
  <2>1. taken \in Nat /\ taken < Len(written) /\ position = Ends(written)[taken]
    BY DEF PositionInv
  <2>2. Reads(pkt, written[j], file, position)
    BY <1>1 DEF PositionInv
  <2>3. Len(written) \in Nat
    BY DEF WrittenInv
  <2> QED
    BY <1>1, <2>1, <2>2, <2>3
<1>3. written[j] \in PacketType /\ j \in DOMAIN written
  BY <1>2 DEF WrittenInv
<1>4. written[j].core \in Nat /\ written[j].samples \in Seq(Nat) /\ written[j].pid # NULL
  BY <1>3 DEF WrittenInv, PacketType
<1>5. \A i \in 1 .. Len(written[j].samples) :
        written[j].samples[i] # 0 /\ PacketOf(written[j].samples[i]) = j
  BY <1>3, <1>4 DEF WrittenInv, Numbered
<1>6. /\ written[j].core = pkt.core /\ written[j].pid = pkt.pid /\ written[j].samples = pkt.samples
  BY <1>2 DEF Reads
<1>7. Current(j, pkt.core, pkt.pid, pkt.samples)
  BY <1>1, <1>2, <1>4, <1>5, <1>6 DEF Current
<1> QED
  BY <1>2, <1>7 DEF Given

\* It counts for its process, if there is such a core.
LEMMA FiledNext ==
  ASSUME NEW j, NEW c, NEW q, NEW s, Current(j, c, q, s), taken' = taken + 1, written' = written
  PROVE  /\ \A p : FiledFor(p) \subseteq 1 .. taken
         /\ \A p : FiledFor(p)' = IF p = q /\ c < NumCores THEN FiledFor(p) \cup {j} ELSE FiledFor(p)
<1>1. taken \in Nat /\ j = taken + 1 /\ written[j].core = c /\ written[j].pid = q
  BY DEF Current
<1>2. 1 .. taken' = (1 .. taken) \cup {j} /\ j \notin 1 .. taken
  BY <1>1, SMT
<1>3. ASSUME NEW p PROVE FiledFor(p)' = IF p = q /\ c < NumCores THEN FiledFor(p) \cup {j} ELSE FiledFor(p)
  <2>1. \A k : k \in FiledFor(p)' <=> k \in 1 .. taken' /\ written[k].pid = p /\ written[k].core < NumCores
    BY DEF FiledFor
  <2>2. \A k : k \in FiledFor(p) <=> k \in 1 .. taken /\ written[k].pid = p /\ written[k].core < NumCores
    BY DEF FiledFor
  <2>3. CASE p = q /\ c < NumCores
    <3>1. \A k : k \in FiledFor(p)' <=> k \in FiledFor(p) \cup {j}
      BY <1>1, <1>2, <2>1, <2>2, <2>3, Zenon
    <3> QED
      BY <2>3, <3>1, Zenon
  <2>4. CASE ~(p = q /\ c < NumCores)
    <3>1. \A k : k \in FiledFor(p)' <=> k \in FiledFor(p)
      BY <1>1, <1>2, <2>1, <2>2, <2>4, Zenon
    <3> QED
      BY <2>4, <3>1, Zenon
  <2> QED
    BY <2>3, <2>4
<1>4. \A p : FiledFor(p) \subseteq 1 .. taken
  BY DEF FiledFor
<1> QED
  BY <1>3, <1>4

\* Behind it begins the next one, or the file has ended.
LEMMA PositionNext ==
  ASSUME WrittenInv, FileInv, PositionInv, pc = "process", NextPosition,
         written' = written, file' = file
  PROVE  PositionInv'
<1>1. PICK j, c, q, s : Given(j, c, q, s)
  BY CurrentIs
<1>2. /\ written \in Seq(PacketType) /\ j \in 1 .. Len(written) /\ taken \in Nat /\ j = taken + 1
      /\ position = Ends(written)[j - 1] /\ Reads(pkt, written[j], file, position)
  BY <1>1 DEF Given, Current, WrittenInv
<1>3. PICK n \in Nat, i \in Nat, m \in Int : n = Len(written) /\ i = j - 1 /\ m = n - 1
  BY <1>2
<1>4. i = taken /\ j \in 1 .. n /\ j = i + 1
  BY <1>2, <1>3
<1>5. PICK ends \in [0 .. n -> Nat] : ends = Ends(written)
  BY <1>2, <1>3, EndsAre
<1>6. PICK size \in Nat, l \in Nat, read \in Nat :
        size = Bytes(written[j]) /\ l = Len(file) /\ read = pkt.read
  <2>1. Bytes(written[j]) \in Nat
    BY <1>2, BytesAre
  <2>2. Len(file) \in Nat
    BY DEF FileInv, Laid
  <2>3. pkt.read \in Nat
    BY <1>2 DEF Reads
  <2> QED
    BY <2>1, <2>2, <2>3
<1>6a. PICK nm : nm = NamesAt(written[j])
  OBVIOUS
<1>7. ends[j] = ends[i] + size /\ position = ends[i]
  BY <1>2, <1>3, <1>5, <1>6, EndsAre
<1>8. ends[m] < l /\ l <= ends[n]
  BY <1>3, <1>5, <1>6 DEF FileInv
<1>9. /\ ends[i] + nm <= l
      /\ ends[i] + size <= l => read = size
      /\ ~(ends[i] + size <= l) => ends[i] + read \in l + 1 .. l + 2
  BY <1>2, <1>6, <1>6a, <1>7 DEF Reads
<1>10. pc' = "loop" /\ position' = ends[i] + read /\ taken' = j
  BY <1>4, <1>6, <1>7 DEF NextPosition
<1>11. ends[i] \in Nat /\ ends[j] \in Nat
  BY <1>4, <1>5
<1>12. \/ position' = ends[j] /\ position' <= l
       \/ j = n /\ position' \in l + 1 .. l + 2
  <2>1. CASE ends[i] + size <= l
    BY <1>7, <1>9, <1>10, <2>1
  <2>2. CASE ~(ends[i] + size <= l)
    <3>1. l < ends[j]
      BY <1>7, <1>11, <2>2
    <3>2. j = n
      <4>1. SUFFICES ASSUME j < n PROVE FALSE
        BY <1>4
      <4>2. ends[j] <= ends[m]
        <5>1. CASE j = m
          BY <5>1, <1>11
        <5>2. CASE j # m
          <6>1. j \in 0 .. n /\ m \in 0 .. n /\ j < m
            BY <1>3, <1>4, <4>1, <5>2
          <6>2. ends[j] < ends[m]
            BY <1>2, <1>3, <1>5, <6>1, EndsGrow
          <6>3. ends[m] \in Nat
            BY <1>5, <6>1
          <6> QED
            BY <6>2, <6>3, <1>11
        <5> QED
          BY <5>1, <5>2
      <4>3. ends[m] \in Nat
        BY <1>3, <1>4, <1>5, <4>1
      <4> QED
        BY <1>8, <1>11, <3>1, <4>2, <4>3
    <3> QED
      BY <1>9, <1>10, <2>2, <3>2
  <2> QED
    BY <2>1, <2>2
<1>13. ASSUME NEW k \in 1 .. j PROVE ends[k - 1] + NamesAt(written[k]) <= l
  <2>1. CASE k = j
    BY <1>3, <1>6a, <1>9, <2>1
  <2>2. CASE k # j
    <3>1. k \in 1 .. taken
      BY <1>2, <2>2
    <3> QED
      BY <3>1, <1>5, <1>6 DEF PositionInv
  <2> QED
    BY <2>1, <2>2
<1>14. position' \in 0 .. l + 2 /\ (position' = ends[j] \/ (j = n /\ position' > l))
  BY <1>11, <1>12
<1> QED
  BY <1>3, <1>4, <1>5, <1>6, <1>10, <1>13, <1>14 DEF PositionInv

-----------------------------------------------------------------------------
(* A packet is filed                                                       *)

\* What the file of a process contains, if there is one.
Old(p) == IF p \in Files THEN content[p] ELSE <<>>

\* What Continue, SwitchTo and OpenFor have in common: core c puts the samples s into the
\* file of q, and ends the section of the file it turns away from.
Filing(c, q, s) ==
  /\ c \in 0 .. NumCores - 1 /\ NULL \notin Files
  /\ DOMAIN content' = Files \cup {q} /\ content'[q] = Old(q) \o s
  /\ \A p \in Files \ {q} :
       content'[p] = IF last_pid[c] = p THEN Append(content[p], 0) ELSE content[p]
  /\ last_pid' = [last_pid EXCEPT ![c] = q] /\ currFile' = last_pid'
  /\ DOMAIN pid_files' = Files \cup {q} /\ pid_files'[q] = Names
  /\ \A p \in Files \ {q} : pid_files'[p] = pid_files[p]
  /\ IsFiniteSet(Files \cup {q}) /\ Cardinality(Files \cup {q}) <= MaxFiles
  /\ taken' = taken + 1 /\ pc' = "loop" /\ written' = written /\ file' = file /\ index' = index

\* No process with a file is without a pid.
LEMMA FilesOfPids ==
  ASSUME WrittenInv, PositionInv, OutInv
  PROVE  NULL \notin Files
<1>1. SUFFICES ASSUME NULL \in Files PROVE FALSE
  OBVIOUS
<1>2. PICK k \in FiledFor(NULL) : TRUE
  BY <1>1 DEF OutInv
<1>3. k \in 1 .. taken /\ written[k].pid = NULL
  BY <1>2 DEF FiledFor
<1>4. k \in DOMAIN written
  BY <1>3 DEF PositionInv, WrittenInv
<1> QED
  BY <1>3, <1>4 DEF WrittenInv

\* The three ways to file a packet.
LEMMA FilingIs ==
  ASSUME WrittenInv, PositionInv, OutInv, pc = "process",
         NEW j, NEW q, NEW s, NEW c \in 0 .. NumCores - 1, Given(j, c, q, s),
         Continue(c) \/ SwitchTo(c) \/ OpenFor(c)
  PROVE  Filing(c, q, s)
<1>1. /\ NULL \notin Files /\ Opened = Files /\ currFile = last_pid
      /\ IsFiniteSet(Files) /\ Cardinality(Files) \in Nat /\ Cardinality(Files) <= MaxFiles
      /\ last_pid \in [0 .. NumCores - 1 -> Files \cup {NULL}]
  <2>1. NULL \notin Files
    BY FilesOfPids
  <2>2. IsFiniteSet(Files) => Cardinality(Files) \in Nat
    BY FS_CardinalityType
  <2> QED
    BY <2>1, <2>2 DEF OutInv
<1>2. q = pkt.pid /\ s = pkt.samples /\ q # NULL
  BY DEF Given, Current
<1>3. DOMAIN content = Files /\ DOMAIN pid_files = Files
  BY <1>1 DEF Files, Opened
<1>4. ASSUME Filed(c, q, content), q \in Files, last_pid[c] = q
      PROVE  /\ DOMAIN content' = Files \cup {q} /\ content'[q] = Old(q) \o s
             /\ \A p \in Files \ {q} :
                  content'[p] = IF last_pid[c] = p THEN Append(content[p], 0) ELSE content[p]
  BY <1>2, <1>3, <1>4 DEF Filed, Old
<1>5. /\ DOMAIN Separated(c) = Files
      /\ \A p \in Files : Separated(c)[p] = IF last_pid[c] = p THEN Append(content[p], 0) ELSE content[p]
  <2>1. CASE currFile[c] = NULL
    BY <1>1, <1>3, <2>1 DEF Separated
  <2>2. CASE currFile[c] # NULL
    BY <1>1, <1>3, <2>2 DEF Separated
  <2> QED
    BY <2>1, <2>2
<1>6. CASE Continue(c)
  <2>1. last_pid[c] = q /\ Filed(c, currFile[c], content)
    BY <1>2, <1>6 DEF Continue
  <2>2. q \in Files
    BY <1>1, <1>2, <2>1
  <2>3. Files \cup {q} = Files
    BY <2>2
  <2>4. last_pid' = last_pid /\ currFile' = currFile /\ pid_files' = [pid_files EXCEPT ![q] = Names]
    BY <1>2, <1>6 DEF Continue
  <2>5. last_pid' = [last_pid EXCEPT ![c] = q]
    BY <1>1, <2>1, <2>4
  <2>6. /\ DOMAIN pid_files' = Files /\ pid_files'[q] = Names
        /\ \A p \in Files \ {q} : pid_files'[p] = pid_files[p]
    BY <1>3, <2>2, <2>4
  <2>7. Filed(c, q, content)
    BY <1>1, <2>1
  <2>8. taken' = taken + 1 /\ pc' = "loop" /\ written' = written /\ file' = file /\ index' = index
    BY <2>1 DEF Filed, NextPosition, fileVars
  <2> QED
    BY <1>1, <1>4, <2>1, <2>2, <2>3, <2>4, <2>5, <2>6, <2>7, <2>8 DEF Filing
<1>7. CASE SwitchTo(c)
  <2>1. last_pid[c] # q /\ q \in Files /\ Filed(c, q, Separated(c))
    BY <1>1, <1>2, <1>7 DEF SwitchTo
  <2>2. content' = [Separated(c) EXCEPT ![q] = @ \o s]
    BY <1>2, <2>1 DEF Filed
  <2>3. Files \cup {q} = Files
    BY <2>1
  <2>4. /\ DOMAIN content' = Files /\ content'[q] = Old(q) \o s
        /\ \A p \in Files \ {q} :
             content'[p] = IF last_pid[c] = p THEN Append(content[p], 0) ELSE content[p]
    BY <1>5, <2>1, <2>2 DEF Old
  <2>5. /\ last_pid' = [last_pid EXCEPT ![c] = q] /\ currFile' = [currFile EXCEPT ![c] = q]
        /\ pid_files' = [pid_files EXCEPT ![q] = Names]
    BY <1>2, <1>7 DEF SwitchTo
  <2>6. /\ DOMAIN pid_files' = Files /\ pid_files'[q] = Names
        /\ \A p \in Files \ {q} : pid_files'[p] = pid_files[p]
    BY <1>3, <2>1, <2>5
  <2>7. taken' = taken + 1 /\ pc' = "loop" /\ written' = written /\ file' = file /\ index' = index
    BY <2>1 DEF Filed, NextPosition, fileVars
  <2> QED
    BY <1>1, <2>3, <2>4, <2>5, <2>6, <2>7 DEF Filing
<1>8. CASE OpenFor(c)
  <2>1. /\ last_pid[c] # q /\ q \notin Files /\ Cardinality(Files) < MaxFiles
        /\ Filed(c, q, Added(Separated(c), q, <<>>))
    BY <1>1, <1>2, <1>8 DEF OpenFor
  <2>2. content' = [Added(Separated(c), q, <<>>) EXCEPT ![q] = @ \o s]
    BY <1>2, <2>1 DEF Filed
  <2>3. /\ DOMAIN Added(Separated(c), q, <<>>) = Files \cup {q}
        /\ Added(Separated(c), q, <<>>)[q] = <<>>
        /\ \A p \in Files : Added(Separated(c), q, <<>>)[p] = Separated(c)[p]
    BY <1>5, <2>1 DEF Added
  <2>4. /\ DOMAIN content' = Files \cup {q} /\ content'[q] = Old(q) \o s
        /\ \A p \in Files \ {q} :
             content'[p] = IF last_pid[c] = p THEN Append(content[p], 0) ELSE content[p]
    BY <1>5, <2>1, <2>2, <2>3 DEF Old
  <2>5. /\ last_pid' = [last_pid EXCEPT ![c] = q] /\ currFile' = [currFile EXCEPT ![c] = q]
        /\ pid_files' = Added(pid_files, q, Names)
    BY <1>2, <1>8 DEF OpenFor
  <2>6. /\ DOMAIN pid_files' = Files \cup {q} /\ pid_files'[q] = Names
        /\ \A p \in Files \ {q} : pid_files'[p] = pid_files[p]
    BY <1>3, <2>1, <2>5 DEF Added
  <2>7. taken' = taken + 1 /\ pc' = "loop" /\ written' = written /\ file' = file /\ index' = index
    BY <2>1 DEF Filed, NextPosition, fileVars
  <2>8. IsFiniteSet(Files \cup {q}) /\ Cardinality(Files \cup {q}) <= MaxFiles
    <3>1. IsFiniteSet(Files \cup {q}) /\ Cardinality(Files \cup {q}) = Cardinality(Files) + 1
      BY <1>1, <2>1, FS_AddElement
    <3> QED
      BY <1>1, <2>1, <3>1, SplitterAssumption
  <2> QED
    BY <1>1, <2>4, <2>5, <2>6, <2>7, <2>8 DEF Filing
<1> QED
  BY <1>6, <1>7, <1>8

\* Every core still writes to the file of the process it saw last.
LEMMA OutNext ==
  ASSUME WrittenInv, OutInv, pc = "process",
         NEW j, NEW c, NEW q, NEW s, Current(j, c, q, s), Filing(c, q, s)
  PROVE  OutInv'
<1>1. /\ s \in Seq(Nat) /\ j \in Nat /\ j = taken + 1 /\ c \in 0 .. NumCores - 1
  BY DEF Current, Filing
<1>2. c < NumCores
  BY <1>1, SplitterAssumption
<1>3. \A p : FiledFor(p)' = IF p = q THEN FiledFor(p) \cup {j} ELSE FiledFor(p)
  BY <1>2, FiledNext DEF Filing
<1>4. Files' = Files \cup {q}
  BY DEF Filing, Files
<1>5. \A p \in Files : content[p] \in Seq(Nat) /\ FiledFor(p) # {}
  BY DEF OutInv
<1>6. ASSUME NEW p \in Files' PROVE content'[p] \in Seq(Nat) /\ FiledFor(p)' # {}
  <2>1. CASE p = q
    <3>1. Old(q) \in Seq(Nat)
      BY <1>5 DEF Old
    <3>2. content'[q] \in Seq(Nat)
      BY <1>1, <3>1 DEF Filing
    <3> QED
      BY <1>3, <2>1, <3>2
  <2>2. CASE p # q
    <3>1. p \in Files
      BY <1>4, <2>2
    <3>2. Append(content[p], 0) \in Seq(Nat)
      BY <1>5, <3>1
    <3> QED
      BY <1>3, <1>5, <2>2, <3>1, <3>2 DEF Filing
  <2> QED
    BY <2>1, <2>2
<1>7. ASSUME NEW p, p \notin Files' PROVE FiledFor(p)' = {}
  BY <1>3, <1>4, <1>7, FilesAre DEF OutInv
<1>8. last_pid' \in [0 .. NumCores - 1 -> Files' \cup {NULL}] /\ currFile' = last_pid'
  BY <1>4 DEF OutInv, Filing
<1>9. pc' = "loop" /\ IsFiniteSet(Files') /\ Cardinality(Files') <= MaxFiles /\ Opened' = Files'
  BY <1>4 DEF Filing, Opened
<1> QED
  BY <1>6, <1>7, <1>8, <1>9, FilesAre DEF OutInv, States

\* The samples filed for p, packet by packet.
FiledParts(p) == [k \in 1 .. Len(written) |-> IF k \in FiledFor(p) THEN written[k].samples ELSE <<>>]

\* They are sequences of samples, one for each packet.
LEMMA FiledPartsType ==
  ASSUME written \in Seq(PacketType), NEW p
  PROVE  FiledParts(p) \in Seq(Seq(Nat)) /\ Len(FiledParts(p)) = Len(written)
<1>1. PICK n \in Nat : n = Len(written)
  OBVIOUS
<1>2. ASSUME NEW k \in 1 .. n
      PROVE  (IF k \in FiledFor(p) THEN written[k].samples ELSE <<>>) \in Seq(Nat)
  <2>1. written[k] \in PacketType
    BY <1>1
  <2>2. written[k].samples \in Seq(Nat) /\ <<>> \in Seq(Nat)
    BY <2>1 DEF PacketType
  <2> QED
    BY <2>2
<1> DEFINE v(k) == IF k \in FiledFor(p) THEN written[k].samples ELSE <<>>
<1>3. FiledParts(p) = [k \in 1 .. n |-> v(k)]
  BY <1>1 DEF FiledParts
<1>4. \A k \in 1 .. n : v(k) \in Seq(Nat)
  BY <1>2
<1> HIDE DEF v
<1> QED
  BY <1>1, <1>3, <1>4

\* The file of q has the samples of one packet more, the others have the samples they had.
LEMMA SamplesNext ==
  ASSUME WrittenInv, OutInv, SamplesFiled,
         NEW j, NEW c, NEW q, NEW s, Current(j, c, q, s), Filing(c, q, s)
  PROVE  SamplesFiled'
<1>1. /\ s \in Seq(Nat) /\ j \in Nat /\ j = taken + 1 /\ j \in 1 .. Len(written) /\ taken \in Nat
      /\ written[j].samples = s /\ \A i \in 1 .. Len(s) : s[i] # 0
  BY DEF Current
<1>2. written \in Seq(PacketType) /\ written' = written /\ taken' = taken + 1 /\ Files' = Files \cup {q}
  BY DEF WrittenInv, Filing, Files
<1>3. /\ \A p : FiledFor(p) \subseteq 1 .. taken
      /\ \A p : FiledFor(p)' = IF p = q THEN FiledFor(p) \cup {j} ELSE FiledFor(p)
  <2>1. c < NumCores
    BY SplitterAssumption DEF Filing
  <2> QED
    BY <1>2, <2>1, FiledNext
<1>4. \A p \in Files : content[p] \in Seq(Nat) /\ Rows(content[p]) = FlattenSeq(FiledParts(p))
  BY DEF OutInv, SamplesFiled, FiledParts, Files
<1>5. SUFFICES ASSUME NEW p \in Files'
               PROVE  Rows(content'[p]) = FlattenSeq(FiledParts(p)')
  <2>1. \A p : FiledParts(p)' = [k \in 1 .. Len(written') |-> IF k \in FiledFor(p)' THEN written'[k].samples ELSE <<>>]
    BY DEF FiledParts
  <2> QED
    BY <1>5, <2>1 DEF SamplesFiled, Files
<1>6. CASE p # q
  <2>1. p \in Files
    BY <1>2, <1>6
  <2>2. FiledParts(p)' = FiledParts(p)
    BY <1>2, <1>3, <1>6 DEF FiledParts
  <2>3. Rows(content'[p]) = Rows(content[p])
    <3>1. CASE last_pid[c] = p
      <4>1. PICK f \in Seq(Nat) : f = content[p]
        BY <1>4, <2>1
      <4>2. PICK e \in Nat : e = 0
        OBVIOUS
      <4>3. content'[p] = Append(f, e)
        BY <1>6, <2>1, <3>1, <4>1, <4>2 DEF Filing
      <4> QED
        BY <4>1, <4>2, <4>3, RowsAppend
    <3>2. CASE last_pid[c] # p
      BY <1>6, <2>1, <3>2 DEF Filing
    <3> QED
      BY <3>1, <3>2
  <2> QED
    BY <1>4, <2>1, <2>2, <2>3
<1>7. CASE p = q
  <2>0. Old(q) \in Seq(Nat)
    BY <1>4 DEF Old
  <2>1. PICK old \in Seq(Nat) : old = Old(q)
    BY <2>0, Zenon
  <2>2. content'[q] = old \o s
    BY <2>1 DEF Filing
  <2>3. Rows(content'[q]) = Rows(old) \o s
    BY <1>1, <2>2, RowsJoin
  <2>4. PICK parts \in Seq(Seq(Nat)) : parts = FiledParts(q) /\ Len(parts) = Len(written)
    BY <1>2, FiledPartsType
  <2>5. PICK more \in Seq(Seq(Nat)) : more = FiledParts(q)' /\ Len(more) = Len(written)
    <3>1. FiledParts(q)' = [k \in 1 .. Len(written) |-> IF k \in FiledFor(q)' THEN written[k].samples ELSE <<>>]
      BY <1>2 DEF FiledParts
    <3>2. PICK T : T = FiledFor(q)'
      OBVIOUS
    <3>3. ASSUME NEW k \in 1 .. Len(written)
          PROVE  (IF k \in T THEN written[k].samples ELSE <<>>) \in Seq(Nat)
      <4>1. written[k] \in PacketType
        BY <1>2
      <4> QED
        BY <4>1 DEF PacketType
    <3> DEFINE v(k) == IF k \in T THEN written[k].samples ELSE <<>>
    <3>4. FiledParts(q)' = [k \in 1 .. Len(written) |-> v(k)]
      BY <3>1, <3>2
    <3>5. \A k \in 1 .. Len(written) : v(k) \in Seq(Nat)
      BY <3>3
    <3>6. Len(written) \in Nat
      BY <1>2
    <3> HIDE DEF v
    <3>7. [k \in 1 .. Len(written) |-> v(k)] \in Seq(Seq(Nat)) /\ Len([k \in 1 .. Len(written) |-> v(k)]) = Len(written)
      BY <3>5, <3>6
    <3> QED
      BY <3>4, <3>7
  <2>6. OneMore(parts, more, j)
    <3>1. \A k \in 1 .. Len(written) : parts[k] = IF k \in FiledFor(q) THEN written[k].samples ELSE <<>>
      BY <2>4 DEF FiledParts
    <3>2. \A k \in 1 .. Len(written) : more[k] = IF k \in FiledFor(q) \cup {j} THEN written[k].samples ELSE <<>>
      BY <1>2, <1>3, <2>5 DEF FiledParts
    <3>3. ASSUME NEW k \in FiledFor(q) PROVE k < j
      BY <1>1, <1>3
    <3>4. Len(written) \in Nat
      BY <1>2
    <3>5. ASSUME NEW k \in 1 .. Len(written)
          PROVE  /\ k < j => more[k] = parts[k]
                 /\ k >= j => parts[k] = <<>>
                 /\ k > j => more[k] = <<>>
      <4>1. k \in Nat /\ j \in Nat
        BY <1>1, <3>4
      <4>2. k < j => k # j
        BY <4>1
      <4>3. k >= j => k \notin FiledFor(q)
        BY <3>3, <4>1
      <4>4. k > j => k # j /\ k \notin FiledFor(q)
        BY <3>3, <4>1
      <4> QED
        BY <3>1, <3>2, <4>2, <4>3, <4>4
    <3> QED
      BY <1>1, <2>4, <2>5, <3>5 DEF OneMore
  <2>7. more[j] = s
    BY <1>1, <1>2, <1>3, <2>5 DEF FiledParts
  <2>8. FlattenSeq(more) = FlattenSeq(parts) \o s
    BY <2>6, <2>7, FlattenOneMore
  <2>9. Rows(old) = FlattenSeq(parts)
    <3>1. CASE q \in Files
      BY <1>4, <2>1, <2>4, <3>1 DEF Old
    <3>2. CASE q \notin Files
      <4>1. FiledFor(q) = {}
        BY <3>2, FilesAre DEF OutInv
      <4>2. \A k \in 1 .. Len(parts) : parts[k] = <<>>
        BY <2>4, <4>1 DEF FiledParts
      <4>3. PICK n \in Nat : n = Len(parts)
        OBVIOUS
      <4>4. FlattenSeq(parts) = <<>>
        BY <4>2, <4>3, FlattenNothing
      <4> QED
        BY <2>1, <3>2, <4>4, RowsEmpty DEF Old
    <3> QED
      BY <3>1, <3>2
  <2> QED
    BY <1>7, <2>3, <2>5, <2>8, <2>9
<1> QED
  BY <1>6, <1>7

\* Of the rows of the file of q the first are the old ones, the others come from the j-th packet.
GrownFile(f, old, j) ==
  /\ f \in Seq(Nat) /\ old \in Seq(Nat) /\ Len(old) <= Len(f)
  /\ \A a \in 1 .. Len(old) : f[a] = old[a]
  /\ \A a \in 1 .. Len(f) : a > Len(old) => f[a] # 0 /\ PacketOf(f[a]) = j

\* The new rows of q are all of the packet j.
LEMMA FileGrows ==
  ASSUME OutInv, NEW j, NEW c, NEW q, NEW s, Current(j, c, q, s), Filing(c, q, s)
  PROVE  GrownFile(content'[q], Old(q), j)
<1>0. Old(q) \in Seq(Nat)
  BY DEF Old, OutInv
<1>1. PICK old \in Seq(Nat) : old = Old(q)
  BY <1>0, Zenon
<1>2. /\ s \in Seq(Nat) /\ content'[q] = old \o s
      /\ \A i \in 1 .. Len(s) : s[i] # 0 /\ PacketOf(s[i]) = j
  BY <1>1 DEF Current, Filing
<1>3. PICK m \in Nat, n \in Nat : m = Len(old) /\ n = Len(s)
  BY <1>2
<1>4. old \o s \in Seq(Nat)
  BY <1>2
<1>5. PICK f \in Seq(Nat) : f = old \o s
  BY <1>4, Zenon
<1>6. /\ Len(f) = m + n /\ \A a \in 1 .. m : f[a] = old[a]
      /\ \A a \in 1 .. m + n : a > m => f[a] = s[a - m]
  BY <1>2, <1>3, <1>5
<1>7. ASSUME NEW a \in 1 .. Len(f), a > m PROVE f[a] # 0 /\ PacketOf(f[a]) = j
  <2>1. PICK i \in 1 .. n : i = a - m
    BY <1>6, <1>7
  <2>2. f[a] = s[i]
    BY <1>6, <1>7, <2>1
  <2> QED
    BY <1>2, <1>3, <2>2
<1>8. m <= Len(f)
  BY <1>6
<1>9. GrownFile(f, old, j)
  BY <1>3, <1>6, <1>7, <1>8 DEF GrownFile
<1> QED
  BY <1>1, <1>2, <1>5, <1>9

\* The other files are as they were but for a row of zeros in the one that core c turns away from.
OtherFile(f, old, turned) ==
  /\ f \in Seq(Nat) /\ old \in Seq(Nat)
  /\ Len(f) = IF turned THEN Len(old) + 1 ELSE Len(old)
  /\ \A a \in 1 .. Len(old) : f[a] = old[a]
  /\ turned => f[Len(f)] = 0

\* The file of another process ends with a blank line if its core turned away, and else is as it was.
LEMMA OthersStay ==
  ASSUME OutInv, NEW c, NEW q, NEW s, Filing(c, q, s), NEW p \in Files, p # q
  PROVE  OtherFile(content'[p], content[p], last_pid[c] = p)
<1>1. content[p] \in Seq(Nat)
  BY DEF OutInv
<1>2. PICK old \in Seq(Nat) : old = content[p]
  BY <1>1, Zenon
<1>3. CASE last_pid[c] = p
  <2>1. content'[p] = Append(old, 0)
    BY <1>2, <1>3 DEF Filing
  <2>2. Append(old, 0) \in Seq(Nat)
    OBVIOUS
  <2>3. PICK f \in Seq(Nat) : f = Append(old, 0)
    BY <2>2, Zenon
  <2>4. Len(f) = Len(old) + 1 /\ f[Len(f)] = 0 /\ \A a \in 1 .. Len(old) : f[a] = old[a]
    BY <2>3
  <2>5. OtherFile(f, old, TRUE)
    BY <2>4 DEF OtherFile
  <2> QED
    BY <1>2, <1>3, <2>1, <2>3, <2>5
<1>4. CASE last_pid[c] # p
  <2>1. content'[p] = old
    BY <1>2, <1>4 DEF Filing
  <2>2. OtherFile(old, old, FALSE)
    BY DEF OtherFile
  <2> QED
    BY <1>2, <1>4, <2>1, <2>2
<1> QED
  BY <1>3, <1>4

\* Their samples were there before.
LEMMA OtherRows ==
  ASSUME NEW f, NEW old, NEW turned, OtherFile(f, old, turned), NEW a \in DOMAIN f, f[a] # 0
  PROVE  a \in DOMAIN old /\ f[a] = old[a]
<1>1. PICK m \in Nat, n \in Nat : m = Len(old) /\ n = Len(f) /\ DOMAIN old = 1 .. m /\ DOMAIN f = 1 .. n
  BY DEF OtherFile
<1>2. CASE turned
  <2>1. n = m + 1 /\ f[n] = 0
    BY <1>1, <1>2 DEF OtherFile
  <2>2. a \in 1 .. m
    BY <1>1, <2>1
  <2> QED
    BY <1>1, <2>2 DEF OtherFile
<1>3. CASE ~turned
  <2>1. n = m
    BY <1>1, <1>3 DEF OtherFile
  <2>2. a \in 1 .. m
    BY <1>1, <2>1
  <2> QED
    BY <1>1, <2>2 DEF OtherFile
<1> QED
  BY <1>2, <1>3

\* Between two samples of a core in one section of the file of p it saw no other process.
Unbroken(p, f, w) ==
  \A a, b \in DOMAIN f :
    (/\ a < b /\ \A m \in a .. b : f[m] # 0
     /\ w[PacketOf(f[a])].core = w[PacketOf(f[b])].core)
    => \A m \in PacketOf(f[a]) .. PacketOf(f[b]) :
         w[m].core = w[PacketOf(f[a])].core => w[m].pid = p

\* A row of zeros at the end breaks nothing.
LEMMA UnbrokenOther ==
  ASSUME NEW f, NEW old, NEW turned, OtherFile(f, old, turned), NEW p, NEW w, Unbroken(p, old, w)
  PROVE  Unbroken(p, f, w)
<1>1. \A a \in DOMAIN f : f[a] # 0 => a \in DOMAIN old /\ f[a] = old[a]
  BY OtherRows
<1>2. SUFFICES ASSUME NEW a \in DOMAIN f, NEW b \in DOMAIN f, a < b, \A m \in a .. b : f[m] # 0,
                      w[PacketOf(f[a])].core = w[PacketOf(f[b])].core,
                      NEW m \in PacketOf(f[a]) .. PacketOf(f[b]),
                      w[m].core = w[PacketOf(f[a])].core
               PROVE  w[m].pid = p
  BY Zenon DEF Unbroken
<1>3. \A i \in a .. b : i \in DOMAIN f
  BY DEF OtherFile
<1>4. \A i \in a .. b : old[i] # 0 /\ f[i] = old[i] /\ i \in DOMAIN old
  BY <1>1, <1>2, <1>3
<1>5. a \in a .. b /\ b \in a .. b
  <2>1. DOMAIN f \subseteq Nat
    BY DEF OtherFile
  <2>2. a \in Nat /\ b \in Nat
    BY <2>1
  <2> QED
    BY <1>2, <2>2
<1>6. f[a] = old[a] /\ f[b] = old[b] /\ a \in DOMAIN old /\ b \in DOMAIN old /\ \A i \in a .. b : old[i] # 0
  BY <1>4, <1>5
<1> QED
  BY <1>2, <1>6, Zenon DEF Unbroken

\* SectionsUnbroken, file by file.
LEMMA SectionsAre == SectionsUnbroken <=> \A p \in DOMAIN content : Unbroken(p, content[p], written)
  BY Zenon DEF SectionsUnbroken, Unbroken

\* The new samples of q follow a sample of the same section only if their core stayed with q.
LEMMA SectionsNext ==
  ASSUME OutInv, SectionsUnbroken, TailInv,
         NEW j, NEW c, NEW q, NEW s, Current(j, c, q, s), Filing(c, q, s)
  PROVE  SectionsUnbroken'
<1>1. /\ taken \in Nat /\ j = taken + 1 /\ written[j].core = c /\ written[j].pid = q
  BY DEF Current
<1>2. Files' = Files \cup {q} /\ written' = written
  BY DEF Filing, Files
<1>3. \A p \in Files : Unbroken(p, content[p], written)
  BY SectionsAre DEF Files
<1>4. ASSUME NEW p \in Files' PROVE Unbroken(p, content'[p], written)
  <2>1. CASE p # q
    <3>1. p \in Files
      BY <1>2, <2>1
    <3>2. PICK f, old : f = content'[p] /\ old = content[p]
      OBVIOUS
    <3>3. OtherFile(f, old, last_pid[c] = p)
      BY <2>1, <3>1, <3>2, OthersStay
    <3>4. Unbroken(p, old, written)
      BY <1>3, <3>1, <3>2
    <3> QED
      BY <3>2, <3>3, <3>4, UnbrokenOther
  <2>2. CASE p = q
    <3>1. PICK f, old : f = content'[q] /\ old = Old(q)
      OBVIOUS
    <3>2. GrownFile(f, old, j)
      BY <3>1, FileGrows
    <3>3. PICK l \in Nat, n \in Nat : l = Len(old) /\ n = Len(f) /\ l <= n /\ DOMAIN f = 1 .. n /\ DOMAIN old = 1 .. l
      BY <3>2 DEF GrownFile
    <3>4. /\ \A a \in 1 .. l : f[a] = old[a]
          /\ \A a \in 1 .. n : a > l => f[a] # 0 /\ PacketOf(f[a]) = j
      BY <3>2, <3>3 DEF GrownFile
    <3>5. SUFFICES ASSUME NEW a \in DOMAIN f, NEW b \in DOMAIN f, a < b, \A m \in a .. b : f[m] # 0,
                          written[PacketOf(f[a])].core = written[PacketOf(f[b])].core,
                          NEW m \in PacketOf(f[a]) .. PacketOf(f[b]),
                          written[m].core = written[PacketOf(f[a])].core
                   PROVE  written[m].pid = q
      <4>1. SUFFICES Unbroken(q, f, written)
        BY <2>2, <3>1
      <4> QED
        BY Zenon DEF Unbroken
    <3>5a. a \in 1 .. n /\ b \in 1 .. n
      BY <3>3
    <3>6. ASSUME a <= l PROVE q \in Files /\ old = content[q]
      BY <3>1, <3>3, <3>5, <3>5a, <3>6 DEF Old
    <3>7. CASE b <= l
      <4>1. a \in 1 .. l /\ b \in 1 .. l /\ a <= l
        BY <3>5, <3>5a, <3>7
      <4>2. Unbroken(q, old, written)
        BY <1>3, <3>6, <4>1
      <4>3. f[a] = old[a] /\ f[b] = old[b]
        BY <3>4, <4>1
      <4>4. \A i \in a .. b : old[i] # 0
        <5>1. \A i \in a .. b : i \in 1 .. l
          BY <4>1
        <5> QED
          BY <3>4, <3>5, <5>1
      <4> QED
        BY <3>3, <3>5, <4>1, <4>2, <4>3, <4>4, Zenon DEF Unbroken
    <3>8. CASE a <= l /\ b > l
      <4>1. a \in 1 .. l /\ f[a] = old[a] /\ PacketOf(f[b]) = j
        BY <3>4, <3>5a, <3>8
      <4>2. InTail(q, a) /\ q \in Files /\ a \in DOMAIN content[q] /\ content[q][a] = f[a]
        <5>1. q \in Files /\ old = content[q]
          BY <3>6, <3>8
        <5>2. ASSUME NEW i \in a .. l PROVE old[i] # 0
          <6>1. i \in a .. b /\ i \in 1 .. l
            BY <3>5a, <3>8, <4>1
          <6> QED
            BY <3>4, <3>5, <6>1
        <5> QED
          BY <3>3, <4>1, <5>1, <5>2 DEF InTail
      <4>3. \A i \in PacketOf(f[a]) .. taken :
              written[i].core = written[PacketOf(f[a])].core => written[i].pid = q
        BY <4>2 DEF TailInv
      <4>4. m = j \/ m \in PacketOf(f[a]) .. taken
        BY <1>1, <3>5, <4>1
      <4> QED
        BY <1>1, <3>5, <4>3, <4>4
    <3>9. CASE a > l
      <4>1. PacketOf(f[a]) = j /\ PacketOf(f[b]) = j
        BY <3>4, <3>5, <3>5a, <3>9
      <4>2. m = j
        BY <1>1, <3>5, <4>1
      <4> QED
        BY <1>1, <4>2
    <3> QED
      BY <3>3, <3>5a, <3>7, <3>8, <3>9
  <2> QED
    BY <2>1, <2>2
<1>5. (\A p \in DOMAIN content : Unbroken(p, content[p], written))' => SectionsUnbroken'
  BY Zenon DEF SectionsUnbroken, Unbroken
<1> QED
  BY <1>2, <1>4, <1>5 DEF Files

\* A sample behind which there is no row of zeros is one of a core that is still at the process.
Stays(p, f, T, w, last, n) ==
  \A i \in DOMAIN f :
    LET k == PacketOf(f[i])
        c == w[k].core
    IN  /\ f[i] # 0 => k \in T
        /\ (\A m \in i .. Len(f) : f[m] # 0) =>
             /\ last[c] = p
             /\ \A m \in k .. n : w[m].core = c => w[m].pid = p

\* A row of zeros at the end leaves no such sample.
LEMMA StaysOther ==
  ASSUME NEW f, NEW old, NEW turned, OtherFile(f, old, turned),
         NEW p, NEW T, NEW w, NEW last, NEW n, Stays(p, old, T, w, last, n)
  PROVE  Stays(p, f, T, w, last, n)
<1>1. SUFFICES ASSUME NEW i \in DOMAIN f, NEW k, NEW d, k = PacketOf(f[i]), d = w[k].core
               PROVE  /\ f[i] # 0 => k \in T
                      /\ (\A m \in i .. Len(f) : f[m] # 0) =>
                           last[d] = p /\ \A m \in k .. n : w[m].core = d => w[m].pid = p
  BY Zenon DEF Stays
<1>2. f[i] # 0 => i \in DOMAIN old /\ f[i] = old[i]
  BY OtherRows
<1>3. f[i] # 0 => k \in T
  BY <1>1, <1>2 DEF Stays
<1>4. ASSUME \A m \in i .. Len(f) : f[m] # 0
      PROVE  last[d] = p /\ \A m \in k .. n : w[m].core = d => w[m].pid = p
  <2>1. i \in i .. Len(f) /\ Len(f) \in i .. Len(f)
    BY DEF OtherFile
  <2>2. f[i] # 0 /\ f[Len(f)] # 0
    BY <1>4, <2>1
  <2>3. Len(f) = Len(old) /\ \A a \in 1 .. Len(old) : f[a] = old[a]
    BY <2>2 DEF OtherFile
  <2>4. \A m \in i .. Len(old) : old[m] # 0
    <3>1. \A m \in i .. Len(old) : m \in 1 .. Len(old) /\ m \in i .. Len(f)
      BY <2>3 DEF OtherFile
    <3> QED
      BY <1>4, <2>3, <3>1
  <2>5. i \in DOMAIN old /\ k = PacketOf(old[i])
    BY <1>1, <1>2, <2>2
  <2> QED
    BY <1>1, <2>4, <2>5, Zenon DEF Stays
<1> QED
  BY <1>3, <1>4

\* TailInv, file by file.
LEMMA TailIs == TailInv <=> \A p \in Files : Stays(p, content[p], FiledFor(p), written, last_pid, taken)
  BY Zenon DEF TailInv, Stays, InTail

\* Core c is at q now; a core whose section is not ended has not turned away.
LEMMA TailNext ==
  ASSUME OutInv, TailInv, NEW j, NEW c, NEW q, NEW s, Current(j, c, q, s), Filing(c, q, s)
  PROVE  TailInv'
<1>1. /\ taken \in Nat /\ j = taken + 1 /\ j \in Nat /\ written[j].core = c /\ written[j].pid = q
      /\ c \in 0 .. NumCores - 1 /\ taken' = j
  BY DEF Current, Filing
<1>2. Files' = Files \cup {q} /\ written' = written
  BY DEF Filing, Files
<1>3. \A p : FiledFor(p)' = IF p = q THEN FiledFor(p) \cup {j} ELSE FiledFor(p)
  <2>1. c < NumCores
    BY <1>1, SplitterAssumption
  <2> QED
    BY <2>1, FiledNext DEF Filing
<1>4. \A p \in Files : Stays(p, content[p], FiledFor(p), written, last_pid, taken)
  BY TailIs
<1>5. /\ last_pid'[c] = q /\ \A d : d # c => last_pid'[d] = last_pid[d]
  BY <1>1 DEF Filing, OutInv
<1>6. ASSUME NEW p \in Files' PROVE Stays(p, content'[p], FiledFor(p)', written, last_pid', taken')
  <2>1. CASE p # q
    <3>1. p \in Files /\ FiledFor(p)' = FiledFor(p)
      BY <1>2, <1>3, <2>1
    <3>2. PICK f, old : f = content'[p] /\ old = content[p]
      OBVIOUS
    <3>3. OtherFile(f, old, last_pid[c] = p)
      BY <2>1, <3>1, <3>2, OthersStay
    <3>4. Stays(p, old, FiledFor(p), written, last_pid, taken)
      BY <1>4, <3>1, <3>2
    <3>5. SUFFICES ASSUME NEW i \in DOMAIN f, NEW k, NEW d, k = PacketOf(f[i]), d = written[k].core
                   PROVE  /\ f[i] # 0 => k \in FiledFor(p)
                          /\ (\A m \in i .. Len(f) : f[m] # 0) =>
                               /\ last_pid'[d] = p
                               /\ \A m \in k .. taken' : written[m].core = d => written[m].pid = p
      BY <3>1, <3>2, Zenon DEF Stays
    <3>6. DOMAIN f \subseteq Nat /\ DOMAIN old \subseteq DOMAIN f /\ Len(f) \in Nat
      BY <3>3 DEF OtherFile
    <3>7. f[i] # 0 => i \in DOMAIN old /\ f[i] = old[i]
      BY <3>3, OtherRows
    <3>8. f[i] # 0 => k \in FiledFor(p)
      BY <3>4, <3>5, <3>7 DEF Stays
    <3>9. ASSUME \A m \in i .. Len(f) : f[m] # 0
          PROVE  /\ last_pid'[d] = p
                 /\ \A m \in k .. taken' : written[m].core = d => written[m].pid = p
      <4>1. i \in i .. Len(f) /\ Len(f) \in i .. Len(f)
        BY <3>3 DEF OtherFile
      <4>2. f[i] # 0 /\ f[Len(f)] # 0
        BY <3>9, <4>1
      <4>3. last_pid[c] # p /\ Len(f) = Len(old) /\ \A a \in 1 .. Len(old) : f[a] = old[a]
        BY <3>3, <4>2 DEF OtherFile
      <4>4. \A m \in i .. Len(old) : old[m] # 0
        <5>1. \A m \in i .. Len(old) : m \in 1 .. Len(old) /\ m \in i .. Len(f)
          BY <3>3, <4>3 DEF OtherFile
        <5> QED
          BY <3>9, <4>3, <5>1
      <4>5. i \in DOMAIN old /\ k = PacketOf(old[i])
        BY <3>5, <3>7, <4>2
      <4>6. last_pid[d] = p /\ \A m \in k .. taken : written[m].core = d => written[m].pid = p
        BY <3>4, <3>5, <4>4, <4>5, Zenon DEF Stays
      <4>7. d # c /\ last_pid'[d] = p
        BY <1>5, <4>3, <4>6
      <4>8. ASSUME NEW m \in k .. taken', written[m].core = d PROVE written[m].pid = p
        <5>1. m # j
          BY <1>1, <4>7, <4>8
        <5>2. m \in k .. taken
          BY <1>1, <5>1
        <5> QED
          BY <4>6, <4>8, <5>2
      <4> QED
        BY <4>7, <4>8
    <3> QED
      BY <3>8, <3>9
  <2>2. CASE p = q
    <3>1. PICK f, old : f = content'[q] /\ old = Old(q)
      OBVIOUS
    <3>2. GrownFile(f, old, j)
      BY <3>1, FileGrows
    <3>3. PICK l \in Nat, n \in Nat : l = Len(old) /\ n = Len(f) /\ l <= n /\ DOMAIN f = 1 .. n /\ DOMAIN old = 1 .. l
      BY <3>2 DEF GrownFile
    <3>4. /\ \A a \in 1 .. l : f[a] = old[a]
          /\ \A a \in 1 .. n : a > l => f[a] # 0 /\ PacketOf(f[a]) = j
      BY <3>2, <3>3 DEF GrownFile
    <3>5. FiledFor(q)' = FiledFor(q) \cup {j}
      BY <1>3
    <3>6. SUFFICES ASSUME NEW i \in DOMAIN f, NEW k, NEW d, k = PacketOf(f[i]), d = written[k].core
                   PROVE  /\ f[i] # 0 => k \in FiledFor(q)'
                          /\ (\A m \in i .. Len(f) : f[m] # 0) =>
                               /\ last_pid'[d] = q
                               /\ \A m \in k .. taken' : written[m].core = d => written[m].pid = q
      <4>1. SUFFICES Stays(q, f, FiledFor(q)', written, last_pid', taken')
        BY <2>2, <3>1
      <4> QED
        BY Zenon DEF Stays
    <3>6a. i \in 1 .. n
      BY <3>3
    <3>7. CASE i <= l
      <4>1. i \in 1 .. l /\ f[i] = old[i]
        BY <3>4, <3>6a, <3>7
      <4>2. q \in Files /\ old = content[q]
        BY <3>1, <3>3, <4>1 DEF Old
      <4>3. Stays(q, old, FiledFor(q), written, last_pid, taken)
        BY <1>4, <4>2
      <4>4. f[i] # 0 => k \in FiledFor(q)
        BY <3>3, <3>6, <4>1, <4>3 DEF Stays
      <4>5. ASSUME \A m \in i .. Len(f) : f[m] # 0
            PROVE  /\ last_pid'[d] = q
                   /\ \A m \in k .. taken' : written[m].core = d => written[m].pid = q
        <5>1. \A m \in i .. l : old[m] # 0
          <6>1. \A m \in i .. l : m \in 1 .. l /\ m \in i .. Len(f)
            BY <3>3, <4>1
          <6> QED
            BY <3>4, <4>5, <6>1
        <5>2. last_pid[d] = q /\ \A m \in k .. taken : written[m].core = d => written[m].pid = q
          BY <3>3, <3>6, <4>1, <4>3, <5>1 DEF Stays
        <5>3. last_pid'[d] = q
          BY <1>5, <5>2
        <5>4. ASSUME NEW m \in k .. taken', written[m].core = d PROVE written[m].pid = q
          <6>1. CASE m = j
            BY <1>1, <6>1
          <6>2. CASE m # j
            <7>1. m \in k .. taken
              BY <1>1, <6>2
            <7> QED
              BY <5>2, <5>4, <7>1
          <6> QED
            BY <6>1, <6>2
        <5> QED
          BY <5>3, <5>4
      <4> QED
        BY <3>5, <4>4, <4>5
    <3>8. CASE i > l
      <4>1. k = j /\ d = c
        BY <1>1, <3>4, <3>6, <3>6a, <3>8
      <4>2. \A m \in k .. taken' : written[m].pid = q
        <5>1. \A m \in k .. taken' : m = j
          BY <1>1, <4>1
        <5> QED
          BY <1>1, <5>1
      <4> QED
        BY <1>5, <3>5, <4>1, <4>2
    <3> QED
      BY <3>3, <3>6a, <3>7, <3>8
  <2> QED
    BY <2>1, <2>2
<1>7. (\A p \in Files : Stays(p, content[p], FiledFor(p), written, last_pid, taken))' => TailInv'
  <2>1. (\A p \in Files : Stays(p, content[p], FiledFor(p), written, last_pid, taken)) => TailInv
    BY TailIs
  <2> QED
    BY Zenon DEF TailInv, Stays, InTail
<1> QED
  BY <1>2, <1>6, <1>7

\* The names of q are those of its new packet, as far as the file has them.
LEMMA NamesNext ==
  ASSUME WrittenInv, OutInv, NamesInv, pc = "process",
         NEW j, NEW c, NEW q, NEW s, Given(j, c, q, s), Filing(c, q, s)
  PROVE  NamesInv'
<1>1. /\ Current(j, c, q, s) /\ taken \in Nat /\ j = taken + 1 /\ j \in 1 .. Len(written)
      /\ position = Ends(written)[j - 1] /\ Reads(pkt, written[j], file, position)
  BY DEF Given, Current
<1>2. written \in Seq(PacketType) /\ written' = written /\ file' = file /\ Opened' = Files \cup {q} /\ Opened = Files
  BY DEF WrittenInv, Filing, Opened, OutInv
<1>3. /\ \A p : FiledFor(p) \in SUBSET (1 .. taken)
      /\ \A p : FiledFor(p)' = IF p = q THEN FiledFor(p) \cup {j} ELSE FiledFor(p)
  <2>1. c < NumCores
    BY SplitterAssumption DEF Filing
  <2> QED
    BY <1>1, <2>1, FiledNext DEF Filing
<1>4. Whole' = Whole
  BY <1>2 DEF Whole, EndOf
<1>5. ASSUME NEW p \in Opened' PROVE NamesRight(p, pid_files[p])'
  <2>1. CASE p # q
    <3>1. p \in Files /\ FiledFor(p)' = FiledFor(p) /\ pid_files'[p] = pid_files[p]
      BY <1>2, <1>3, <2>1 DEF Filing
    <3>2. NamesRight(p, pid_files[p])
      BY <1>2, <3>1 DEF NamesInv
    <3> QED
      BY <1>2, <1>4, <3>1, <3>2 DEF NamesRight
  <2>2. CASE p = q
    <3>1. Max(FiledFor(q) \cup {j}) = j
      BY <1>1, <1>3, MaxAdded, ZenonT(30)
    <3>2. pid_files'[q] = Names /\ FiledFor(q)' = FiledFor(q) \cup {j}
      BY <1>3 DEF Filing
    <3>3. PICK w : w = written[j]
      OBVIOUS
    <3>4. /\ IsPrefix(Names.cmdline, w.cmdline) /\ IsPrefix(Names.exe, w.exe)
          /\ position + Bytes(w) <= Len(file) => Names = [cmdline |-> w.cmdline, exe |-> w.exe]
      BY <1>1, <3>3 DEF Reads, Names
    <3>5. j \in Whole => position + Bytes(w) <= Len(file)
      <4>1. EndOf(j) = Ends(written)[j]
        BY <1>1, <1>2, EndOfIs
      <4>2. Ends(written)[j] = Ends(written)[j - 1] + Bytes(written[j])
        BY <1>1, <1>2, EndsAre
      <4> QED
        BY <1>1, <3>3, <4>1, <4>2 DEF Whole
    <3> QED
      BY <1>2, <1>4, <2>2, <3>1, <3>2, <3>3, <3>4, <3>5 DEF NamesRight
  <2> QED
    BY <2>1, <2>2
<1>6. pc' # "done"
  BY DEF Filing
<1> QED
  BY <1>5, <1>6 DEF NamesInv

-----------------------------------------------------------------------------
(* The other steps                                                         *)

\* While the recording goes on nothing is filed.
LEMMA Recording ==
  ASSUME PositionInv, OutInv, pc = "recording"
  PROVE  taken = 0 /\ position = 0 /\ Files = {}
<1>1. taken = 0 /\ position = 0
  BY DEF PositionInv
<1>2. \A p : FiledFor(p) = {}
  BY <1>1 DEF FiledFor
<1> QED
  BY <1>1, <1>2 DEF OutInv

\* There is nothing wrong with no files.
Nothing == SamplesFiled /\ SectionsUnbroken /\ TailInv

\* The invariants about files say nothing before the first is opened.
LEMMA NoFiles ==
  /\ Files = {} => Nothing
  /\ Files' = {} => Nothing'
BY Zenon DEF Nothing, Files, SamplesFiled, SectionsUnbroken, TailInv

\* The invariant holds before the first step.
LEMMA SplitInit ==
  ASSUME SplitterInit
  PROVE  SplitInv
<1> USE DEF SplitterInit
<1>1. written = <<>> /\ Len(written) = 0 /\ DOMAIN written = {} /\ taken = 0 /\ position = 0
  OBVIOUS
<1>2. WrittenInv
  BY <1>1, SplitterAssumption DEF WrittenInv
<1>3. FileInv
  <2>1. file \in Seq(Nat) /\ Len(file) = 2 /\ file[1] = 1 /\ file[2] = 0
    BY DEF Description, NUL
  <2>2. Byte(file, 0) # NUL /\ Byte(file, 1) = NUL
    BY <2>1 DEF Byte, NUL
  <2>3. Len(Description) = 2
    BY DEF Description
  <2>4. Laid(written, file)
    BY <1>1, <2>1, <2>2, <2>3 DEF Laid
  <2>5. Ends(written)[Len(written)] = 2
    <3>1. written \in Seq(PacketType)
      BY <1>1
    <3> QED
      BY <1>1, <2>3, <3>1, EndsAre
  <2> QED
    BY <2>1, <2>4, <2>5 DEF FileInv
<1>4. PositionInv
  <2>1. Len(file) = 2
    BY DEF Description
  <2> QED
    BY <1>1, <2>1 DEF PositionInv
<1>5. Files = {} /\ Opened = {}
  BY DEF Files, Opened
<1>6. OutInv
  <2>1. \A p : FiledFor(p) = {}
    BY <1>1 DEF FiledFor
  <2>2. IsFiniteSet({}) /\ Cardinality({}) = 0
    BY FS_EmptySet
  <2>3. last_pid \in [0 .. NumCores - 1 -> {NULL}] /\ currFile = last_pid /\ pc = "recording"
    OBVIOUS
  <2>4. Cardinality(Files) <= MaxFiles
    BY <1>5, <2>2, SplitterAssumption
  <2> QED
    BY <1>5, <2>1, <2>2, <2>3, <2>4, FilesAre DEF OutInv, States
<1>7. NamesInv
  BY <1>5 DEF NamesInv
<1> QED
  BY <1>2, <1>3, <1>4, <1>5, <1>6, <1>7, NoFiles DEF SplitInv, Nothing

\* Before the splitter is started no core has a file.
LEMMA RecordingNext ==
  ASSUME PositionInv, OutInv, pc = "recording", UNCHANGED <<outVars, taken>>, pc' \in {"recording", "loop"}
  PROVE  OutInv' /\ Nothing' /\ NamesInv'
<1>1. taken = 0 /\ Files = {} /\ Opened = {} /\ Files' = {} /\ Opened' = {} /\ taken' = 0
  <2>1. taken = 0 /\ Files = {}
    BY Recording
  <2>2. Files' = Files /\ Opened' = Opened /\ taken' = taken
    BY DEF outVars, Files, Opened
  <2>3. Opened = {}
    BY <2>1 DEF OutInv
  <2> QED
    BY <2>1, <2>2, <2>3
<1>2. \A p : FiledFor(p)' = {}
  BY <1>1 DEF FiledFor
<1>3. OutInv'
  <2>1. IsFiniteSet(Files) /\ Cardinality(Files) <= MaxFiles
    BY DEF OutInv
  <2>2. last_pid' \in [0 .. NumCores - 1 -> Files' \cup {NULL}] /\ currFile' = last_pid'
    BY <1>1 DEF OutInv, outVars
  <2> QED
    BY <1>1, <1>2, <2>1, <2>2, FilesAre DEF OutInv, States
<1>4. NamesInv'
  BY <1>1 DEF NamesInv
<1> QED
  BY <1>1, <1>3, <1>4, NoFiles

\* The sender writes one more packet.
LEMMA RecordNext ==
  ASSUME WrittenInv, FileInv, PositionInv, NEW h \in Headers, Record(h)
  PROVE  WrittenInv' /\ FileInv' /\ PositionInv'
<1>1. PICK n \in Nat, m \in Nat : n = Len(written) /\ m = n + 1
  BY DEF WrittenInv
<1>2. PICK p : p = Written(m, h)
  OBVIOUS
<1>3. /\ pc = "recording" /\ pc' = "recording" /\ n < MaxPackets
      /\ written' = Append(written, p) /\ file' = file \o Encode(p)
      /\ position' = position /\ taken' = taken
  BY <1>1, <1>2 DEF Record
<1>4. /\ p \in PacketType /\ NULL # p.pid
      /\ \A i \in DOMAIN p.samples : p.samples[i] # 0 /\ PacketOf(p.samples[i]) = m
  <2>1. m \in 1 .. MaxPackets
    BY <1>1, <1>3, SplitterAssumption
  <2> QED
    BY <1>2, <2>1, WrittenIs
<1>5. written \in Seq(PacketType)
  BY DEF WrittenInv
<1>6. written' \in Seq(PacketType) /\ Len(written') = m /\ written'[m] = p /\ \A k \in 1 .. n : written'[k] = written[k]
  <2>1. Extended(written', written, p)
    BY <1>3, <1>4, <1>5, EndsAppend
  <2> QED
    BY <1>1, <2>1 DEF Extended
<1>7. WrittenInv'
  <2>1. ASSUME NEW k \in DOMAIN written' PROVE NULL # written'[k].pid /\ Numbered(k)'
    <3>1. CASE k = m
      BY <1>4, <1>6, <3>1 DEF Numbered
    <3>2. CASE k # m
      <4>1. k \in 1 .. n /\ k \in DOMAIN written /\ written'[k] = written[k]
        BY <1>1, <1>6, <3>2
      <4>2. NULL # written[k].pid /\ Numbered(k)
        BY <4>1 DEF WrittenInv
      <4> QED
        BY <4>1, <4>2 DEF Numbered
    <3> QED
      BY <3>1, <3>2
  <2>2. Len(written') <= MaxPackets
    BY <1>1, <1>3, <1>6, SplitterAssumption
  <2> QED
    BY <1>6, <2>1, <2>2 DEF WrittenInv
<1>8. FileInv' /\ Len(file') \in Nat
  <2>1. Laid(written, file) /\ Len(file) = Ends(written)[Len(written)]
    BY <1>3 DEF FileInv
  <2>2. Laid(written', file') /\ Len(file') = Ends(written')[Len(written')]
    BY <1>3, <1>4, <1>5, <2>1, LaidAppend
  <2>3. Len(file') \in Nat
    BY <2>2 DEF Laid
  <2> QED
    BY <1>3, <2>2, <2>3 DEF FileInv
<1>9. taken' = 0 /\ position' = 0
  BY <1>3 DEF PositionInv
<1>10. PositionInv'
  BY <1>3, <1>6, <1>8, <1>9 DEF PositionInv
<1> QED
  BY <1>7, <1>8, <1>10

\* The file is cut off somewhere in its last packet; the first one begins behind the description.
LEMMA StartNext ==
  ASSUME WrittenInv, FileInv, PositionInv, NEW lost \in 0 .. Len(file), NEW pad, StartSplitter(lost, pad)
  PROVE  WrittenInv' /\ FileInv' /\ PositionInv'
<1>1. PICK n \in Nat, i \in Int, l \in Nat : n = Len(written) /\ i = n - 1 /\ l = Len(file)
  BY DEF WrittenInv, FileInv, Laid
<1>2. /\ pc = "recording" /\ pc' = "loop" /\ written # <<>> /\ lost < Len(Encode(Last(written)))
      /\ written' = written /\ taken' = taken /\ file' = SubSeq(file, 1, Len(file) - lost)
      /\ position' = strlen(file, 0) + 1
  BY DEF StartSplitter, fileVars
<1>3. written \in Seq(PacketType) /\ Laid(written, file) /\ l = Ends(written)[n] /\ taken = 0
  BY <1>1, <1>2 DEF WrittenInv, FileInv, PositionInv
<1>4. n \in 1 .. n /\ i \in 0 .. n
  BY <1>1, <1>2, <1>3
<1>5. PICK c \in Int : c = l - lost
  <2>1. lost \in Int /\ l \in Int
    BY <1>1
  <2>2. l - lost \in Int
    BY <2>1
  <2> QED
    BY <2>2, Zenon
<1>6. PICK ends \in [0 .. n -> Nat] : ends = Ends(written) /\ ends[0] = 2
  <2>1. Len(Description) = 2
    BY DEF Description
  <2> QED
    BY <1>1, <1>3, <2>1, EndsAre
<1>7. ends[n] = l /\ lost < l - ends[i] /\ ends[i] \in Nat /\ ends[i] >= 2
  <2>1. PICK p \in PacketType : p = written[n] /\ p = Last(written)
    BY <1>1, <1>3, <1>4 DEF Last
  <2>2. Len(Encode(p)) = Bytes(p) /\ Bytes(p) \in Nat
    BY Spelling, BytesAre DEF Spelled
  <2>3. Ends(written)[n] = Ends(written)[n - 1] + Bytes(written[n])
    BY <1>1, <1>3, <1>4, EndsAre
  <2>4. ends[n] = ends[i] + Bytes(p)
    BY <1>1, <1>6, <2>1, <2>3
  <2>5. ends[i] \in Nat /\ l = ends[n]
    BY <1>3, <1>4, <1>6
  <2>6. lost < Bytes(p)
    BY <1>2, <2>1, <2>2
  <2>7. ends[i] >= 2
    <3>1. CASE i = 0
      BY <1>6, <3>1
    <3>2. CASE i # 0
      <4>1. PICK z \in 0 .. Len(written) : z = 0
        BY <1>1
      <4>2. i \in 0 .. Len(written) /\ z < i
        BY <1>1, <1>4, <3>2, <4>1
      <4>3. Ends(written)[z] < Ends(written)[i]
        BY <1>3, <4>2, EndsGrow
      <4> QED
        BY <1>6, <2>5, <4>1, <4>3
    <3> QED
      BY <3>1, <3>2
  <2>8. PICK size \in Nat : size = Bytes(p)
    BY <2>2
  <2> QED
    BY <2>4, <2>5, <2>6, <2>7, <2>8
<1>8. c \in Nat /\ c <= l /\ c >= 2 /\ ends[i] < c
  BY <1>1, <1>5, <1>7
<1>9. Laid(written, file') /\ Len(file') = c
  <2>1. file' = SubSeq(file, 1, c) /\ c <= Len(file)
    BY <1>1, <1>2, <1>5, <1>8
  <2>2. Laid(written, SubSeq(file, 1, c)) /\ Len(SubSeq(file, 1, c)) = c
    BY <1>3, <1>8, <2>1, LaidCut
  <2> QED
    BY <2>1, <2>2
<1>10. position' = 2
  <2>1. Byte(file, 0) # NUL /\ Byte(file, 1) = NUL /\ Len(file) \in Nat /\ Len(file) >= 2
    BY <1>3, <1>1, <1>8 DEF Laid
  <2>2. PICK z \in Nat, e \in Nat : z = 0 /\ e = 1
    OBVIOUS
  <2>3. e \in 0 .. Len(file) /\ Byte(file, z + e) = NUL /\ Chars(file, z, e)
    <3>1. \A x \in 0 .. e - 1 : z + x = z
      BY <2>2
    <3>2. z + e = 1
      BY <2>2
    <3> QED
      BY <2>1, <2>2, <3>1, <3>2 DEF Chars
  <2>4. strlen(file, z) = e
    BY <2>1, <2>3, StrlenIs
  <2> QED
    BY <1>2, <2>2, <2>4
<1>11. WrittenInv'
  BY <1>2 DEF WrittenInv, Numbered
<1>12. FileInv'
  BY <1>1, <1>2, <1>6, <1>7, <1>8, <1>9 DEF FileInv
<1>13. PositionInv'
  <2>1. taken' = 0 /\ pc' = "loop" /\ written' = written /\ position' = Ends(written')[taken']
    BY <1>2, <1>3, <1>6, <1>10
  <2>2. position' \in 0 .. Len(file') + 2 /\ taken' \in 0 .. Len(written')
    BY <1>1, <1>8, <1>9, <1>10, <2>1
  <2> QED
    BY <2>1, <2>2 DEF PositionInv
<1> QED
  BY <1>11, <1>12, <1>13

\* The packet that packet_read finds is the next one; it finds one if that is complete.
LEMMA ReadIs ==
  ASSUME WrittenInv, FileInv, PositionInv, pc = "loop"
  PROVE  /\ position < Len(file) =>
              /\ taken < Len(written) /\ position = Ends(written)[taken]
              /\ \A r \in PacketHere : Reads(r, written[taken + 1], file, position)
         /\ position < Len(file) /\ PacketHere = {} => Whole \subseteq 1 .. taken
         /\ position >= Len(file) => Whole \subseteq 1 .. taken
<1>1. PICK n \in Nat, l \in Nat : n = Len(written) /\ l = Len(file)
  BY DEF WrittenInv, FileInv, Laid
<1>2. /\ written \in Seq(PacketType) /\ written # <<>> /\ Laid(written, file) /\ file \in Seq(Nat)
      /\ taken \in 0 .. n /\ position \in 0 .. l + 2
      /\ position = Ends(written)[taken] \/ (taken = n /\ position > l)
  BY <1>1 DEF WrittenInv, FileInv, PositionInv, Laid
<1>3. PICK ends \in [0 .. n -> Nat] : ends = Ends(written)
  BY <1>1, <1>2, EndsAre
<1>4. l <= ends[n]
  BY <1>1, <1>3 DEF FileInv
<1>5. ASSUME NEW k \in 0 .. n, NEW i \in 0 .. n, k < i PROVE ends[k] < ends[i]
  BY <1>1, <1>2, <1>3, <1>5, EndsGrow
<1>6. \A k \in Whole : k \in 1 .. n /\ ends[k] <= l
  <2>1. SUFFICES ASSUME NEW k \in Whole PROVE k \in 1 .. n /\ ends[k] <= l
    OBVIOUS
  <2>2. k \in 1 .. n /\ EndOf(k) <= l
    BY <1>1, <1>2 DEF Whole
  <2>3. EndOf(k) = Ends(written)[k]
    BY <1>1, <1>2, <2>2, EndOfIs
  <2> QED
    BY <1>3, <2>2, <2>3
<1>7. ASSUME position >= l PROVE Whole \subseteq 1 .. taken
  <2>1. SUFFICES ASSUME NEW k \in Whole, k > taken PROVE FALSE
    BY <1>2, <1>6
  <2>2. k \in 0 .. n /\ taken < n
    BY <1>2, <1>6, <2>1
  <2>3. ends[taken] >= l /\ ends[taken] < ends[k]
    BY <1>2, <1>3, <1>5, <1>7, <2>1, <2>2
  <2> QED
    BY <1>2, <1>3, <1>6, <2>2, <2>3
<1>8. ASSUME position < l
      PROVE  /\ taken < n /\ position = ends[taken]
             /\ \A r \in PacketHere : Reads(r, written[taken + 1], file, position)
             /\ PacketHere = {} => Whole \subseteq 1 .. taken
  <2>1. position = ends[taken]
    BY <1>2, <1>3, <1>8
  <2>2. taken < n
    BY <1>2, <1>4, <1>8, <2>1
  <2>3. PICK j \in 1 .. n : j = taken + 1
    BY <1>2, <2>2
  <2>4. PICK at \in Nat, left \in Nat : at = position /\ left = l - at
    BY <1>2, <1>8
  <2>5. PICK p \in PacketType : p = written[j]
    BY <1>1, <1>2, <2>3
  <2>6. at = Ends(written)[j - 1] /\ at < Len(file) /\ j \in 1 .. Len(written)
    BY <1>1, <1>2, <1>3, <1>8, <2>1, <2>3, <2>4
  <2>7. PacketLies(file, at, p)
    BY <1>2, <2>5, <2>6, BytesHere
  <2>8. PacketHere = PacketRead(file, at, left)
    BY <1>1, <2>4 DEF PacketHere
  <2>9. /\ \A r \in PacketHere : Reads(r, p, file, at)
        /\ at + Bytes(p) <= Len(file) => PacketHere # {}
    BY <1>1, <1>2, <2>4, <2>7, <2>8, Decode
  <2>10. ASSUME PacketHere = {} PROVE Whole \subseteq 1 .. taken
    <3>1. SUFFICES ASSUME NEW k \in Whole, k > taken PROVE FALSE
      BY <1>2, <1>6
    <3>2. Ends(written)[j] = Ends(written)[j - 1] + Bytes(written[j])
      BY <1>2, <2>6, EndsAre
    <3>3. ends[j] = at + Bytes(p)
      BY <1>3, <2>5, <2>6, <3>2
    <3>4. ends[j] > l
      BY <1>1, <1>3, <2>9, <2>10, <3>3
    <3>5. k = j \/ (k > j /\ k \in 0 .. n /\ j \in 0 .. n)
      BY <1>2, <1>6, <2>3, <3>1
    <3>6. ends[j] <= ends[k]
      BY <1>3, <1>5, <3>5
    <3>7. ends[k] \in Nat /\ ends[j] \in Nat /\ ends[k] <= l
      BY <1>3, <1>6, <2>3, <3>5
    <3> QED
      BY <3>4, <3>6, <3>7
  <2> QED
    BY <2>1, <2>2, <2>3, <2>4, <2>5, <2>9, <2>10
<1> QED
  BY <1>1, <1>2, <1>3, <1>7, <1>8

\* A step that files nothing.
LEMMA Unfiled ==
  ASSUME WrittenInv, FileInv, OutInv, SamplesFiled, SectionsUnbroken, NamesInv,
         written' = written, file' = file, UNCHANGED outVars,
         \A p : FiledFor(p)' = FiledFor(p),
         pc \notin {"recording", "done"}, pc' \in States \ {"recording", "done"}
  PROVE  WrittenInv' /\ FileInv' /\ OutInv' /\ SamplesFiled' /\ SectionsUnbroken' /\ NamesInv'
<1>1. Files' = Files /\ content' = content /\ Opened' = Opened /\ pid_files' = pid_files /\ Whole' = Whole
  BY DEF outVars, Files, Opened, Whole, EndOf
<1>2. WrittenInv'
  BY DEF WrittenInv, Numbered
<1>3. FileInv'
  BY DEF FileInv
<1>4. OutInv'
  BY <1>1, FilesAre DEF OutInv, outVars
<1>5. SamplesFiled'
  BY <1>1 DEF SamplesFiled
<1>6. SectionsUnbroken'
  BY <1>1 DEF SectionsUnbroken
<1>7. NamesInv'
  BY <1>1 DEF NamesInv, NamesRight
<1> QED
  BY <1>2, <1>3, <1>4, <1>5, <1>6, <1>7

\* A step that takes no packet either.
LEMMA Untaken ==
  ASSUME SplitInv, written' = written, file' = file, UNCHANGED <<outVars, taken>>,
         pc \notin {"recording", "done"}, pc' \in States \ {"recording", "done"}, PositionInv'
  PROVE  SplitInv'
<1>1. \A p : FiledFor(p)' = FiledFor(p)
  BY DEF FiledFor
<1>2. WrittenInv' /\ FileInv' /\ OutInv' /\ SamplesFiled' /\ SectionsUnbroken' /\ NamesInv'
  BY <1>1, Unfiled DEF SplitInv
<1>3. TailInv'
  BY <1>1 DEF SplitInv, TailInv, InTail, outVars, Files
<1> QED
  BY <1>2, <1>3 DEF SplitInv

\* packet_read succeeds, or the loop ends.
LEMMA LoopNext ==
  ASSUME SplitInv, NextPacket \/ NamesFault \/ EndLoop
  PROVE  SplitInv'
<1>1. WrittenInv /\ FileInv /\ PositionInv
  BY DEF SplitInv
<1>2. /\ pc = "loop" /\ written' = written /\ file' = file /\ position' = position /\ taken' = taken
      /\ UNCHANGED <<outVars, taken>> /\ pc' \in {"process", "killed", "closing"}
  BY DEF NextPacket, NamesFault, EndLoop, fileVars
<1>3. PositionInv'
  <2>1. Whole' = Whole
    BY <1>2 DEF Whole, EndOf
  <2>2. ASSUME pc' = "process"
        PROVE  /\ taken < Len(written) /\ position = Ends(written)[taken]
               /\ Reads(pkt', written[taken + 1], file, position)
    <3>1. position < Len(file) /\ pkt' \in PacketHere
      BY <2>2 DEF NextPacket, NamesFault, EndLoop
    <3> QED
      BY <1>1, <1>2, <3>1, ReadIs
  <2>3. ASSUME pc' \in {"closing", "done"} PROVE Whole \subseteq 1 .. taken
    <3>1. position < Len(file) => PacketHere = {}
      BY <2>3 DEF NextPacket, NamesFault, EndLoop
    <3>2. position < Len(file) \/ position >= Len(file)
      BY <1>1 DEF PositionInv, FileInv, Laid
    <3> QED
      BY <1>1, <1>2, <3>1, <3>2, ReadIs
  <2>4. /\ taken \in 0 .. Len(written) /\ position \in 0 .. Len(file) + 2
        /\ \A k \in 1 .. taken : Ends(written)[k - 1] + NamesAt(written[k]) <= Len(file)
    BY <1>1 DEF PositionInv
  <2> QED
    BY <1>2, <2>1, <2>2, <2>3, <2>4 DEF PositionInv
<1> QED
  BY <1>2, <1>3, Untaken DEF States

\* The program is ended by a packet.
LEMMA FatalNext ==
  ASSUME SplitInv, AssertFails \/ StringFault
  PROVE  SplitInv'
<1>1. /\ pc = "process" /\ written' = written /\ file' = file /\ position' = position /\ taken' = taken
      /\ UNCHANGED <<outVars, taken>> /\ pc' \in {"aborted", "killed"}
  BY DEF AssertFails, StringFault, fileVars
<1>2. PositionInv'
  BY <1>1 DEF SplitInv, PositionInv
<1> QED
  BY <1>1, <1>2, Untaken DEF States

\* A packet of a core that there is not.
LEMMA SkipNext ==
  ASSUME SplitInv, Skip
  PROVE  SplitInv'
<1>1. /\ pc = "process" /\ NextPosition /\ written' = written /\ file' = file /\ UNCHANGED outVars
      /\ pc' = "loop" /\ taken' = taken + 1 /\ pkt.core > NumCores
  BY DEF Skip, fileVars, NextPosition
<1>2. PICK j, c, q, s : Given(j, c, q, s)
  BY <1>1, CurrentIs DEF SplitInv
<1>3. /\ Current(j, c, q, s) /\ taken \in Nat /\ j = taken + 1 /\ written[j].core = c
      /\ c \in Nat /\ ~(c < NumCores)
  BY <1>1, <1>2, SplitterAssumption DEF Given, Current
<1>4. \A p : FiledFor(p)' = FiledFor(p)
  BY <1>1, <1>3, FiledNext
<1>5. PositionInv'
  BY <1>1, PositionNext DEF SplitInv
<1>6. WrittenInv' /\ FileInv' /\ OutInv' /\ SamplesFiled' /\ SectionsUnbroken' /\ NamesInv'
  BY <1>1, <1>4, Unfiled DEF SplitInv, States
<1>7. TailInv'
  <2>1. \A p \in Files : Stays(p, content[p], FiledFor(p), written, last_pid, taken)
    BY TailIs DEF SplitInv
  <2>2. ASSUME NEW p \in Files PROVE Stays(p, content[p], FiledFor(p), written, last_pid, taken')
    <3>1. PICK f : f = content[p] /\ f \in Seq(Nat)
      BY DEF SplitInv, OutInv
    <3>2. Stays(p, f, FiledFor(p), written, last_pid, taken)
      BY <2>1, <3>1
    <3>3. SUFFICES ASSUME NEW i \in DOMAIN f, NEW k, NEW d, k = PacketOf(f[i]), d = written[k].core
                   PROVE  /\ f[i] # 0 => k \in FiledFor(p)
                          /\ (\A m \in i .. Len(f) : f[m] # 0) =>
                               /\ last_pid[d] = p
                               /\ \A m \in k .. taken' : written[m].core = d => written[m].pid = p
      BY <3>1, Zenon DEF Stays
    <3>4. f[i] # 0 => k \in FiledFor(p)
      BY <3>2, <3>3, Zenon DEF Stays
    <3>5. ASSUME \A m \in i .. Len(f) : f[m] # 0
          PROVE  last_pid[d] = p /\ \A m \in k .. taken' : written[m].core = d => written[m].pid = p
      <4>1. last_pid[d] = p /\ \A m \in k .. taken : written[m].core = d => written[m].pid = p
        BY <3>2, <3>3, <3>5, Zenon DEF Stays
      <4>2. f[i] # 0
        <5>1. i \in i .. Len(f)
          BY <3>1
        <5> QED
          BY <3>5, <5>1
      <4>3. k \in Nat /\ written[k].core < NumCores
        BY <3>4, <4>2 DEF FiledFor
      <4>4. ASSUME NEW m \in k .. taken', written[m].core = d PROVE written[m].pid = p
        <5>1. m # j
          BY <1>3, <3>3, <4>3, <4>4
        <5>2. m \in k .. taken
          BY <1>1, <1>3, <4>3, <5>1
        <5> QED
          BY <4>1, <4>4, <5>2
      <4> QED
        BY <4>1, <4>4
    <3> QED
      BY <3>4, <3>5
  <2>3. Files' = Files /\ content' = content /\ last_pid' = last_pid
    BY <1>1 DEF outVars, Files
  <2>4. (\A p \in Files : Stays(p, content[p], FiledFor(p), written, last_pid, taken))' => TailInv'
    BY Zenon DEF TailInv, Stays, InTail
  <2> QED
    BY <1>1, <1>4, <2>2, <2>3, <2>4
<1> QED
  BY <1>5, <1>6, <1>7 DEF SplitInv

\* A packet is filed.
LEMMA FileNext ==
  ASSUME SplitInv, NEW c \in 0 .. NumCores - 1, Continue(c) \/ SwitchTo(c) \/ OpenFor(c)
  PROVE  SplitInv'
<1>1. pc = "process" /\ pkt.core = c /\ NextPosition /\ written' = written /\ file' = file
  BY DEF Continue, SwitchTo, OpenFor, OnCore, Filed, fileVars
<1>2. WrittenInv /\ FileInv /\ PositionInv /\ OutInv /\ SamplesFiled /\ SectionsUnbroken /\ TailInv /\ NamesInv
  BY DEF SplitInv
<1>3. PICK j, d, q, s : Given(j, d, q, s)
  BY <1>1, <1>2, CurrentIs
<1>4. d = c
  BY <1>1, <1>3 DEF Given
<1>5. Given(j, c, q, s) /\ Current(j, c, q, s)
  BY <1>3, <1>4 DEF Given
<1>6. Filing(c, q, s)
  BY <1>1, <1>2, <1>5, FilingIs
<1>7. PositionInv'
  BY <1>1, <1>2, PositionNext
<1>8. OutInv' /\ SamplesFiled' /\ SectionsUnbroken' /\ TailInv' /\ NamesInv'
  BY <1>1, <1>2, <1>5, <1>6, OutNext, SamplesNext, SectionsNext, TailNext, NamesNext
<1>9. WrittenInv' /\ FileInv'
  <2>1. pc' = "loop"
    BY <1>1 DEF NextPosition
  <2> QED
    BY <1>1, <1>2, <2>1 DEF WrittenInv, Numbered, FileInv
<1> QED
  BY <1>7, <1>8, <1>9 DEF SplitInv

\* Only the section of the file that core c leaves is ended.
LEMMA OpenFailsNext ==
  ASSUME SplitInv, NEW c \in 0 .. NumCores - 1, OpenFails(c)
  PROVE  SplitInv'
<1>1. /\ pc = "process" /\ pc' = "exited" /\ content' = Separated(c)
      /\ written' = written /\ file' = file /\ position' = position /\ taken' = taken
      /\ currFile' = currFile /\ last_pid' = last_pid /\ pid_files' = pid_files
  BY DEF OpenFails, fileVars
<1>2. WrittenInv /\ FileInv /\ PositionInv /\ OutInv /\ SamplesFiled /\ SectionsUnbroken /\ TailInv /\ NamesInv
  BY DEF SplitInv
<1>3. NULL \notin Files /\ currFile = last_pid /\ \A p \in Files : content[p] \in Seq(Nat)
  BY <1>2, FilesOfPids DEF OutInv
<1>4. /\ Files' = Files
      /\ \A p \in Files : content'[p] = IF last_pid[c] = p THEN Append(content[p], 0) ELSE content[p]
  <2>1. last_pid[c] \in Files \cup {NULL}
    BY <1>2 DEF OutInv
  <2>2. CASE currFile[c] = NULL
    BY <1>1, <1>3, <2>2 DEF Separated, Files
  <2>3. CASE currFile[c] # NULL
    BY <1>1, <1>3, <2>1, <2>3 DEF Separated, Files
  <2> QED
    BY <2>2, <2>3
<1>5. /\ \A p : FiledFor(p)' = FiledFor(p)
      /\ Whole' = Whole /\ Opened' = Opened
  BY <1>1 DEF FiledFor, Whole, EndOf, Opened
<1>6. ASSUME NEW p \in Files
      PROVE  /\ content'[p] \in Seq(Nat) /\ Rows(content'[p]) = Rows(content[p])
             /\ OtherFile(content'[p], content[p], last_pid[c] = p)
  <2>1. PICK old \in Seq(Nat), e \in Nat : old = content[p] /\ e = 0
    BY <1>3
  <2>2. CASE last_pid[c] = p
    <3>1. content'[p] = Append(old, e)
      BY <1>4, <2>1, <2>2
    <3>2. Append(old, e) \in Seq(Nat)
      OBVIOUS
    <3>3. PICK f \in Seq(Nat) : f = Append(old, e)
      BY <3>2, Zenon
    <3>4. Len(f) = Len(old) + 1 /\ f[Len(f)] = 0 /\ \A a \in 1 .. Len(old) : f[a] = old[a]
      BY <2>1, <3>3
    <3>5. OtherFile(f, old, TRUE)
      BY <3>4 DEF OtherFile
    <3>6. Rows(f) = Rows(old)
      BY <2>1, <3>3, RowsAppend
    <3> QED
      BY <2>1, <2>2, <3>1, <3>3, <3>5, <3>6
  <2>3. CASE last_pid[c] # p
    <3>1. content'[p] = old
      BY <1>4, <2>1, <2>3
    <3>2. OtherFile(old, old, FALSE)
      BY DEF OtherFile
    <3> QED
      BY <2>1, <2>3, <3>1, <3>2
  <2> QED
    BY <2>2, <2>3
<1>7. OutInv'
  BY <1>1, <1>2, <1>4, <1>5, <1>6 DEF OutInv, EachFiled, States
<1>8. SamplesFiled'
  <2>1. ASSUME NEW p \in Files PROVE Rows(content'[p]) = FlattenSeq(FiledParts(p)')
    <3>1. FiledParts(p)' = FiledParts(p)
      BY <1>1, <1>5 DEF FiledParts
    <3>2. Rows(content[p]) = FlattenSeq(FiledParts(p))
      BY <1>2 DEF SamplesFiled, FiledParts, Files
    <3> QED
      BY <1>6, <3>1, <3>2
  <2>2. \A p : FiledParts(p)' = [k \in 1 .. Len(written') |-> IF k \in FiledFor(p)' THEN written'[k].samples ELSE <<>>]
    BY DEF FiledParts
  <2> QED
    BY <1>4, <2>1, <2>2 DEF SamplesFiled, Files
<1>9. SectionsUnbroken'
  <2>1. \A p \in Files : Unbroken(p, content[p], written)
    BY <1>2, SectionsAre DEF Files
  <2>2. \A p \in Files : Unbroken(p, content'[p], written)
    BY <1>6, <2>1, UnbrokenOther
  <2>3. (\A p \in DOMAIN content : Unbroken(p, content[p], written))' => SectionsUnbroken'
    BY Zenon DEF SectionsUnbroken, Unbroken
  <2> QED
    BY <1>1, <1>4, <2>2, <2>3 DEF Files
<1>10. TailInv'
  <2>1. \A p \in Files : Stays(p, content[p], FiledFor(p), written, last_pid, taken)
    BY <1>2, TailIs
  <2>2. \A p \in Files : Stays(p, content'[p], FiledFor(p), written, last_pid, taken)
    BY <1>6, <2>1, StaysOther
  <2>3. (\A p \in Files : Stays(p, content[p], FiledFor(p), written, last_pid, taken))' => TailInv'
    BY Zenon DEF TailInv, Stays, InTail
  <2> QED
    BY <1>1, <1>4, <1>5, <2>2, <2>3
<1>11. NamesInv'
  BY <1>1, <1>2, <1>5 DEF NamesInv, NamesRight
<1>12. WrittenInv' /\ FileInv' /\ PositionInv'
  BY <1>1, <1>2, <1>5 DEF WrittenInv, Numbered, FileInv, PositionInv
<1> QED
  BY <1>7, <1>8, <1>9, <1>10, <1>11, <1>12 DEF SplitInv

\* The index gets a line for each file.
LEMMA CloseNext ==
  ASSUME SplitInv, CloseAll
  PROVE  SplitInv'
<1>1. /\ pc = "closing" /\ pc' = "done" /\ index' = {<<p, pid_files[p]>> : p \in Opened} /\ pid_files' = <<>>
      /\ written' = written /\ file' = file /\ position' = position /\ taken' = taken
      /\ currFile' = currFile /\ last_pid' = last_pid /\ content' = content
  BY DEF CloseAll, fileVars
<1>2. WrittenInv /\ FileInv /\ PositionInv /\ OutInv /\ SamplesFiled /\ SectionsUnbroken /\ TailInv /\ NamesInv
  BY DEF SplitInv
<1>3. /\ \A p : FiledFor(p)' = FiledFor(p)
      /\ Whole' = Whole /\ Opened' = {} /\ Files' = Files /\ Opened = Files /\ IsFiniteSet(Files)
  BY <1>1, <1>2 DEF FiledFor, Whole, EndOf, Opened, Files, OutInv
<1>4. WrittenInv' /\ FileInv' /\ PositionInv'
  BY <1>1, <1>2, <1>3 DEF WrittenInv, Numbered, FileInv, PositionInv
<1>5. OutInv'
  BY <1>1, <1>2, <1>3 DEF OutInv, EachFiled, States
<1>6. SamplesFiled' /\ SectionsUnbroken'
  BY <1>1, <1>2, <1>3 DEF SamplesFiled, SectionsUnbroken
<1>7. TailInv'
  BY <1>1, <1>2, <1>3 DEF TailInv, InTail
<1>8. IndexRight'
  <2>1. \A line \in index' : line[1] \in Files /\ line[2] = pid_files[line[1]]
    BY <1>1, <1>3
  <2>2. {line[1] : line \in index'} = Files
    <3>1. \A p \in Files : <<p, pid_files[p]>> \in index' /\ <<p, pid_files[p]>>[1] = p
      BY <1>1, <1>3
    <3>2. \A p \in Files : p \in {line[1] : line \in index'}
      BY <3>1, Zenon
    <3>3. \A p \in {line[1] : line \in index'} : p \in Files
      BY <2>1
    <3> QED
      BY <3>2, <3>3, Zenon
  <2>3. ASSUME NEW line \in index' PROVE NamesRight(line[1], line[2])'
    <3>1. NamesRight(line[1], line[2])
      BY <1>2, <1>3, <2>1 DEF NamesInv
    <3> QED
      BY <1>1, <1>3, <3>1 DEF NamesRight
  <2>4. Cardinality(index') = Cardinality(Files)
    <3> DEFINE line == [p \in Files |-> <<p, pid_files[p]>>]
    <3>1. line \in Bijection(Files, index')
      <4>1. line \in [Files -> index']
        BY <1>1, <1>3
      <4>2. \A p, r \in Files : line[p] = line[r] => p = r
        OBVIOUS
      <4>3. \A l \in index' : \E p \in Files : line[p] = l
        BY <1>1, <1>3
      <4> HIDE DEF line
      <4> QED
        BY <4>1, <4>2, <4>3 DEF Bijection, Injection, Surjection, IsInjective
    <3>2. ExistsBijection(Files, index')
      BY <3>1 DEF ExistsBijection
    <3> QED
      BY <1>3, <3>2, FS_Bijection
  <2> QED
    BY <1>3, <2>2, <2>3, <2>4 DEF IndexRight
<1>9. NamesInv'
  BY <1>3, <1>8 DEF NamesInv
<1> QED
  BY <1>4, <1>5, <1>6, <1>7, <1>9 DEF SplitInv

\* Every step keeps the invariant.
LEMMA SplitNext ==
  ASSUME SplitInv, [Next]_splitterVars
  PROVE  SplitInv'
<1>0. WrittenInv /\ FileInv /\ PositionInv /\ OutInv
  BY DEF SplitInv
<1>1. ASSUME NEW h \in Headers, Record(h) PROVE SplitInv'
  <2>1. WrittenInv' /\ FileInv' /\ PositionInv'
    BY <1>0, <1>1, RecordNext
  <2>2. OutInv' /\ Nothing' /\ NamesInv'
    <3>1. pc = "recording" /\ pc' = "recording" /\ UNCHANGED <<outVars, taken>>
      BY <1>1 DEF Record
    <3> QED
      BY <1>0, <3>1, RecordingNext
  <2> QED
    BY <2>1, <2>2 DEF SplitInv, Nothing
<1>2. ASSUME NEW lost \in 0 .. Len(file), NEW pad \in BOOLEAN, StartSplitter(lost, pad) PROVE SplitInv'
  <2>1. WrittenInv' /\ FileInv' /\ PositionInv'
    BY <1>0, <1>2, StartNext
  <2>2. OutInv' /\ Nothing' /\ NamesInv'
    <3>1. pc = "recording" /\ pc' = "loop" /\ UNCHANGED <<outVars, taken>>
      BY <1>2 DEF StartSplitter
    <3> QED
      BY <1>0, <3>1, RecordingNext
  <2> QED
    BY <2>1, <2>2 DEF SplitInv, Nothing
<1>3. CASE NextPacket \/ NamesFault \/ EndLoop
  BY <1>3, LoopNext
<1>4. CASE Skip
  BY <1>4, SkipNext
<1>5. CASE AssertFails \/ StringFault
  BY <1>5, FatalNext
<1>6. ASSUME NEW c \in 0 .. NumCores - 1, Continue(c) \/ SwitchTo(c) \/ OpenFor(c) PROVE SplitInv'
  BY <1>6, FileNext
<1>7. ASSUME NEW c \in 0 .. NumCores - 1, OpenFails(c) PROVE SplitInv'
  BY <1>7, OpenFailsNext
<1>8. CASE CloseAll
  BY <1>8, CloseNext
<1>9. CASE UNCHANGED splitterVars
  <2>1. /\ written' = written /\ file' = file /\ position' = position /\ pc' = pc /\ pkt' = pkt
        /\ currFile' = currFile /\ last_pid' = last_pid /\ pid_files' = pid_files
        /\ content' = content /\ index' = index /\ taken' = taken
    BY <1>9 DEF splitterVars, fileVars, outVars
  <2>2. /\ \A p : FiledFor(p)' = FiledFor(p)
        /\ Whole' = Whole /\ Opened' = Opened /\ Files' = Files
    BY <2>1 DEF FiledFor, Whole, EndOf, Opened, Files
  <2>3. WrittenInv' /\ FileInv'
    BY <1>0, <2>1 DEF WrittenInv, Numbered, FileInv
  <2>4. PositionInv'
    BY <1>0, <2>1, <2>2 DEF PositionInv
  <2>5. OutInv'
    BY <1>0, <2>1, <2>2 DEF OutInv, EachFiled
  <2>6. SamplesFiled' /\ SectionsUnbroken'
    BY <2>1, <2>2 DEF SplitInv, SamplesFiled, SectionsUnbroken
  <2>7. TailInv'
    BY <2>1, <2>2 DEF SplitInv, TailInv, InTail
  <2>8. NamesInv'
    BY <2>1, <2>2 DEF SplitInv, NamesInv, NamesRight, IndexRight
  <2> QED
    BY <2>3, <2>4, <2>5, <2>6, <2>7, <2>8 DEF SplitInv
<1> QED
  BY <1>1, <1>2, <1>3, <1>4, <1>5, <1>6, <1>7, <1>8, <1>9 DEF Next, Step

\* The invariant holds in every behaviour.
THEOREM SplitterInvariant == SplitterSpec => []SplitInv
<1>1. SplitterInit => SplitInv
  BY SplitInit
<1>2. SplitInv /\ [Next]_splitterVars => SplitInv'
  BY SplitNext
<1> QED
  BY <1>1, <1>2, PTL DEF SplitterSpec

\* Positions and names of places are in their ranges, no more files are open than may be, and
\* each core writes to the file of the process whose packet it saw last.
THEOREM SplitterTypes == SplitterSpec => []SplitterTypeOK
<1>1. SplitInv => SplitterTypeOK
  <2>1. SUFFICES ASSUME SplitInv PROVE SplitterTypeOK
    OBVIOUS
  <2>2. WrittenInv /\ PositionInv /\ OutInv
    BY <2>1 DEF SplitInv
  <2>3. Opened \subseteq Files /\ Cardinality(Opened) <= MaxFiles
    <3>1. Cardinality({}) = 0 /\ 0 <= MaxFiles
      BY FS_EmptySet, SplitterAssumption
    <3>2. CASE pc = "done"
      <4>1. Opened = {}
        BY <2>2, <3>2 DEF OutInv
      <4> QED
        BY <3>1, <4>1
    <3>3. CASE pc # "done"
      BY <2>2, <3>3 DEF OutInv
    <3> QED
      BY <3>2, <3>3
  <2>4. \A c \in DOMAIN currFile : currFile[c] = last_pid[c] /\ currFile[c] \in Files \cup {NULL}
    BY <2>2 DEF OutInv
  <2>5. position \in 0 .. Len(file) + 2 /\ taken \in 0 .. Len(written)
    BY <2>2 DEF PositionInv
  <2> QED
    BY <2>2, <2>3, <2>4, <2>5 DEF SplitterTypeOK, OutInv, Files, States
<1> QED
  BY <1>1, SplitterInvariant, PTL

\* Every file has the samples of its process, each once and in order.
THEOREM SamplesInOrder == SplitterSpec => []SamplesFiled
<1>1. SplitInv => SamplesFiled
  BY DEF SplitInv
<1> QED
  BY <1>1, SplitterInvariant, PTL

\* A core's samples without a row of zeros between them are of one stay with the process.
THEOREM SectionsOfOneStay == SplitterSpec => []SectionsUnbroken
<1>1. SplitInv => SectionsUnbroken
  BY DEF SplitInv
<1> QED
  BY <1>1, SplitterInvariant, PTL

\* No complete packet is left out, and the index names every file after its last packet.
THEOREM IndexOfAll == SplitterSpec => []IndexComplete
<1>1. SplitInv => IndexComplete
  <2>1. SUFFICES ASSUME SplitInv, pc = "done"
                 PROVE  /\ Whole \subseteq 1 .. taken /\ 1 .. taken \subseteq Usable /\ IndexRight
    BY DEF IndexComplete, IndexRight, NamesRight, Files
  <2>2. Whole \subseteq 1 .. taken /\ IndexRight
    BY <2>1 DEF SplitInv, PositionInv, NamesInv
  <2>3. ASSUME NEW k \in 1 .. taken PROVE k \in Usable
    <3>1. written \in Seq(PacketType) /\ k \in 1 .. Len(written)
      BY <2>1 DEF SplitInv, WrittenInv, PositionInv
    <3>2. Ends(written)[k - 1] + NamesAt(written[k]) <= Len(file)
      BY <2>1 DEF SplitInv, PositionInv
    <3>3. EndOf(k) - Len(written[k].cmdline) - Len(written[k].exe) - 2 <= Len(file)
      BY <3>1, <3>2, EndOfIs
    <3> QED
      BY <3>1, <3>3 DEF Usable
  <2> QED
    BY <2>2, <2>3
<1> QED
  BY <1>1, SplitterInvariant, PTL
=============================================================================
