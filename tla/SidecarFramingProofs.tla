------------------------- MODULE SidecarFramingProofs -------------------------
(* Proofs about module SidecarFraming, for every length of the import blobs, *)
(* every set of pools and every number of messages.                          *)
EXTENDS SidecarFraming, SequenceTheorems, WellFoundedInduction, TLAPS

-----------------------------------------------------------------------------
(* The inductive invariants.                                                 *)

\* The unit after a message whose header begins with unit u at place i.
End(u, i) == i + HeaderLen(u.kind) + u.ext

\* A header is whole, and is followed by the units of its blob as far as they
\* have been sent, and then by another header.
HeaderAt(s, i) ==
  /\ s[i].kind \in {"fence", "pool"} /\ s[i].tag = s[i].kind
  /\ s[i].kind = "fence" => s[i].ext = 0
  /\ i + HeaderLen(s[i].kind) =< Len(s) + 1
  /\ \A j \in i..(i + HeaderLen(s[i].kind) - 1) :
       /\ s[j].pos = 1 <=> j = i
       /\ s[j].last <=> j = i + HeaderLen(s[i].kind) - 1
MessageAt(s, i) ==
  /\ HeaderAt(s, i)
  /\ \A j \in (i + HeaderLen(s[i].kind))..(End(s[i], i) - 1) : j =< Len(s) => s[j].msg = s[i].msg
  /\ End(s[i], i) =< Len(s) => s[End(s[i], i)].pos = 1
Framed(s) == \A i \in 1..Len(s) : s[i].pos = 1 => MessageAt(s, i)
StreamInv == Framed(stream)

\* The message of s that has not been sent to its end, if any, is number m, and k
\* units of it are still to be sent.
Owed(s, k, m) ==
  \A i \in 1..Len(s) : s[i].pos = 1 /\ End(s[i], i) > Len(s) =>
    /\ k = End(s[i], i) - 1 - Len(s)
    /\ k > 0 => s[i].msg = m

\* While the socket is open, that is the one the server is sending.
SendInv == link = "open" => Owed(stream, sending, sent)

\* The first left units of s are of message msg, as far as they have been sent,
\* and a header comes next.
InHand(s, left, msg) ==
  /\ \A j \in 1..left : j =< Len(s) => s[j].msg = msg
  /\ left < Len(s) => s[left + 1].pos = 1

\* What is missing of them is what the server is sending.
OwedInHand(s, left, msg, k, m) ==
  left >= Len(s) => k = left - Len(s) /\ (k > 0 => msg = m)

\* Until a handshake is cut short, the stream begins with what is left of the
\* message in hand.
FrontInv ==
  ~cut =>
    /\ InHand(stream, hand.left, hand.msg)
    /\ link = "open" => OwedInHand(stream, hand.left, hand.msg, sending, sent)

\* Where in its calls the consumer has a message in hand, and what is on the
\* socket then: the first message after connect() is the pool.
PhaseInv ==
  /\ pc \notin {"blob", "skip"} => hand = NoMsg
  /\ pc \in {"hello", "blob"} => ~cut
  /\ link \in {"none", "pending"} => stream = <<>> /\ pc \notin {"blob", "skip"}
  /\ pc = "hello" => IF stream = <<>> THEN link # "open" ELSE stream[1].tag = "pool"

\* The pool in hand is of one message.
HandInv == pc = "blob" => hand.fds \cup hand.blob \subseteq {hand.msg}

IInv == TypeOK /\ StreamInv /\ SendInv /\ FrontInv /\ PhaseInv /\ HandInv
        /\ FencesAreTrue /\ AttachedWhole

-----------------------------------------------------------------------------
(* Numbers and sequences.                                                    *)

LEMMA LessThanWellFounded == IsWellFoundedOn({ss \in Nat \X Nat : ss[1] < ss[2]}, Nat)
PROOF
  BY NatLessThanWellFounded DEF OpToRel

LEMMA MinOfNaturals ==
  ASSUME NEW T \in SUBSET Nat, T # {}
  PROVE  Min(T) \in T /\ \A y \in T : Min(T) =< y
PROOF
<1> DEFINE R == {ss \in Nat \X Nat : ss[1] < ss[2]}
<1>1. IsWellFoundedOn(R, Nat)
  BY LessThanWellFounded
<1>2. PICK x \in T : \A y \in T : ~(<<y, x>> \in R)
  <2> HIDE DEF R
  <2>1. QED
    BY <1>1, WFMin
<1>3. ASSUME NEW y \in T PROVE x =< y
  <2>1. <<y, x>> \in Nat \X Nat /\ <<y, x>>[1] = y /\ <<y, x>>[2] = x
    OBVIOUS
  <2>2. ~(y < x)
    BY <1>2, <2>1
  <2>3. QED
    BY <2>2
<1>4. QED
  BY <1>3 DEF Min

LEMMA HeaderLens ==
  /\ HeaderLen("fence") = 2 /\ HeaderLen("pool") = 3
  /\ \A k : HeaderLen(k) \in {2, 3}
PROOF
  BY DEF HeaderLen

LEMMA UnitFields ==
  ASSUME NEW u \in Units
  PROVE  /\ u.msg \in Nat /\ u.ext \in Nat /\ u.pos \in Nat /\ u.tag \in Tags
         /\ HeaderLen(u.kind) \in {2, 3}
PROOF
  BY HeaderLens DEF Units

\* What Send() appends.
LEMMA HeaderIs ==
  ASSUME NEW kind \in {"fence", "pool"}, NEW m \in Nat, NEW ext \in Nat
  PROVE  /\ Header(kind, m, ext) \in Seq(Units)
         /\ Len(Header(kind, m, ext)) = HeaderLen(kind)
         /\ \A i \in 1..HeaderLen(kind) :
              Header(kind, m, ext)[i] =
                [msg |-> m, kind |-> kind, pos |-> i, last |-> i = HeaderLen(kind), ext |-> ext,
                 tag |-> IF i = 1 THEN kind ELSE "other"]
PROOF
<1> DEFINE u(i) == [msg |-> m, kind |-> kind, pos |-> i, last |-> i = HeaderLen(kind),
                    ext |-> ext, tag |-> IF i = 1 THEN kind ELSE "other"]
<1>1. HeaderLen(kind) \in Nat
  BY HeaderLens
<1>2. ASSUME NEW i \in 1..HeaderLen(kind) PROVE u(i) \in Units
  <2>1. i \in Nat /\ (i = HeaderLen(kind)) \in BOOLEAN /\ (IF i = 1 THEN kind ELSE "other") \in Tags
    BY <1>1 DEF Tags
  <2>2. QED
    BY <2>1 DEF Units
<1>3. Header(kind, m, ext) = [i \in 1..HeaderLen(kind) |-> u(i)]
  BY DEF Header
<1> HIDE DEF u
<1>4. [i \in 1..HeaderLen(kind) |-> u(i)] \in Seq(Units)
  BY <1>1, <1>2, IsASeq
<1>5. Len([i \in 1..HeaderLen(kind) |-> u(i)]) = HeaderLen(kind)
  BY <1>1, <1>4, LenProperties
<1>6. QED
  BY <1>3, <1>4, <1>5 DEF u

LEMMA BlobUnitIs ==
  ASSUME NEW m \in Nat, NEW t \in Tags
  PROVE  /\ BlobUnit(m, t) \in Units
         /\ BlobUnit(m, t).pos = 0 /\ BlobUnit(m, t).msg = m
PROOF
  BY DEF BlobUnit, Units

LEMMA Joined ==
  ASSUME NEW s \in Seq(Units), NEW h \in Seq(Units)
  PROVE  /\ s \o h \in Seq(Units) /\ Len(s \o h) = Len(s) + Len(h)
         /\ \A i \in 1..Len(s) : (s \o h)[i] = s[i]
         /\ \A i \in 1..Len(h) : (s \o h)[Len(s) + i] = h[i]
PROOF
  BY ConcatProperties

LEMMA Appended ==
  ASSUME NEW s \in Seq(Units), NEW u \in Units
  PROVE  /\ Append(s, u) \in Seq(Units) /\ Len(Append(s, u)) = Len(s) + 1
         /\ \A i \in 1..Len(s) : Append(s, u)[i] = s[i]
         /\ Append(s, u)[Len(s) + 1] = u
PROOF
  BY AppendProperties

LEMMA Dropped ==
  ASSUME NEW s \in Seq(Units), NEW n \in 0..Len(s)
  PROVE  /\ SubSeq(s, n + 1, Len(s)) \in Seq(Units)
         /\ Len(SubSeq(s, n + 1, Len(s))) = Len(s) - n
         /\ \A i \in 1..(Len(s) - n) : SubSeq(s, n + 1, Len(s))[i] = s[i + n]
PROOF
  OBVIOUS

LEMMA TailIs ==
  ASSUME NEW s \in Seq(Units), s # <<>>
  PROVE  Tail(s) = SubSeq(s, 1 + 1, Len(s)) /\ Len(s) >= 1 /\ Head(s) = s[1]
PROOF
  OBVIOUS

-----------------------------------------------------------------------------
(* Framed streams.                                                           *)

LEMMA EndIs ==
  ASSUME NEW s \in Seq(Units), NEW i \in 1..Len(s)
  PROVE  /\ s[i] \in Units /\ End(s[i], i) \in Nat
         /\ HeaderLen(s[i].kind) \in {2, 3} /\ s[i].ext \in Nat
PROOF
<1>1. s[i] \in Units
  OBVIOUS
<1>2. HeaderLen(s[i].kind) \in {2, 3} /\ s[i].ext \in Nat
  BY <1>1, UnitFields
<1>3. i + HeaderLen(s[i].kind) + s[i].ext \in Nat
  BY <1>2
<1>4. QED
  BY <1>1, <1>2, <1>3 DEF End

\* A message that is whole stays so when more comes behind it, if what comes next
\* to its end is its blob or a header.
LEMMA MessageStays ==
  ASSUME NEW s \in Seq(Units), NEW t \in Seq(Units), Len(t) >= Len(s),
         \A j \in 1..Len(s) : t[j] = s[j],
         NEW i \in 1..Len(s), MessageAt(s, i),
         \A j \in (Len(s) + 1)..Len(t) : j < End(s[i], i) => t[j].msg = s[i].msg,
         End(s[i], i) > Len(s) /\ End(s[i], i) =< Len(t) => t[End(s[i], i)].pos = 1
  PROVE  MessageAt(t, i) /\ t[i] = s[i]
PROOF
<1> DEFINE n == HeaderLen(s[i].kind)
           e == End(s[i], i)
<1>1. t[i] = s[i] /\ s[i] \in Units
  OBVIOUS
<1>2. n \in {2, 3} /\ s[i].ext \in Nat /\ e = i + n + s[i].ext
  BY <1>1, UnitFields DEF End
<1>3. Len(s) \in Nat /\ Len(t) \in Nat /\ i \in Nat /\ i >= 1 /\ e \in Nat
  BY <1>2
<1>4. HeaderAt(s, i)
  BY DEF MessageAt
<1>5. i + n =< Len(s) + 1
  BY <1>4 DEF HeaderAt
<1>6. \A j \in i..(i + n - 1) : t[j] = s[j]
  BY <1>2, <1>3, <1>5
<1>7. HeaderAt(t, i)
  <2>1. i + n =< Len(t) + 1
    BY <1>2, <1>3, <1>5
  <2>2. QED
    BY <1>1, <1>4, <1>6, <2>1 DEF HeaderAt
<1>8. ASSUME NEW j \in (i + n)..(e - 1), j =< Len(t) PROVE t[j].msg = s[i].msg
  <2>1. j \in Nat /\ j >= 1 /\ j < e
    BY <1>2, <1>3
  <2>2. CASE j =< Len(s)
    <3>1. j \in 1..Len(s)
      BY <1>3, <2>1, <2>2
    <3>2. s[j].msg = s[i].msg
      BY <2>2 DEF MessageAt
    <3>3. QED
      BY <3>1, <3>2
  <2>3. CASE j > Len(s)
    <3>1. j \in (Len(s) + 1)..Len(t)
      BY <1>3, <1>8, <2>1, <2>3
    <3>2. QED
      BY <2>1, <3>1
  <2>4. QED
    BY <1>3, <2>1, <2>2, <2>3
<1>9. ASSUME e =< Len(t) PROVE t[e].pos = 1
  <2>1. CASE e =< Len(s)
    <3>1. e \in 1..Len(s)
      BY <1>2, <1>3, <2>1
    <3>2. s[e].pos = 1
      BY <2>1 DEF MessageAt
    <3>3. QED
      BY <3>1, <3>2
  <2>2. CASE e > Len(s)
    BY <1>9, <2>2
  <2>3. QED
    BY <1>3, <2>1, <2>2
<1>10. QED
  BY <1>1, <1>7, <1>8, <1>9 DEF MessageAt

LEMMA NothingOwed ==
  ASSUME NEW s \in Seq(Units), NEW m, Owed(s, 0, m)
  PROVE  \A i \in 1..Len(s) : s[i].pos = 1 => End(s[i], i) =< Len(s) + 1
PROOF
<1>1. SUFFICES ASSUME NEW i \in 1..Len(s), s[i].pos = 1
               PROVE  End(s[i], i) =< Len(s) + 1
  OBVIOUS
<1>2. End(s[i], i) \in Nat /\ Len(s) \in Nat
  BY EndIs
<1>3. End(s[i], i) > Len(s) => 0 = End(s[i], i) - 1 - Len(s)
  BY <1>1 DEF Owed
<1>4. QED
  BY <1>2, <1>3

\* What is left of a framed stream is framed, wherever it is cut.
LEMMA FrontDropped ==
  ASSUME NEW s \in Seq(Units), Framed(s), NEW n \in 0..Len(s)
  PROVE  LET t == SubSeq(s, n + 1, Len(s)) IN
         /\ t \in Seq(Units) /\ Len(t) = Len(s) - n /\ Framed(t)
         /\ \A i \in 1..Len(t) : t[i] = s[i + n] /\ End(t[i], i) = End(s[i + n], i + n) - n
PROOF
<1> DEFINE t == SubSeq(s, n + 1, Len(s))
<1>1. t \in Seq(Units) /\ Len(t) = Len(s) - n /\ \A i \in 1..Len(t) : t[i] = s[i + n]
  BY Dropped
<1>2. Len(s) \in Nat /\ Len(t) \in Nat
  OBVIOUS
<1> HIDE DEF t
<1>3. ASSUME NEW i \in 1..Len(t)
      PROVE  t[i] = s[i + n] /\ End(t[i], i) = End(s[i + n], i + n) - n
  <2>1. PICK u \in Units : u = t[i]
    BY <1>1, EndIs
  <2>2. u = s[i + n]
    BY <1>1, <2>1
  <2>3. PICK h \in Nat, x \in Nat : h = HeaderLen(u.kind) /\ x = u.ext
    BY UnitFields
  <2>4. End(u, i) = i + h + x /\ End(u, i + n) = i + n + h + x
    BY <2>3 DEF End
  <2>5. End(u, i) = End(u, i + n) - n
    BY <2>4
  <2>6. QED
    BY <2>1, <2>2, <2>5
<1>4. ASSUME NEW i \in 1..Len(t), t[i].pos = 1 PROVE MessageAt(t, i)
  <2>1. PICK k \in 1..Len(s) : k = i + n
    BY <1>1, <1>2
  <2>2. t[i] = s[k] /\ MessageAt(s, k)
    BY <1>1, <1>4, <2>1 DEF Framed
  <2>3. PICK h \in {2, 3}, x \in Nat : h = HeaderLen(t[i].kind) /\ x = t[i].ext
    BY <1>1, EndIs
  <2>4. End(t[i], i) = i + h + x /\ End(s[k], k) = k + h + x
    BY <2>2, <2>3 DEF End
  <2>5. HeaderAt(s, k)
    BY <2>2 DEF MessageAt
  <2>6. k + h =< Len(s) + 1
    BY <2>2, <2>3, <2>5 DEF HeaderAt
  <2>7. i + h =< Len(t) + 1
    BY <1>1, <1>2, <2>1, <2>6
  <2>8. ASSUME NEW j \in i..(i + h - 1)
        PROVE  (t[j].pos = 1 <=> j = i) /\ (t[j].last <=> j = i + h - 1)
    <3>1. j \in 1..Len(t)
      BY <1>2, <2>7
    <3>2. PICK l \in k..(k + h - 1) : l = j + n
      BY <2>1
    <3>3. t[j] = s[l]
      BY <1>1, <3>1, <3>2
    <3>4. (s[l].pos = 1 <=> l = k) /\ (s[l].last <=> l = k + h - 1)
      BY <2>2, <2>3, <2>5 DEF HeaderAt
    <3>5. (l = k <=> j = i) /\ (l = k + h - 1 <=> j = i + h - 1)
      BY <2>1, <3>2
    <3>6. QED
      BY <3>3, <3>4, <3>5
  <2>9. HeaderAt(t, i)
    BY <2>2, <2>3, <2>5, <2>7, <2>8 DEF HeaderAt
  <2>13. \A j \in (k + h)..(k + h + x - 1) : j =< Len(s) => s[j].msg = s[k].msg
    <3>1. h = HeaderLen(s[k].kind) /\ End(s[k], k) = k + h + x
      BY <2>2, <2>3, <2>4
    <3>2. \A j \in (k + HeaderLen(s[k].kind))..(End(s[k], k) - 1) :
             j =< Len(s) => s[j].msg = s[k].msg
      BY <2>2 DEF MessageAt
    <3>3. QED
      BY <3>1, <3>2
  <2>10. ASSUME NEW j \in (i + h)..(i + h + x - 1), j =< Len(t) PROVE t[j].msg = t[i].msg
    <3>1. j \in 1..Len(t)
      BY <1>2, <2>10
    <3>2. PICK l \in (k + h)..(k + h + x - 1) : l = j + n
      BY <2>1
    <3>3. t[j] = s[l] /\ l =< Len(s)
      BY <1>1, <1>2, <3>1, <3>2
    <3>4. s[l].msg = s[k].msg
      BY <2>13, <3>3
    <3>5. QED
      BY <2>2, <3>3, <3>4
  <2>11. ASSUME i + h + x =< Len(t) PROVE t[i + h + x].pos = 1
    <3>1. i + h + x \in 1..Len(t)
      BY <1>2, <2>11
    <3>2. PICK l \in Nat : l = k + h + x
      BY <2>1
    <3>3. l = (i + h + x) + n /\ l =< Len(s)
      BY <1>1, <1>2, <2>1, <2>11, <3>2
    <3>4. t[i + h + x] = s[l]
      BY <1>1, <3>1, <3>3
    <3>5. s[l].pos = 1
      BY <2>2, <2>4, <3>2, <3>3 DEF MessageAt
    <3>6. QED
      BY <3>4, <3>5
  <2>12. \A j \in (i + HeaderLen(t[i].kind))..(End(t[i], i) - 1) :
           j =< Len(t) => t[j].msg = t[i].msg
    <3>1. \A j \in (i + h)..(i + h + x - 1) : j =< Len(t) => t[j].msg = t[i].msg
      BY <2>10
    <3>2. HeaderLen(t[i].kind) = h /\ End(t[i], i) = i + h + x
      BY <2>3, <2>4
    <3>3. QED
      BY <3>1, <3>2
  <2>14. End(t[i], i) =< Len(t) => t[End(t[i], i)].pos = 1
    BY <2>4, <2>11
  <2>15. QED
    BY <2>9, <2>12, <2>14 DEF MessageAt
<1>5. QED
  BY <1>1, <1>3, <1>4 DEF Framed, t

-----------------------------------------------------------------------------
(* What recvmsg() takes.                                                     *)

LEMMA TakenIs ==
  ASSUME TypeOK, NEW len \in Nat
  PROVE  Taken(len) \in 0..Len(stream)
PROOF
<1> DEFINE T == {len, Len(stream)} \cup {i \in 1..Len(stream) : stream[i].last}
<1>1. Len(stream) \in Nat
  BY DEF TypeOK
<1>2. T \in SUBSET Nat /\ T # {} /\ Len(stream) \in T
  BY <1>1
<1>3. Min(T) \in T /\ Min(T) =< Len(stream)
  <2> HIDE DEF T
  <2>1. QED
    BY <1>2, MinOfNaturals
<1>4. Taken(len) = Min(T)
  BY DEF Taken
<1>5. Min(T) \in Nat
  BY <1>2, <1>3
<1>6. QED
  <2> HIDE DEF T
  <2>1. QED
    BY <1>1, <1>3, <1>4, <1>5

\* A header at the front is received whole, and with it its own descriptors.
LEMMA HeaderReceived ==
  ASSUME TypeOK, StreamInv, stream # <<>>, stream[1].pos = 1,
         NEW n, n = HeaderLen(stream[1].kind)
  PROVE  /\ n \in 1..Len(stream) /\ Taken(n) = n /\ FdsIn(n) = {stream[1].msg}
         /\ HeaderAt(stream, 1) /\ MessageAt(stream, 1)
PROOF
<1>1. stream \in Seq(Units) /\ Len(stream) \in Nat /\ Len(stream) >= 1
  BY DEF TypeOK
<1>2. MessageAt(stream, 1) /\ HeaderAt(stream, 1) /\ n \in {2, 3}
  BY <1>1, HeaderLens DEF StreamInv, Framed, MessageAt
<1>3. n =< Len(stream)
  BY <1>1, <1>2 DEF HeaderAt
<1>4. \A j \in 1..n : (stream[j].pos = 1 <=> j = 1) /\ (stream[j].last <=> j = n)
  <2>1. 1..(1 + n - 1) = 1..n /\ 1 + n - 1 = n
    BY <1>2
  <2>2. QED
    BY <1>2, <2>1 DEF HeaderAt
<1> DEFINE T == {n, Len(stream)} \cup {i \in 1..Len(stream) : stream[i].last}
<1>5. n \in T /\ \A y \in T : n =< y
  BY <1>1, <1>2, <1>3, <1>4
<1>6. T \in SUBSET Nat
  BY <1>1, <1>2
<1>7. Min(T) = n
  <2> HIDE DEF T
  <2>1. Min(T) \in T /\ Min(T) =< n
    BY <1>5, <1>6, MinOfNaturals
  <2>2. n =< Min(T) /\ Min(T) \in Nat /\ n \in Nat
    BY <1>5, <1>6, <2>1
  <2>3. QED
    BY <2>1, <2>2
<1>8. Taken(n) = n
  BY <1>7 DEF Taken
<1>9. {j \in 1..n : stream[j].pos = 1} = {1}
  BY <1>2, <1>4
<1>10. FdsIn(n) = {stream[1].msg}
  BY <1>9 DEF FdsIn
<1>11. QED
  BY <1>1, <1>2, <1>3, <1>8, <1>10

LEMMA FdsAreNumbers ==
  ASSUME TypeOK, NEW n \in 0..Len(stream)
  PROVE  FdsIn(n) \subseteq Nat
PROOF
<1>1. stream \in Seq(Units) /\ Len(stream) \in Nat
  BY DEF TypeOK
<1>2. \A i \in 1..n : i \in 1..Len(stream)
  BY <1>1
<1>3. \A i \in 1..n : stream[i].msg \in Nat
  BY <1>1, <1>2, EndIs, UnitFields
<1>4. QED
  BY <1>3 DEF FdsIn

-----------------------------------------------------------------------------
(* What is owed to a stream, and what of it is in hand.                      *)

\* With nothing left to come it does not matter which message was in hand.
LEMMA NothingInHand ==
  ASSUME NEW s \in Seq(Units), NEW a, NEW b
  PROVE  /\ InHand(s, 0, a) => InHand(s, 0, b)
         /\ \A k, m : OwedInHand(s, 0, a, k, m) => OwedInHand(s, 0, b, k, m)
PROOF
<1>1. Len(s) \in Nat
  OBVIOUS
<1>2. InHand(s, 0, a) => InHand(s, 0, b)
  BY DEF InHand
<1>3. ASSUME NEW k, NEW m, OwedInHand(s, 0, a, k, m), 0 >= Len(s)
      PROVE  k = 0 - Len(s) /\ ~(k > 0)
  <2>1. k = 0 - Len(s)
    BY <1>3 DEF OwedInHand
  <2>2. k = 0
    BY <1>1, <1>3, <2>1
  <2>3. QED
    BY <2>1, <2>2
<1>4. QED
  BY <1>2, <1>3 DEF OwedInHand

LEMMA EmptyStream ==
  ASSUME NEW s, s = <<>>, NEW m
  PROVE  /\ s \in Seq(Units) /\ Framed(s) /\ Owed(s, 0, m)
         /\ \A a : InHand(s, 0, a) /\ OwedInHand(s, 0, a, 0, m)
PROOF
<1>1. Len(s) = 0 /\ s \in Seq(Units) /\ 1..Len(s) = {}
  OBVIOUS
<1>2. Framed(s) /\ Owed(s, 0, m)
  BY <1>1 DEF Framed, Owed
<1>3. ASSUME NEW a PROVE InHand(s, 0, a) /\ OwedInHand(s, 0, a, 0, m)
  <2>1. InHand(s, 0, a)
    BY <1>1 DEF InHand
  <2>4. OwedInHand(s, 0, a, 0, m)
    <3>1. PICK n \in Nat : n = Len(s)
      BY <1>1
    <3>2. 0 = 0 - n /\ ~(0 > 0)
      BY <1>1, <3>1
    <3>3. 0 = 0 - Len(s) /\ ~(0 > 0)
      BY <3>1, <3>2, Zenon
    <3>4. QED
      BY <3>3, Zenon DEF OwedInHand
  <2>5. QED
    BY <2>1, <2>4
<1>4. QED
  BY <1>1, <1>2, <1>3

\* While k units of message m are owed to s, it may become t, with k2 units of m2 owed.
GrowsTo(s, k, m, t, k2, m2) ==
  /\ t \in Seq(Units) /\ t # <<>> /\ Framed(t) /\ Owed(t, k2, m2)
  /\ s # <<>> => t[1] = s[1]
  /\ \A left \in Nat : \A msg : InHand(s, left, msg) /\ OwedInHand(s, left, msg, k, m) =>
                              InHand(t, left, msg) /\ OwedInHand(t, left, msg, k2, m2)

LEMMA SentHeader ==
  ASSUME NEW s \in Seq(Units), Framed(s), NEW kind \in {"fence", "pool"}, NEW m \in Nat,
         NEW ext \in Nat, kind = "fence" => ext = 0, NEW old, Owed(s, 0, old)
  PROVE  /\ GrowsTo(s, 0, old, s \o Header(kind, m, ext), ext, m)
         /\ s = <<>> => (s \o Header(kind, m, ext))[1].tag = kind
PROOF
<1> DEFINE t == s \o Header(kind, m, ext)
<1>1. /\ t \in Seq(Units) /\ Len(t) = Len(s) + HeaderLen(kind) /\ Framed(t)
      /\ \A i \in 1..Len(s) : t[i] = s[i]
      /\ t[Len(s) + 1].pos = 1 /\ t[Len(s) + 1].msg = m /\ t[Len(s) + 1].tag = kind
      /\ End(t[Len(s) + 1], Len(s) + 1) = Len(t) + ext + 1
      /\ \A i \in 1..Len(t) : t[i].pos = 1 => i \in 1..(Len(s) + 1)
  <2> DEFINE n == HeaderLen(kind)
             h == Header(kind, m, ext)
             k == Len(s) + 1
  <2>1. n \in {2, 3} /\ Len(s) \in Nat
    BY HeaderLens
  <2>2. h \in Seq(Units) /\ Len(h) = n
    BY HeaderIs
  <2>3. t \in Seq(Units) /\ Len(t) = Len(s) + n /\ \A i \in 1..Len(s) : t[i] = s[i]
    BY <2>2, Joined
  <2>4. ASSUME NEW i \in 1..n
        PROVE  t[Len(s) + i] = [msg |-> m, kind |-> kind, pos |-> i, last |-> i = n, ext |-> ext,
                                tag |-> IF i = 1 THEN kind ELSE "other"]
    <3>1. t[Len(s) + i] = h[i]
      BY <2>2, Joined
    <3>2. h[i] = [msg |-> m, kind |-> kind, pos |-> i, last |-> i = n, ext |-> ext,
                  tag |-> IF i = 1 THEN kind ELSE "other"]
      BY HeaderIs
    <3>3. QED
      BY <3>1, <3>2
  <2>14. ASSUME NEW i \in 1..n
         PROVE  /\ t[Len(s) + i].msg = m /\ t[Len(s) + i].kind = kind /\ t[Len(s) + i].ext = ext
                /\ t[Len(s) + i].pos = i /\ (t[Len(s) + i].last <=> i = n)
                /\ i = 1 => t[Len(s) + i].tag = kind
    <3>1. PICK x : x = t[Len(s) + i]
      OBVIOUS
    <3>2. x = [msg |-> m, kind |-> kind, pos |-> i, last |-> i = n, ext |-> ext,
               tag |-> IF i = 1 THEN kind ELSE "other"]
      BY <2>4, <3>1
    <3> HIDE DEF n
    <3>3. x.msg = m /\ x.kind = kind /\ x.ext = ext /\ x.pos = i
      BY <3>2
    <3>4. x.last <=> i = n
      BY <3>2
    <3>5. i = 1 => x.tag = kind
      BY <3>2
    <3>6. QED
      BY <3>1, <3>3, <3>4, <3>5
  <2> HIDE DEF n, h
  <2>5. /\ t[k].msg = m /\ t[k].kind = kind /\ t[k].pos = 1 /\ t[k].ext = ext /\ t[k].tag = kind
    <3>1. 1 \in 1..n /\ k = Len(s) + 1
      BY <2>1
    <3>2. QED
      BY <2>14, <3>1
  <2>6. End(t[k], k) = Len(t) + ext + 1
    <3>1. End(t[k], k) = k + n + ext
      BY <2>5 DEF End, n
    <3>2. QED
      BY <2>1, <2>3, <3>1
  <2>7. ASSUME NEW j \in k..(k + n - 1)
        PROVE  (t[j].pos = 1 <=> j = k) /\ (t[j].last <=> j = k + n - 1)
    <3>1. j - Len(s) \in 1..n /\ Len(s) + (j - Len(s)) = j
      BY <2>1
    <3>2. PICK i \in 1..n : Len(s) + i = j
      BY <3>1
    <3>3. t[j].pos = i /\ (t[j].last <=> i = n)
      BY <2>14, <3>2
    <3>4. (i = 1 <=> j = k) /\ (i = n <=> j = k + n - 1)
      BY <2>1, <3>2
    <3>5. QED
      BY <3>3, <3>4
  <2>8. HeaderAt(t, k)
    <3>1. k + n =< Len(t) + 1
      BY <2>1, <2>3
    <3>2. QED
      BY <2>5, <2>7, <3>1 DEF HeaderAt, n
  <2>9. MessageAt(t, k)
    <3>1. ASSUME NEW j \in (k + HeaderLen(t[k].kind))..(End(t[k], k) - 1), j =< Len(t)
          PROVE  FALSE
      BY <2>1, <2>3, <2>5, <3>1 DEF n
    <3>2. ~(End(t[k], k) =< Len(t))
      BY <2>3, <2>1, <2>6
    <3>3. QED
      BY <2>8, <3>1, <3>2 DEF MessageAt
  <2>10. ASSUME NEW i \in 1..Len(t), t[i].pos = 1 PROVE i \in 1..k
    <3>1. CASE i =< Len(s)
      BY <2>1, <3>1
    <3>2. CASE i > Len(s)
      <4>1. i \in k..(k + n - 1)
        BY <2>1, <2>3, <3>2
      <4>2. i = k
        BY <2>7, <2>10, <4>1
      <4>3. QED
        BY <2>1, <4>2
    <3>3. QED
      BY <2>1, <3>1, <3>2
  <2>11. ASSUME NEW i \in 1..Len(s), s[i].pos = 1 PROVE MessageAt(t, i)
    <3>1. MessageAt(s, i) /\ End(s[i], i) =< Len(s) + 1
      BY <2>11, NothingOwed DEF Framed
    <3>2. s[i] \in Units /\ End(s[i], i) \in Nat
      BY EndIs
    <3>4. \A j \in (Len(s) + 1)..Len(t) : ~(j < End(s[i], i))
      BY <2>1, <3>1, <3>2
    <3>5. End(s[i], i) > Len(s) => End(s[i], i) = k
      BY <2>1, <3>1, <3>2
    <3>6. Len(t) >= Len(s)
      BY <2>1, <2>3
    <3>7. QED
      BY <2>3, <2>5, <3>1, <3>4, <3>5, <3>6, MessageStays
  <2>12. Framed(t)
    <3>1. SUFFICES ASSUME NEW i \in 1..Len(t), t[i].pos = 1
                   PROVE  MessageAt(t, i)
      BY DEF Framed
    <3>2. CASE i = k
      BY <2>9, <3>2
    <3>3. CASE i # k
      <4>1. i \in 1..Len(s)
        BY <2>1, <2>10, <3>1, <3>3
      <4>2. QED
        BY <2>3, <2>11, <3>1, <4>1
    <3>4. QED
      BY <3>2, <3>3
  <2>13. QED
    BY <2>3, <2>5, <2>6, <2>10, <2>12 DEF n
<1>2. Len(s) \in Nat /\ HeaderLen(kind) \in {2, 3} /\ Len(t) \in Nat
  BY <1>1, HeaderLens
<1>3. t # <<>>
  BY <1>1, <1>2
<1>4. Owed(t, ext, m)
  <2>1. SUFFICES ASSUME NEW i \in 1..Len(t), t[i].pos = 1, End(t[i], i) > Len(t)
                 PROVE  ext = End(t[i], i) - 1 - Len(t) /\ t[i].msg = m
    BY DEF Owed
  <2>2. CASE i = Len(s) + 1
    BY <1>1, <1>2, <2>2
  <2>3. CASE i # Len(s) + 1
    <3>1. i \in 1..Len(s)
      BY <1>1, <1>2, <2>1, <2>3
    <3>2. t[i] = s[i]
      BY <1>1, <3>1
    <3>3. End(s[i], i) =< Len(s) + 1 /\ End(s[i], i) \in Nat
      BY <2>1, <3>1, <3>2, NothingOwed, EndIs
    <3>4. QED
      BY <1>1, <1>2, <2>1, <3>2, <3>3
  <2>4. QED
    BY <2>2, <2>3
<1>5. IF s = <<>> THEN t[1].tag = kind ELSE t[1] = s[1]
  <2>1. CASE Len(s) = 0
    <3>1. s = <<>> /\ Len(s) + 1 = 1
      BY <2>1
    <3>2. QED
      BY <1>1, <3>1
  <2>2. CASE Len(s) # 0
    BY <1>1, <1>2, <2>2
  <2>3. QED
    BY <2>1, <2>2
<1>6. ASSUME NEW left \in Nat, NEW msg, InHand(s, left, msg), OwedInHand(s, left, msg, 0, old)
      PROVE  InHand(t, left, msg) /\ OwedInHand(t, left, msg, ext, m)
  <2>1. left =< Len(s)
    BY <1>2, <1>6 DEF OwedInHand
  <2>2. \A j \in 1..left : j =< Len(t) => t[j].msg = msg
    BY <1>1, <1>2, <1>6, <2>1 DEF InHand
  <2>3. t[left + 1].pos = 1
    <3>1. CASE left = Len(s)
      BY <1>1, <3>1
    <3>2. CASE left < Len(s)
      <4>1. left + 1 \in 1..Len(s) /\ s[left + 1].pos = 1
        BY <1>2, <1>6, <3>2 DEF InHand
      <4>2. QED
        BY <1>1, <4>1
    <3>3. left = Len(s) \/ left < Len(s)
      BY <1>2, <2>1
    <3>4. QED
      BY <3>1, <3>2, <3>3
  <2>4. ~(left >= Len(t))
    BY <1>1, <1>2, <2>1
  <2>5. QED
    BY <2>2, <2>3, <2>4 DEF InHand, OwedInHand
<1>7. QED
  BY <1>1, <1>3, <1>4, <1>5, <1>6 DEF GrowsTo

LEMMA SentBlob ==
  ASSUME NEW s \in Seq(Units), Framed(s), NEW m \in Nat, NEW tag \in Tags,
         NEW k \in Nat \ {0}, Owed(s, k, m)
  PROVE  GrowsTo(s, k, m, Append(s, BlobUnit(m, tag)), k - 1, m)
PROOF
<1> DEFINE t == Append(s, BlobUnit(m, tag))
<1>1. ASSUME NEW i \in 1..Len(s), s[i].pos = 1, End(s[i], i) > Len(s)
      PROVE  k = End(s[i], i) - 1 - Len(s) /\ End(s[i], i) > Len(s) + 1 /\ s[i].msg = m
  <2>1. k = End(s[i], i) - 1 - Len(s) /\ (k > 0 => s[i].msg = m)
    BY <1>1 DEF Owed
  <2>2. End(s[i], i) \in Nat /\ Len(s) \in Nat
    BY EndIs
  <2>3. QED
    BY <2>1, <2>2
<1>2. /\ t \in Seq(Units) /\ Len(t) = Len(s) + 1 /\ Framed(t)
      /\ \A i \in 1..Len(s) : t[i] = s[i]
      /\ t[Len(s) + 1].pos = 0 /\ t[Len(s) + 1].msg = m
  <2>7. ASSUME NEW i \in 1..Len(s), s[i].pos = 1, End(s[i], i) > Len(s)
        PROVE  k = End(s[i], i) - 1 - Len(s) /\ End(s[i], i) > Len(s) + 1 /\ s[i].msg = m
    <3>1. k = End(s[i], i) - 1 - Len(s) /\ (k > 0 => s[i].msg = m)
      BY <2>7 DEF Owed
    <3>2. End(s[i], i) \in Nat /\ Len(s) \in Nat
      BY EndIs
    <3>3. QED
      BY <3>1, <3>2
  <2>1. BlobUnit(m, tag) \in Units /\ BlobUnit(m, tag).pos = 0 /\ BlobUnit(m, tag).msg = m
    BY BlobUnitIs
  <2>2. /\ t \in Seq(Units) /\ Len(t) = Len(s) + 1 /\ \A i \in 1..Len(s) : t[i] = s[i]
        /\ t[Len(s) + 1] = BlobUnit(m, tag)
    BY <2>1, Appended
  <2>3. t[Len(s) + 1].pos = 0 /\ t[Len(s) + 1].msg = m /\ Len(s) \in Nat
    BY <2>1, <2>2
  <2>4. ASSUME NEW i \in 1..Len(s), s[i].pos = 1 PROVE MessageAt(t, i)
    <3>1. MessageAt(s, i)
      BY <2>4 DEF Framed
    <3>2. s[i] \in Units /\ End(s[i], i) \in Nat
      BY EndIs
    <3>4. ASSUME NEW j \in (Len(s) + 1)..Len(t), j < End(s[i], i) PROVE t[j].msg = s[i].msg
      <4>1. j = Len(s) + 1 /\ End(s[i], i) > Len(s)
        BY <2>2, <2>3, <3>2, <3>4
      <4>2. QED
        BY <2>3, <2>4, <2>7, <4>1
    <3>5. ~(End(s[i], i) > Len(s) /\ End(s[i], i) =< Len(t))
      BY <2>2, <2>3, <2>4, <2>7, <3>2
    <3>6. Len(t) >= Len(s)
      BY <2>2, <2>3
    <3>7. \A j \in 1..Len(s) : t[j] = s[j]
      BY <2>2
    <3>8. QED
      BY <2>2, <3>1, <3>4, <3>5, <3>6, <3>7, MessageStays
  <2>5. Framed(t)
    <3>1. SUFFICES ASSUME NEW i \in 1..Len(t), t[i].pos = 1
                   PROVE  MessageAt(t, i)
      BY DEF Framed
    <3>2. i # Len(s) + 1
      BY <2>3, <3>1
    <3>3. i \in 1..Len(s)
      BY <2>2, <2>3, <3>2
    <3>4. QED
      BY <2>2, <2>4, <3>1, <3>3
  <2>6. QED
    BY <2>2, <2>3, <2>5
<1>3. Len(s) \in Nat /\ Len(t) \in Nat /\ t # <<>>
  BY <1>2
<1>4. Owed(t, k - 1, m)
  <2>1. SUFFICES ASSUME NEW i \in 1..Len(t), t[i].pos = 1, End(t[i], i) > Len(t)
                 PROVE  k - 1 = End(t[i], i) - 1 - Len(t) /\ t[i].msg = m
    BY DEF Owed
  <2>2. i # Len(s) + 1
    BY <1>2, <2>1
  <2>3. i \in 1..Len(s)
    BY <1>2, <1>3, <2>2
  <2>4. t[i] = s[i] /\ End(s[i], i) \in Nat
    BY <1>2, <2>3, EndIs
  <2>5. End(s[i], i) > Len(s)
    BY <1>2, <1>3, <2>1, <2>4
  <2>6. k = End(s[i], i) - 1 - Len(s) /\ s[i].msg = m
    BY <1>1, <2>1, <2>3, <2>4, <2>5
  <2>7. QED
    BY <1>2, <1>3, <2>4, <2>6
<1>5. s # <<>> => t[1] = s[1]
  <2>1. s # <<>> => 1 \in 1..Len(s)
    OBVIOUS
  <2>2. QED
    BY <1>2, <2>1
<1>6. ASSUME NEW left \in Nat, NEW msg, InHand(s, left, msg), OwedInHand(s, left, msg, k, m)
      PROVE  InHand(t, left, msg) /\ OwedInHand(t, left, msg, k - 1, m)
  <2>1. CASE left < Len(s)
    <3>1. \A j \in 1..left : j =< Len(t) => t[j].msg = msg
      BY <1>2, <1>3, <1>6, <2>1 DEF InHand
    <3>2. t[left + 1].pos = 1
      BY <1>2, <1>3, <1>6, <2>1 DEF InHand
    <3>3. ~(left >= Len(t))
      BY <1>2, <1>3, <2>1
    <3>4. QED
      BY <3>1, <3>2, <3>3 DEF InHand, OwedInHand
  <2>2. CASE left >= Len(s)
    <3>1. k = left - Len(s) /\ msg = m
      BY <1>6, <2>2 DEF OwedInHand
    <3>2. left >= Len(t) /\ k - 1 = left - Len(t)
      BY <1>2, <1>3, <3>1
    <3>3. ASSUME NEW j \in 1..left, j =< Len(t) PROVE t[j].msg = msg
      <4>1. CASE j = Len(s) + 1
        BY <1>2, <3>1, <4>1
      <4>2. CASE j # Len(s) + 1
        <5>1. j \in 1..Len(s)
          BY <1>2, <1>3, <3>3, <4>2
        <5>2. QED
          BY <1>2, <1>6, <3>3, <5>1 DEF InHand
      <4>3. QED
        BY <4>1, <4>2
    <3>4. ~(left < Len(t))
      BY <1>3, <3>2
    <3>5. QED
      BY <3>1, <3>2, <3>3, <3>4 DEF InHand, OwedInHand
  <2>3. QED
    BY <1>3, <2>1, <2>2
<1>7. QED
  BY <1>2, <1>3, <1>4, <1>5, <1>6 DEF GrowsTo

\* When n units of s have been read, t is left.
ShrinksTo(s, n, t) ==
  /\ t \in Seq(Units) /\ Framed(t)
  /\ \A k, m : Owed(s, k, m) => Owed(t, k, m)
  /\ \A left \in Nat : \A msg : left >= n /\ InHand(s, left, msg) => InHand(t, left - n, msg)
  /\ \A left \in Nat : \A msg, k, m :
       left >= n /\ OwedInHand(s, left, msg, k, m) => OwedInHand(t, left - n, msg, k, m)

LEMMA UnitsRead ==
  ASSUME NEW s \in Seq(Units), Framed(s), NEW n \in 0..Len(s)
  PROVE  ShrinksTo(s, n, SubSeq(s, n + 1, Len(s)))
PROOF
<1> DEFINE t == SubSeq(s, n + 1, Len(s))
<1>1. /\ t \in Seq(Units) /\ Len(t) = Len(s) - n /\ Framed(t)
      /\ \A i \in 1..Len(t) : t[i] = s[i + n] /\ End(t[i], i) = End(s[i + n], i + n) - n
  BY FrontDropped
<1> HIDE DEF t
<1>2. Len(s) \in Nat /\ n \in Nat /\ Len(t) \in Nat
  BY <1>1
<1>3. ASSUME NEW k, NEW m, Owed(s, k, m) PROVE Owed(t, k, m)
  <2>1. SUFFICES ASSUME NEW i \in 1..Len(t), t[i].pos = 1, End(t[i], i) > Len(t)
                 PROVE  k = End(t[i], i) - 1 - Len(t) /\ (k > 0 => t[i].msg = m)
    BY DEF Owed
  <2>2. PICK l \in 1..Len(s) : l = i + n
    BY <1>1, <1>2
  <2>3. t[i] = s[l] /\ End(t[i], i) = End(s[l], l) - n /\ End(s[l], l) \in Nat
    BY <1>1, <2>2, EndIs
  <2>4. End(s[l], l) > Len(s) /\ s[l].pos = 1
    BY <1>1, <1>2, <2>1, <2>3
  <2>5. k = End(s[l], l) - 1 - Len(s) /\ (k > 0 => s[l].msg = m)
    BY <1>3, <2>4 DEF Owed
  <2>6. End(s[l], l) - 1 - Len(s) = End(t[i], i) - 1 - Len(t)
    BY <1>1, <1>2, <2>3
  <2>7. QED
    BY <2>3, <2>5, <2>6
<1>4. ASSUME NEW left \in Nat, NEW msg, left >= n, InHand(s, left, msg)
      PROVE  InHand(t, left - n, msg)
  <2>1. ASSUME NEW j \in 1..(left - n), j =< Len(t) PROVE t[j].msg = msg
    <3>1. j \in 1..Len(t) /\ j + n \in 1..left /\ j + n =< Len(s)
      BY <1>1, <1>2, <1>4, <2>1
    <3>2. s[j + n].msg = msg
      BY <1>4, <3>1 DEF InHand
    <3>3. QED
      BY <1>1, <3>1, <3>2
  <2>2. ASSUME left - n < Len(t) PROVE t[left - n + 1].pos = 1
    <3>1. PICK i \in 1..Len(t) : i = left - n + 1
      BY <1>2, <1>4, <2>2
    <3>2. t[i] = s[left + 1] /\ left < Len(s)
      BY <1>1, <1>2, <1>4, <2>2, <3>1
    <3>3. s[left + 1].pos = 1
      BY <1>4, <3>2 DEF InHand
    <3>4. QED
      BY <3>1, <3>2, <3>3
  <2>3. QED
    BY <2>1, <2>2 DEF InHand
<1>5. ASSUME NEW left \in Nat, NEW msg, NEW k, NEW m, left >= n,
             OwedInHand(s, left, msg, k, m), left - n >= Len(t)
      PROVE  k = (left - n) - Len(t) /\ (k > 0 => msg = m)
  <2>1. left >= Len(s) /\ left - Len(s) = (left - n) - Len(t)
    BY <1>1, <1>2, <1>5
  <2>2. k = left - Len(s) /\ (k > 0 => msg = m)
    BY <1>5, <2>1 DEF OwedInHand
  <2>3. QED
    BY <2>1, <2>2
<1>6. \A left \in Nat : \A msg, k, m :
        left >= n /\ OwedInHand(s, left, msg, k, m) => OwedInHand(t, left - n, msg, k, m)
  BY <1>5 DEF OwedInHand
<1>7. ShrinksTo(s, n, t)
  BY <1>1, <1>3, <1>4, <1>6 DEF ShrinksTo
<1>8. QED
  BY <1>7 DEF t

\* Behind a header comes its blob, whatever of it is still to be sent.
LEMMA HeaderRead ==
  ASSUME NEW s \in Seq(Units), Framed(s), s # <<>>, s[1].pos = 1,
         NEW n \in 0..Len(s), n = HeaderLen(s[1].kind)
  PROVE  /\ s[1].ext \in Nat
         /\ InHand(SubSeq(s, n + 1, Len(s)), s[1].ext, s[1].msg)
         /\ \A k, m : Owed(s, k, m) =>
              OwedInHand(SubSeq(s, n + 1, Len(s)), s[1].ext, s[1].msg, k, m)
PROOF
<1> DEFINE t == SubSeq(s, n + 1, Len(s))
<1>1. Len(t) = Len(s) - n /\ \A i \in 1..Len(t) : t[i] = s[i + n]
  BY FrontDropped
<1> HIDE DEF t
<1>2. Len(s) \in Nat /\ n \in Nat /\ Len(t) \in Nat /\ 1 \in 1..Len(s) /\ n >= 2
  BY <1>1, HeaderLens
<1>3. PICK e \in Nat : e = s[1].ext
  BY <1>2, EndIs
<1>4. End(s[1], 1) = 1 + n + e
  BY <1>3 DEF End
<1>5. MessageAt(s, 1)
  BY <1>2 DEF Framed
<1>6. \A j \in (1 + n)..(1 + n + e - 1) : j =< Len(s) => s[j].msg = s[1].msg
  <2>1. \A j \in (1 + HeaderLen(s[1].kind))..(End(s[1], 1) - 1) :
          j =< Len(s) => s[j].msg = s[1].msg
    BY <1>5 DEF MessageAt
  <2>2. QED
    BY <1>4, <2>1
<1>7. 1 + n + e =< Len(s) => s[1 + n + e].pos = 1
  BY <1>4, <1>5 DEF MessageAt
<1>8. InHand(t, e, s[1].msg)
  <2>1. ASSUME NEW j \in 1..e, j =< Len(t) PROVE t[j].msg = s[1].msg
    <3>1. j \in 1..Len(t) /\ j + n \in (1 + n)..(1 + n + e - 1) /\ j + n =< Len(s)
      BY <1>1, <1>2, <2>1
    <3>2. s[j + n].msg = s[1].msg
      BY <1>6, <3>1
    <3>3. QED
      BY <1>1, <3>1, <3>2
  <2>2. ASSUME e < Len(t) PROVE t[e + 1].pos = 1
    <3>1. PICK i \in 1..Len(t) : i = e + 1
      BY <1>2, <2>2
    <3>2. t[i] = s[1 + n + e] /\ 1 + n + e =< Len(s)
      <4>1. i + n = 1 + n + e /\ i + n =< Len(s)
        BY <1>1, <1>2, <3>1
      <4>2. QED
        BY <1>1, <4>1
    <3>3. QED
      BY <1>7, <3>1, <3>2
  <2>3. QED
    BY <2>1, <2>2 DEF InHand
<1>9. ASSUME NEW k, NEW m, Owed(s, k, m), e >= Len(t)
      PROVE  k = e - Len(t) /\ (k > 0 => s[1].msg = m)
  <2>1. End(s[1], 1) > Len(s) /\ End(s[1], 1) - 1 - Len(s) = e - Len(t)
    BY <1>1, <1>2, <1>4, <1>9
  <2>2. k = End(s[1], 1) - 1 - Len(s) /\ (k > 0 => s[1].msg = m)
    BY <1>2, <1>9, <2>1 DEF Owed
  <2>3. QED
    BY <2>1, <2>2
<1>10. \A k, m : Owed(s, k, m) => OwedInHand(t, e, s[1].msg, k, m)
  BY <1>9 DEF OwedInHand
<1>11. QED
  BY <1>3, <1>8, <1>10 DEF t

-----------------------------------------------------------------------------
(* The initial states, and the server's steps.                               *)

LEMMA InitInv == Init => IInv
PROOF
<1> SUFFICES ASSUME Init PROVE IInv
  OBVIOUS
<1>1. pool \in [buffers : Nat, blob : Nat] /\ NoMsg \in Messages
  BY PoolsHaveLengths DEF Init, NoMsg, Messages
<1>2. /\ stream \in Seq(Units) /\ Framed(stream)
      /\ InHand(stream, 0, 0) /\ OwedInHand(stream, 0, 0, 0, 0)
  BY EmptyStream DEF Init
<1>3. TypeOK
  BY <1>1, <1>2 DEF Init, TypeOK
<1>4. StreamInv /\ SendInv
  BY <1>2 DEF Init, StreamInv, SendInv
<1>5. FrontInv
  BY <1>2 DEF Init, FrontInv, NoMsg
<1>6. PhaseInv /\ HandInv /\ FencesAreTrue /\ AttachedWhole
  BY DEF Init, PhaseInv, HandInv, FencesAreTrue, AttachedWhole, NoMsg
<1>7. QED
  BY <1>3, <1>4, <1>5, <1>6 DEF IInv

\* What the consumer's own variables are bound by does not change with the server's.
LEMMA ClientUnchanged ==
  ASSUME IInv, UNCHANGED clientVars
  PROVE  /\ (hand \in Messages)' /\ (attached \in Messages)' /\ (cut \in BOOLEAN)'
         /\ (leaked \subseteq Nat)' /\ (misparsed \in BOOLEAN)'
         /\ (pc \in {"idle", "hello", "blob", "poll", "skip"})'
         /\ HandInv' /\ FencesAreTrue' /\ AttachedWhole'
         /\ hand' = hand /\ cut' = cut /\ pc' = pc
PROOF
<1>1. /\ pc' = pc /\ hand' = hand /\ attached' = attached /\ cut' = cut /\ leaked' = leaked
      /\ misparsed' = misparsed
  BY DEF clientVars
<1>2. QED
  BY <1>1 DEF IInv, TypeOK, HandInv, FencesAreTrue, AttachedWhole

\* Whatever is sent to an open socket.
LEMMA StreamGrows ==
  ASSUME IInv, UNCHANGED clientVars, link \in {"pending", "open"}, link' = "open",
         GrowsTo(stream, sending, sent, stream', sending', sent'),
         pc = "hello" /\ stream = <<>> => stream'[1].tag = "pool",
         link = "pending" => Owed(stream, sending, sent) /\ sending = 0
  PROVE  StreamInv' /\ SendInv' /\ FrontInv' /\ PhaseInv'
PROOF
<1>1. stream' # <<>> /\ Framed(stream') /\ Owed(stream', sending', sent')
  BY DEF GrowsTo
<1>2. hand' = hand /\ cut' = cut /\ pc' = pc /\ hand.left \in Nat
  BY ClientUnchanged DEF IInv, TypeOK, Messages
<1>3. ASSUME ~cut
      PROVE  /\ InHand(stream', hand.left, hand.msg)
             /\ OwedInHand(stream', hand.left, hand.msg, sending', sent')
  <2>1. InHand(stream, hand.left, hand.msg)
    BY <1>3 DEF IInv, FrontInv
  <2>2. OwedInHand(stream, hand.left, hand.msg, sending, sent)
    <3>1. CASE link = "open"
      BY <1>3, <3>1 DEF IInv, FrontInv
    <3>2. CASE link = "pending"
      <4>1. stream = <<>> /\ hand.left = 0
        BY <3>2 DEF IInv, PhaseInv, NoMsg
      <4>2. QED
        BY <3>2, <4>1, EmptyStream
    <3>3. QED
      BY <3>1, <3>2
  <2>3. QED
    BY <1>2, <2>1, <2>2 DEF GrowsTo
<1>4. StreamInv' /\ SendInv'
  BY <1>1 DEF StreamInv, SendInv
<1>5. FrontInv'
  BY <1>2, <1>3 DEF FrontInv
<1>6. pc = "hello" => stream'[1].tag = "pool"
  BY DEF GrowsTo, IInv, PhaseInv
<1>7. PhaseInv'
  BY <1>1, <1>2, <1>6 DEF IInv, PhaseInv
<1>8. QED
  BY <1>4, <1>5, <1>7

LEMMA HeaderSent ==
  ASSUME IInv, UNCHANGED clientVars, UNCHANGED <<up, pool>>, sending = 0,
         link \in {"pending", "open"}, link' = "open",
         NEW kind \in {"fence", "pool"}, NEW ext \in Nat, kind = "fence" => ext = 0,
         link = "pending" => kind = "pool", Send(kind, ext)
  PROVE  IInv'
PROOF
<1>1. /\ stream \in Seq(Units) /\ sent \in Nat /\ Framed(stream)
      /\ sent' = sent + 1 /\ stream' = stream \o Header(kind, sent + 1, ext) /\ sending' = ext
  BY DEF IInv, TypeOK, StreamInv, Send
<1>2. Owed(stream, 0, sent)
  <2>1. CASE link = "open"
    BY <2>1 DEF IInv, SendInv
  <2>2. CASE link = "pending"
    BY <2>2, EmptyStream DEF IInv, PhaseInv
  <2>3. QED
    BY <2>1, <2>2
<1>3. PICK m \in Nat : m = sent + 1
  BY <1>1
<1>4. /\ GrowsTo(stream, 0, sent, stream \o Header(kind, m, ext), ext, m)
      /\ stream = <<>> => (stream \o Header(kind, m, ext))[1].tag = kind
  BY <1>1, <1>2, SentHeader
<1>5. GrowsTo(stream, sending, sent, stream', sending', sent')
  BY <1>1, <1>3, <1>4
<1>6. pc = "hello" /\ stream = <<>> => stream'[1].tag = "pool"
  <2>1. pc = "hello" /\ stream = <<>> => link = "pending"
    BY DEF IInv, PhaseInv
  <2>2. QED
    BY <1>1, <1>3, <1>4, <2>1
<1>7. StreamInv' /\ SendInv' /\ FrontInv' /\ PhaseInv'
  BY <1>2, <1>5, <1>6, StreamGrows
<1>8. TypeOK'
  <2>1. (sending \in Nat)' /\ (sent \in Nat)' /\ (stream \in Seq(Units))'
    BY <1>1, <1>5 DEF GrowsTo
  <2>2. (up \in BOOLEAN)' /\ (pool \in [buffers : Nat, blob : Nat])'
    BY DEF IInv, TypeOK
  <2>3. QED
    BY <2>1, <2>2, ClientUnchanged DEF TypeOK
<1>9. QED
  BY <1>7, <1>8, ClientUnchanged DEF IInv

LEMMA PoolLengths ==
  ASSUME IInv
  PROVE  pool.blob \in Nat
PROOF
  BY DEF IInv, TypeOK

LEMMA SetPoolStep == IInv /\ SetPool => IInv'
PROOF
<1> SUFFICES ASSUME IInv, SetPool PROVE IInv'
  OBVIOUS
<1>1. UNCHANGED clientVars /\ UNCHANGED <<up, sending, sent, link, stream>>
  BY DEF SetPool
<1>2. pool' \in [buffers : Nat, blob : Nat]
  <2>1. PICK p \in Pools : pool' = [p EXCEPT !.blob = IF @ =< MaxExt THEN @ ELSE 0]
    BY DEF SetPool
  <2>2. p \in [buffers : Nat, blob : Nat]
    BY PoolsHaveLengths
  <2>3. QED
    BY <2>1, <2>2
<1>3. TypeOK'
  BY <1>1, <1>2, ClientUnchanged DEF IInv, TypeOK
<1>4. StreamInv' /\ SendInv' /\ FrontInv' /\ PhaseInv'
  BY <1>1, ClientUnchanged DEF IInv, StreamInv, SendInv, FrontInv, PhaseInv
<1>5. QED
  BY <1>1, <1>3, <1>4, ClientUnchanged DEF IInv

LEMMA AcceptStep == IInv /\ Accept => IInv'
PROOF
<1> SUFFICES ASSUME IInv, Accept PROVE IInv'
  OBVIOUS
<1>1. /\ UNCHANGED clientVars /\ UNCHANGED <<up, pool>> /\ sending = 0 /\ link = "pending"
      /\ stream = <<>>
  BY DEF Accept, IInv, PhaseInv
<1>2. CASE pool.buffers > MaxFds
  <2>1. link' = "shut" /\ UNCHANGED <<sending, sent, stream>>
    BY <1>2 DEF Accept
  <2>2. TypeOK'
    BY <1>1, <2>1, ClientUnchanged DEF IInv, TypeOK
  <2>3. StreamInv' /\ SendInv' /\ FrontInv' /\ PhaseInv'
    BY <1>1, <2>1, ClientUnchanged DEF IInv, StreamInv, SendInv, FrontInv, PhaseInv
  <2>4. QED
    BY <1>1, <2>2, <2>3, ClientUnchanged DEF IInv
<1>3. CASE ~(pool.buffers > MaxFds)
  <2>1. link' = "open" /\ Send("pool", pool.blob)
    BY <1>3 DEF Accept
  <2>2. QED
    BY <1>1, <2>1, PoolLengths, HeaderSent
<1>4. QED
  BY <1>2, <1>3

LEMMA BroadcastPoolStep == IInv /\ BroadcastPool => IInv'
PROOF
<1> SUFFICES ASSUME IInv, BroadcastPool PROVE IInv'
  OBVIOUS
<1>1. /\ UNCHANGED clientVars /\ UNCHANGED <<up, pool>> /\ sending = 0 /\ link = "open"
      /\ link' = "open" /\ Send("pool", pool.blob)
  BY DEF BroadcastPool
<1>2. QED
  BY <1>1, PoolLengths, HeaderSent

LEMMA BroadcastFenceStep == IInv /\ BroadcastFence => IInv'
PROOF
<1> SUFFICES ASSUME IInv, BroadcastFence PROVE IInv'
  OBVIOUS
<1>1. /\ UNCHANGED clientVars /\ UNCHANGED <<up, pool>> /\ sending = 0 /\ link = "open"
      /\ link' = "open" /\ Send("fence", 0)
  BY DEF BroadcastFence
<1>2. QED
  BY <1>1, HeaderSent

LEMMA SendBlobStep == IInv /\ SendBlob => IInv'
PROOF
<1> SUFFICES ASSUME IInv, SendBlob PROVE IInv'
  OBVIOUS
<1>1. /\ UNCHANGED clientVars /\ UNCHANGED <<up, pool, sent, link>>
      /\ sending > 0 /\ sending' = sending - 1
  BY DEF SendBlob
<1>2. /\ stream \in Seq(Units) /\ sent \in Nat /\ Framed(stream) /\ sending \in Nat
  BY DEF IInv, TypeOK, StreamInv
<1>3. PICK k \in Nat \ {0} : k = sending /\ k - 1 \in Nat
  BY <1>1, <1>2
<1>4. CASE link = "open"
  <2>1. PICK t \in Tags : stream' = Append(stream, BlobUnit(sent, t))
    BY <1>4 DEF SendBlob
  <2>2. Owed(stream, k, sent)
    BY <1>3, <1>4 DEF IInv, SendInv
  <2>3. GrowsTo(stream, k, sent, Append(stream, BlobUnit(sent, t)), k - 1, sent)
    BY <1>2, <2>2, SentBlob
  <2>4. GrowsTo(stream, sending, sent, stream', sending', sent')
    BY <1>1, <1>3, <2>1, <2>3
  <2>5. ~(pc = "hello" /\ stream = <<>>)
    BY <1>4 DEF IInv, PhaseInv
  <2>6. StreamInv' /\ SendInv' /\ FrontInv' /\ PhaseInv'
    BY <1>1, <1>4, <2>4, <2>5, StreamGrows
  <2>7. (sending \in Nat)' /\ (stream \in Seq(Units))'
    BY <1>1, <1>3, <2>4 DEF GrowsTo
  <2>8. TypeOK'
    BY <1>1, <2>7, ClientUnchanged DEF IInv, TypeOK
  <2>9. QED
    BY <1>1, <2>6, <2>8, ClientUnchanged DEF IInv
<1>5. CASE link # "open"
  <2>1. UNCHANGED stream
    BY <1>5 DEF SendBlob
  <2>2. (sending \in Nat)'
    BY <1>1, <1>3
  <2>3. TypeOK'
    BY <1>1, <2>1, <2>2, ClientUnchanged DEF IInv, TypeOK
  <2>4. StreamInv' /\ SendInv' /\ FrontInv' /\ PhaseInv'
    BY <1>1, <1>5, <2>1, ClientUnchanged DEF IInv, StreamInv, SendInv, FrontInv, PhaseInv
  <2>5. QED
    BY <1>1, <2>3, <2>4, ClientUnchanged DEF IInv
<1>6. QED
  BY <1>4, <1>5

LEMMA CrashStep == IInv /\ Crash => IInv'
PROOF
<1> SUFFICES ASSUME IInv, Crash PROVE IInv'
  OBVIOUS
<1>1. /\ UNCHANGED clientVars /\ UNCHANGED <<pool, sent, stream>> /\ up' = FALSE /\ sending' = 0
      /\ link' = IF link = "none" THEN link ELSE "shut"
  BY DEF Crash
<1>2. TypeOK'
  BY <1>1, ClientUnchanged DEF IInv, TypeOK
<1>3. link' # "open" /\ (link' \in {"none", "pending"} => link' = link)
  BY <1>1
<1>4. StreamInv' /\ SendInv' /\ FrontInv' /\ PhaseInv'
  BY <1>1, <1>3, ClientUnchanged DEF IInv, StreamInv, SendInv, FrontInv, PhaseInv
<1>5. QED
  BY <1>1, <1>2, <1>4, ClientUnchanged DEF IInv

-----------------------------------------------------------------------------
(* The consumer's steps that read nothing.                                   *)

LEMMA NoMsgIs ==
  /\ NoMsg \in Messages /\ NoMsg.left = 0 /\ NoMsg.msg = 0
PROOF
  BY DEF NoMsg, Messages

\* With nothing left of it, the message in hand can be put down.
LEMMA HandEmptied ==
  ASSUME IInv, hand.left = 0, hand' = NoMsg, UNCHANGED <<serverVars, link, stream, cut>>
  PROVE  FrontInv'
PROOF
<1>1. stream \in Seq(Units)
  BY DEF IInv, TypeOK
<1>2. SUFFICES ASSUME ~cut
      PROVE  /\ InHand(stream, 0, 0)
             /\ link = "open" => OwedInHand(stream, 0, 0, sending, sent)
  BY NoMsgIs DEF FrontInv, serverVars
<1>3. /\ InHand(stream, 0, hand.msg)
      /\ link = "open" => OwedInHand(stream, 0, hand.msg, sending, sent)
  BY <1>2 DEF IInv, FrontInv
<1>4. QED
  BY <1>1, <1>3, NothingInHand

\* Nothing is sent or received.
LEMMA StreamUnchanged ==
  ASSUME IInv, UNCHANGED <<serverVars, stream>>, link' \in {link, "shut"}
  PROVE  /\ StreamInv' /\ SendInv'
         /\ (up \in BOOLEAN)' /\ (pool \in [buffers : Nat, blob : Nat])' /\ (sending \in Nat)'
         /\ (sent \in Nat)' /\ (stream \in Seq(Units))'
         /\ (link \in {"none", "pending", "open", "shut"})'
PROOF
<1>1. UNCHANGED <<up, pool, sending, sent>>
  BY DEF serverVars
<1>2. QED
  BY <1>1 DEF IInv, TypeOK, StreamInv, SendInv

LEMMA ConnectStep == IInv /\ Connect => IInv'
PROOF
<1> SUFFICES ASSUME IInv, Connect PROVE IInv'
  OBVIOUS
<1>1. /\ link' = "pending" /\ stream' = <<>> /\ cut' = FALSE /\ pc' = "hello" /\ hand' = NoMsg
      /\ leaked' = {} /\ misparsed' = FALSE /\ attached' = attached
      /\ UNCHANGED <<up, pool, sending, sent>>
  BY DEF Connect, serverVars
<1>2. /\ (stream \in Seq(Units))' /\ Framed(stream') /\ InHand(stream', 0, 0)
  BY <1>1, EmptyStream
<1>3. TypeOK'
  BY <1>1, <1>2, NoMsgIs DEF IInv, TypeOK
<1>4. StreamInv' /\ SendInv' /\ FrontInv' /\ PhaseInv'
  BY <1>1, <1>2, NoMsgIs DEF StreamInv, SendInv, FrontInv, PhaseInv
<1>5. HandInv' /\ FencesAreTrue' /\ AttachedWhole'
  BY <1>1 DEF IInv, HandInv, FencesAreTrue, AttachedWhole
<1>6. QED
  BY <1>3, <1>4, <1>5 DEF IInv

LEMMA HandshakeTimeoutStep == IInv /\ HandshakeTimeout => IInv'
PROOF
<1> SUFFICES ASSUME IInv, HandshakeTimeout PROVE IInv'
  OBVIOUS
<1>1. /\ pc = "hello" /\ pc' = "idle" /\ hand' = NoMsg /\ hand = NoMsg
      /\ UNCHANGED <<serverVars, link, stream, attached, cut, leaked, misparsed>>
  BY DEF HandshakeTimeout, GiveUp, IInv, PhaseInv
<1>2. TypeOK'
  BY <1>1, NoMsgIs, StreamUnchanged DEF IInv, TypeOK
<1>3. StreamInv' /\ SendInv' /\ FrontInv'
  BY <1>1, NoMsgIs, StreamUnchanged, HandEmptied
<1>4. PhaseInv' /\ HandInv' /\ FencesAreTrue' /\ AttachedWhole'
  BY <1>1 DEF IInv, PhaseInv, HandInv, FencesAreTrue, AttachedWhole
<1>5. QED
  BY <1>2, <1>3, <1>4 DEF IInv

LEMMA BlobTimeoutStep == IInv /\ BlobTimeout => IInv'
PROOF
<1> SUFFICES ASSUME IInv, BlobTimeout PROVE IInv'
  OBVIOUS
<1>1. /\ pc' = "idle" /\ hand' = NoMsg /\ cut' = TRUE
      /\ UNCHANGED <<serverVars, link, stream, attached, leaked, misparsed>>
  BY DEF BlobTimeout, GiveUp
<1>2. TypeOK'
  BY <1>1, NoMsgIs, StreamUnchanged DEF IInv, TypeOK
<1>3. StreamInv' /\ SendInv' /\ FrontInv'
  BY <1>1, StreamUnchanged DEF FrontInv
<1>4. PhaseInv' /\ HandInv' /\ FencesAreTrue' /\ AttachedWhole'
  BY <1>1 DEF IInv, PhaseInv, HandInv, FencesAreTrue, AttachedWhole
<1>5. QED
  BY <1>2, <1>3, <1>4 DEF IInv

LEMMA AttachStep == IInv /\ Attach => IInv'
PROOF
<1> SUFFICES ASSUME IInv, Attach PROVE IInv'
  OBVIOUS
<1>1. /\ pc = "blob" /\ pc' = "idle" /\ hand' = NoMsg /\ hand.left = 0 /\ attached' = hand
      /\ UNCHANGED <<serverVars, link, stream, cut, leaked, misparsed>>
  BY DEF Attach, GiveUp
<1>2. TypeOK'
  BY <1>1, NoMsgIs, StreamUnchanged DEF IInv, TypeOK
<1>3. StreamInv' /\ SendInv' /\ FrontInv'
  BY <1>1, StreamUnchanged, HandEmptied
<1>4. PhaseInv' /\ HandInv' /\ FencesAreTrue' /\ AttachedWhole'
  BY <1>1 DEF IInv, PhaseInv, HandInv, FencesAreTrue, AttachedWhole
<1>5. QED
  BY <1>2, <1>3, <1>4 DEF IInv

LEMMA SkippedStep == IInv /\ Skipped => IInv'
PROOF
<1> SUFFICES ASSUME IInv, Skipped PROVE IInv'
  OBVIOUS
<1>1. /\ pc = "skip" /\ pc' = "poll" /\ hand' = NoMsg /\ hand.left = 0
      /\ UNCHANGED <<serverVars, link, stream, attached, cut, leaked, misparsed>>
  BY DEF Skipped
<1>2. TypeOK'
  BY <1>1, NoMsgIs, StreamUnchanged DEF IInv, TypeOK
<1>3. StreamInv' /\ SendInv' /\ FrontInv'
  BY <1>1, StreamUnchanged, HandEmptied
<1>4. PhaseInv' /\ HandInv' /\ FencesAreTrue' /\ AttachedWhole'
  BY <1>1 DEF IInv, PhaseInv, HandInv, FencesAreTrue, AttachedWhole
<1>5. QED
  BY <1>2, <1>3, <1>4 DEF IInv

LEMMA SkipTimeoutStep == IInv /\ SkipTimeout => IInv'
PROOF
<1> SUFFICES ASSUME IInv, SkipTimeout PROVE IInv'
  OBVIOUS
<1>1. /\ stream = <<>> /\ pc' = "idle" /\ hand' = NoMsg /\ link' = "shut"
      /\ UNCHANGED <<serverVars, stream, attached, cut, leaked, misparsed>>
  BY DEF SkipTimeout, GiveUp
<1>2. TypeOK'
  BY <1>1, NoMsgIs, StreamUnchanged DEF IInv, TypeOK
<1>3. StreamInv' /\ SendInv'
  BY <1>1, StreamUnchanged
<1>4. FrontInv'
  <2>1. InHand(stream', 0, 0)
    BY <1>1, EmptyStream
  <2>2. QED
    BY <1>1, <2>1, NoMsgIs DEF FrontInv
<1>5. PhaseInv' /\ HandInv' /\ FencesAreTrue' /\ AttachedWhole'
  BY <1>1 DEF IInv, PhaseInv, HandInv, FencesAreTrue, AttachedWhole
<1>6. QED
  BY <1>2, <1>3, <1>4, <1>5 DEF IInv

LEMMA DrainBoundsStep == IInv /\ (DrainBegin \/ DrainEnd) => IInv'
PROOF
<1> SUFFICES ASSUME IInv, DrainBegin \/ DrainEnd PROVE IInv'
  OBVIOUS
<1>1. /\ pc \in {"idle", "poll"} /\ pc' \in {"idle", "poll"} /\ hand = NoMsg
      /\ UNCHANGED <<serverVars, link, stream, hand, attached, cut, leaked, misparsed>>
  BY DEF DrainBegin, DrainEnd, IInv, PhaseInv
<1>2. TypeOK'
  BY <1>1, StreamUnchanged DEF IInv, TypeOK
<1>3. StreamInv' /\ SendInv' /\ FrontInv'
  BY <1>1, NoMsgIs, StreamUnchanged, HandEmptied
<1>4. PhaseInv' /\ HandInv' /\ FencesAreTrue' /\ AttachedWhole'
  BY <1>1 DEF IInv, PhaseInv, HandInv, FencesAreTrue, AttachedWhole
<1>5. QED
  BY <1>2, <1>3, <1>4 DEF IInv

-----------------------------------------------------------------------------
(* The consumer's reads.                                                     *)

\* Whatever is read, what is left is framed, and what is owed to it stays owed.
LEMMA StreamRead ==
  ASSUME IInv, UNCHANGED <<serverVars, link>>, NEW n \in 0..Len(stream), stream' = Rest(n)
  PROVE  /\ StreamInv' /\ SendInv' /\ ShrinksTo(stream, n, stream')
         /\ (up \in BOOLEAN)' /\ (pool \in [buffers : Nat, blob : Nat])' /\ (sending \in Nat)'
         /\ (sent \in Nat)' /\ (stream \in Seq(Units))'
         /\ (link \in {"none", "pending", "open", "shut"})'
PROOF
<1>1. UNCHANGED <<up, pool, sending, sent>>
  BY DEF serverVars
<1>2. stream \in Seq(Units) /\ Framed(stream)
  BY DEF IInv, TypeOK, StreamInv
<1>3. ShrinksTo(stream, n, stream')
  BY <1>2, UnitsRead DEF Rest
<1>4. StreamInv' /\ (stream \in Seq(Units))'
  BY <1>3 DEF StreamInv, ShrinksTo
<1>5. SendInv'
  BY <1>1, <1>3 DEF IInv, SendInv, ShrinksTo
<1>6. QED
  BY <1>1, <1>3, <1>4, <1>5 DEF IInv, TypeOK

\* One unit of the blob of the message in hand.
LEMMA BlobUnitRead ==
  ASSUME IInv, UNCHANGED <<serverVars, link, cut>>, hand.left > 0, stream # <<>>,
         stream' = Tail(stream), hand' \in Messages, hand'.left = hand.left - 1,
         hand'.msg = hand.msg
  PROVE  /\ StreamInv' /\ SendInv' /\ FrontInv'
         /\ (up \in BOOLEAN)' /\ (pool \in [buffers : Nat, blob : Nat])' /\ (sending \in Nat)'
         /\ (sent \in Nat)' /\ (stream \in Seq(Units))'
         /\ (link \in {"none", "pending", "open", "shut"})'
         /\ ~cut => stream[1].msg = hand.msg
PROOF
<1>1. stream \in Seq(Units) /\ hand.left \in Nat
  BY DEF IInv, TypeOK, Messages
<1>2. stream' = Rest(1) /\ Len(stream) >= 1 /\ 1 \in 0..Len(stream)
  BY <1>1, TailIs DEF Rest
<1>3. ShrinksTo(stream, 1, stream')
  BY <1>2, StreamRead
<1>4. PICK left \in Nat : left = hand.left /\ left >= 1
  BY <1>1
<1>5. hand'.left = left - 1
  BY <1>4
<1>6. FrontInv'
  <2>1. SUFFICES ASSUME ~cut
        PROVE  /\ InHand(stream', left - 1, hand.msg)
               /\ link = "open" => OwedInHand(stream', left - 1, hand.msg, sending, sent)
    BY <1>5 DEF FrontInv, serverVars
  <2>2. /\ InHand(stream, left, hand.msg)
        /\ link = "open" => OwedInHand(stream, left, hand.msg, sending, sent)
    BY <1>4, <2>1 DEF IInv, FrontInv
  <2>3. QED
    BY <1>3, <1>4, <2>2 DEF ShrinksTo
<1>7. ~cut => stream[1].msg = hand.msg
  <2>1. 1 \in 1..hand.left /\ 1 =< Len(stream)
    BY <1>1, <1>2
  <2>2. QED
    BY <2>1 DEF IInv, FrontInv, InHand
<1>8. QED
  BY <1>2, <1>6, <1>7, StreamRead

LEMMA RecvBlobStep == IInv /\ RecvBlob => IInv'
PROOF
<1> SUFFICES ASSUME IInv, RecvBlob PROVE IInv'
  OBVIOUS
<1>1. /\ pc = "blob" /\ hand.left > 0 /\ stream # <<>> /\ stream' = Tail(stream) /\ ~cut
      /\ hand' = [hand EXCEPT !.left = @ - 1, !.blob = @ \cup {Head(stream).msg}]
      /\ UNCHANGED <<serverVars, link, pc, attached, cut, leaked, misparsed>>
  BY DEF RecvBlob, IInv, PhaseInv
<1>2. /\ stream \in Seq(Units) /\ Head(stream) = stream[1] /\ stream[1].msg \in Nat
  <2>1. stream \in Seq(Units) /\ Head(stream) = stream[1] /\ 1 \in 1..Len(stream)
    BY <1>1, TailIs DEF IInv, TypeOK
  <2>2. QED
    BY <2>1, EndIs, UnitFields
<1>3. PICK l \in Nat : l = hand.left - 1
  BY <1>1 DEF IInv, TypeOK, Messages
<1>4. hand' = [hand EXCEPT !.left = l, !.blob = @ \cup {stream[1].msg}]
  BY <1>1, <1>2, <1>3
<1>5. /\ hand' \in Messages /\ hand'.left = hand.left - 1 /\ hand'.msg = hand.msg
      /\ hand'.fds = hand.fds /\ hand'.blob = hand.blob \cup {stream[1].msg}
  BY <1>2, <1>3, <1>4 DEF IInv, TypeOK, Messages
<1>6. /\ StreamInv' /\ SendInv' /\ FrontInv'
      /\ (up \in BOOLEAN)' /\ (pool \in [buffers : Nat, blob : Nat])' /\ (sending \in Nat)'
      /\ (sent \in Nat)' /\ (stream \in Seq(Units))'
      /\ (link \in {"none", "pending", "open", "shut"})'
      /\ stream[1].msg = hand.msg
  BY <1>1, <1>5, BlobUnitRead
<1>7. TypeOK'
  BY <1>1, <1>5, <1>6 DEF IInv, TypeOK
<1>8. HandInv'
  BY <1>1, <1>5, <1>6 DEF IInv, HandInv
<1>9. PhaseInv' /\ FencesAreTrue' /\ AttachedWhole'
  BY <1>1 DEF IInv, PhaseInv, FencesAreTrue, AttachedWhole
<1>10. QED
  BY <1>6, <1>7, <1>8, <1>9 DEF IInv

LEMMA SkipBlobStep == IInv /\ SkipBlob => IInv'
PROOF
<1> SUFFICES ASSUME IInv, SkipBlob PROVE IInv'
  OBVIOUS
<1>1. /\ pc = "skip" /\ hand.left > 0 /\ stream # <<>> /\ stream' = Tail(stream)
      /\ hand' = [hand EXCEPT !.left = @ - 1]
      /\ UNCHANGED <<serverVars, link, pc, attached, cut, leaked, misparsed>>
  BY DEF SkipBlob
<1>2. PICK l \in Nat : l = hand.left - 1
  BY <1>1 DEF IInv, TypeOK, Messages
<1>3. hand' \in Messages /\ hand'.left = hand.left - 1 /\ hand'.msg = hand.msg
  BY <1>1, <1>2 DEF IInv, TypeOK, Messages
<1>4. /\ StreamInv' /\ SendInv' /\ FrontInv'
      /\ (up \in BOOLEAN)' /\ (pool \in [buffers : Nat, blob : Nat])' /\ (sending \in Nat)'
      /\ (sent \in Nat)' /\ (stream \in Seq(Units))'
      /\ (link \in {"none", "pending", "open", "shut"})'
  BY <1>1, <1>3, BlobUnitRead
<1>5. TypeOK'
  BY <1>1, <1>3, <1>4 DEF IInv, TypeOK
<1>6. PhaseInv' /\ HandInv' /\ FencesAreTrue' /\ AttachedWhole'
  BY <1>1 DEF IInv, PhaseInv, HandInv, FencesAreTrue, AttachedWhole
<1>7. QED
  BY <1>4, <1>5, <1>6 DEF IInv

\* While no handshake has been cut short, a consumer with nothing in hand is in
\* front of a header: its tag is its kind.
LEMMA HeaderInFront ==
  ASSUME IInv, ~cut, stream # <<>>, hand = NoMsg
  PROVE  /\ stream[1].pos = 1 /\ stream[1].tag = stream[1].kind
         /\ stream[1].kind \in {"fence", "pool"} /\ stream[1].msg \in Nat
         /\ stream[1].kind = "fence" => stream[1].ext = 0
PROOF
<1>1. stream \in Seq(Units) /\ 1 \in 1..Len(stream)
  BY DEF IInv, TypeOK
<1>2. stream[1].pos = 1
  <2>1. 0 < Len(stream) /\ InHand(stream, 0, NoMsg.msg)
    BY <1>1, NoMsgIs DEF IInv, FrontInv
  <2>2. QED
    BY <2>1 DEF InHand
<1>3. HeaderAt(stream, 1)
  BY <1>1, <1>2 DEF IInv, StreamInv, Framed, MessageAt
<1>4. stream[1].msg \in Nat
  BY <1>1, EndIs, UnitFields
<1>5. QED
  BY <1>2, <1>3, <1>4 DEF HeaderAt

\* It is received whole, and what it announces is in hand.
LEMMA MessageRead ==
  ASSUME IInv, ~cut, stream # <<>>, hand = NoMsg, UNCHANGED <<serverVars, link>>,
         NEW n, n = HeaderLen(stream[1].tag)
  PROVE  /\ n \in 0..Len(stream) /\ Taken(n) = n /\ FdsIn(n) = {stream[1].msg}
         /\ stream[1].ext \in Nat
         /\ stream' = Rest(n) =>
              /\ InHand(stream', stream[1].ext, stream[1].msg)
              /\ link = "open" =>
                   OwedInHand(stream', stream[1].ext, stream[1].msg, sending', sent')
PROOF
<1>1. stream \in Seq(Units) /\ Framed(stream) /\ TypeOK /\ StreamInv
  BY DEF IInv, TypeOK, StreamInv
<1>2. stream[1].pos = 1 /\ n = HeaderLen(stream[1].kind)
  BY HeaderInFront
<1>3. n \in 1..Len(stream) /\ Taken(n) = n /\ FdsIn(n) = {stream[1].msg}
  BY <1>1, <1>2, HeaderReceived
<1>4. n \in 0..Len(stream)
  BY <1>3
<1>5. /\ stream[1].ext \in Nat
      /\ InHand(SubSeq(stream, n + 1, Len(stream)), stream[1].ext, stream[1].msg)
      /\ \A k, m : Owed(stream, k, m) =>
           OwedInHand(SubSeq(stream, n + 1, Len(stream)), stream[1].ext, stream[1].msg, k, m)
  BY <1>1, <1>2, <1>4, HeaderRead
<1>6. link = "open" => Owed(stream, sending, sent)
  BY DEF IInv, SendInv
<1>7. sending' = sending /\ sent' = sent
  BY DEF serverVars
<1>8. QED
  BY <1>3, <1>4, <1>5, <1>6, <1>7 DEF Rest

LEMMA RecvHeaderStep == IInv /\ RecvHeader => IInv'
PROOF
<1> SUFFICES ASSUME IInv, RecvHeader PROVE IInv'
  OBVIOUS
<1>1. /\ pc = "hello" /\ (stream # <<>> \/ link = "shut") /\ ~cut /\ hand = NoMsg
      /\ stream # <<>> => stream[1].tag = "pool"
      /\ UNCHANGED <<serverVars, link, attached, cut, misparsed>>
  BY DEF RecvHeader, IInv, PhaseInv
<1>2. stream \in Seq(Units) /\ TypeOK /\ HeaderLen("pool") = 3
  BY HeaderLens DEF IInv, TypeOK
<1>3. CASE stream = <<>>
  <2>1. Taken(3) = 0
    <3>1. Taken(3) \in 0..Len(stream) /\ Len(stream) = 0
      BY <1>2, <1>3, TakenIs
    <3>2. QED
      BY <3>1
  <2>2. ShortRead(3) /\ GiveUp
    BY <1>2, <2>1 DEF RecvHeader
  <2>3. FdsIn(0) = {} /\ 0 \in 0..Len(stream)
    BY <1>2 DEF FdsIn
  <2>4. stream' = Rest(0) /\ leaked' = leaked /\ pc' = "idle" /\ hand' = NoMsg
    BY <2>1, <2>2, <2>3 DEF ShortRead, GiveUp
  <2>5. stream' = <<>>
    BY <1>2, <1>3, <2>4 DEF Rest
  <2>6. TypeOK'
    BY <1>1, <2>3, <2>4, NoMsgIs, StreamRead DEF IInv, TypeOK
  <2>7. StreamInv' /\ SendInv'
    BY <1>1, <2>3, <2>4, StreamRead
  <2>8. FrontInv'
    <3>1. InHand(stream', 0, 0)
      BY <2>5, EmptyStream
    <3>2. link' = "shut"
      BY <1>1, <1>3
    <3>3. QED
      BY <2>4, <3>1, <3>2, NoMsgIs DEF FrontInv
  <2>9. PhaseInv' /\ HandInv' /\ FencesAreTrue' /\ AttachedWhole'
    BY <1>1, <1>3, <2>4, <2>5 DEF IInv, PhaseInv, HandInv, FencesAreTrue, AttachedWhole
  <2>10. QED
    BY <2>6, <2>7, <2>8, <2>9 DEF IInv
<1>4. CASE stream # <<>>
  <2>1. stream[1].tag = "pool" /\ stream[1].msg \in Nat /\ 3 = HeaderLen(stream[1].tag)
    BY <1>1, <1>2, <1>4, HeaderInFront
  <2>2. /\ 3 \in 0..Len(stream) /\ Taken(3) = 3 /\ FdsIn(3) = {stream[1].msg}
        /\ stream[1].ext \in Nat
        /\ stream' = Rest(3) =>
             /\ InHand(stream', stream[1].ext, stream[1].msg)
             /\ link = "open" =>
                  OwedInHand(stream', stream[1].ext, stream[1].msg, sending', sent')
    BY <1>1, <1>4, <2>1, MessageRead
  <2>3. ~ShortRead(3)
    BY <2>2 DEF ShortRead
  <2>4. /\ stream' = Rest(3) /\ leaked' = leaked /\ pc' = "blob"
        /\ hand' = [msg |-> stream[1].msg, fds |-> {stream[1].msg}, left |-> stream[1].ext,
                    blob |-> {}]
    BY <1>2, <2>1, <2>2, <2>3 DEF RecvHeader
  <2>5. /\ hand' \in Messages /\ hand'.msg = stream[1].msg /\ hand'.left = stream[1].ext
        /\ hand'.fds = {stream[1].msg} /\ hand'.blob = {}
    BY <2>1, <2>2, <2>4 DEF Messages
  <2>6. TypeOK'
    BY <1>1, <2>2, <2>4, <2>5, StreamRead DEF IInv, TypeOK
  <2>7. StreamInv' /\ SendInv'
    BY <1>1, <2>2, <2>4, StreamRead
  <2>8. FrontInv'
    BY <1>1, <2>2, <2>4, <2>5 DEF FrontInv
  <2>9. PhaseInv'
    <3>1. link \notin {"none", "pending"}
      BY <1>4 DEF IInv, PhaseInv
    <3>2. QED
      BY <1>1, <2>4, <3>1 DEF PhaseInv
  <2>10. HandInv' /\ FencesAreTrue' /\ AttachedWhole'
    BY <1>1, <2>4, <2>5 DEF IInv, HandInv, FencesAreTrue, AttachedWhole
  <2>11. QED
    BY <2>6, <2>7, <2>8, <2>9, <2>10 DEF IInv
<1>5. QED
  BY <1>3, <1>4

\* What a drain changes, apart from the stream.
LEMMA DrainChanges ==
  ASSUME IInv, DrainMessage
  PROVE  /\ pc = "poll" /\ stream # <<>> /\ hand = NoMsg /\ link \notin {"none", "pending"}
         /\ UNCHANGED <<serverVars, link, attached, cut>>
         /\ HeaderLen(stream[1].tag) \in {2, 3} /\ Head(stream) = stream[1]
         /\ \E n \in 0..Len(stream) :
              /\ stream' = Rest(n)
              /\ leaked' = leaked \/ leaked' = leaked \cup FdsIn(n)
         /\ pc' \in {"idle", "poll", "skip"} /\ hand' \in Messages
         /\ pc' # "skip" => hand' = NoMsg
         /\ (misparsed \in BOOLEAN)'
PROOF
<1>1. /\ pc = "poll" /\ stream # <<>> /\ hand = NoMsg /\ link \notin {"none", "pending"}
      /\ UNCHANGED <<serverVars, link, attached, cut>>
  BY DEF DrainMessage, IInv, PhaseInv
<1>2. stream \in Seq(Units) /\ TypeOK /\ Head(stream) = stream[1] /\ 1 \in 1..Len(stream)
  BY <1>1, TailIs DEF IInv, TypeOK
<1>3. PICK u \in Units : u = stream[1] /\ u = Head(stream)
  BY <1>2, EndIs
<1>4. PICK n \in {2, 3} : n = HeaderLen(u.tag)
  BY HeaderLens
<1>5. Taken(n) \in 0..Len(stream)
  BY <1>2, <1>4, TakenIs
<1>6. CASE ShortRead(n) /\ GiveUp /\ UNCHANGED misparsed
  <2>1. /\ stream' = Rest(Taken(n)) /\ leaked' = leaked \cup FdsIn(Taken(n))
        /\ pc' = "idle" /\ hand' = NoMsg /\ misparsed' = misparsed
    BY <1>6 DEF ShortRead, GiveUp
  <2>2. (misparsed \in BOOLEAN)'
    BY <1>2, <2>1 DEF TypeOK
  <2>3. QED
    BY <1>1, <1>2, <1>3, <1>4, <1>5, <2>1, <2>2, NoMsgIs
<1>7. CASE ~(ShortRead(n) /\ GiveUp /\ UNCHANGED misparsed)
  <2>1. /\ Taken(n) = n /\ stream' = Rest(n) /\ leaked' = leaked
        /\ IF u.tag = "pool"
           THEN /\ \E ext \in IF u.pos = 1 THEN {u.ext} ELSE {0, BlobLen} :
                     hand' = [msg |-> u.msg, fds |-> FdsIn(n), left |-> ext, blob |-> {}]
                /\ pc' = "skip" /\ UNCHANGED misparsed
           ELSE /\ UNCHANGED <<pc, hand>>
                /\ misparsed' = (misparsed \/
                     (u.tag = "fence" /\ FdsIn(n) # {} /\ (u.pos # 1 \/ FdsIn(n) # {u.msg})))
    BY <1>3, <1>4, <1>7 DEF DrainMessage
  <2>2. n \in 0..Len(stream)
    BY <1>5, <2>1
  <2>3. CASE u.tag = "pool"
    <3>1. PICK ext \in IF u.pos = 1 THEN {u.ext} ELSE {0, BlobLen} :
                 hand' = [msg |-> u.msg, fds |-> FdsIn(n), left |-> ext, blob |-> {}]
      BY <2>1, <2>3
    <3>2. ext \in Nat /\ u.msg \in Nat /\ FdsIn(n) \subseteq Nat
      BY <1>2, <2>2, FramingBounds, UnitFields, FdsAreNumbers
    <3>3. hand' \in Messages
      BY <3>1, <3>2 DEF Messages
    <3>4. (misparsed \in BOOLEAN)'
      BY <1>2, <2>1, <2>3 DEF TypeOK
    <3>5. QED
      BY <1>1, <1>2, <1>3, <1>4, <2>1, <2>2, <2>3, <3>3, <3>4
  <2>4. CASE u.tag # "pool"
    <3>1. pc' = "poll" /\ hand' = NoMsg
      BY <1>1, <2>1, <2>4
    <3>2. (misparsed \in BOOLEAN)'
      BY <1>2, <2>1, <2>4 DEF TypeOK
    <3>3. QED
      BY <1>1, <1>2, <1>3, <1>4, <2>1, <2>2, <3>1, <3>2, NoMsgIs
  <2>5. QED
    BY <2>3, <2>4
<1>8. QED
  BY <1>6, <1>7

\* While no handshake has been cut short, a drain takes one whole message.
LEMMA DrainTakesMessage ==
  ASSUME IInv, DrainMessage, ~cut
  PROVE  /\ leaked' = leaked /\ misparsed' = misparsed
         /\ InHand(stream', hand'.left, hand'.msg)
         /\ link = "open" => OwedInHand(stream', hand'.left, hand'.msg, sending', sent')
PROOF
<1>1. /\ stream # <<>> /\ hand = NoMsg /\ UNCHANGED <<serverVars, link>>
      /\ Head(stream) = stream[1]
  BY DrainChanges
<1>2. PICK u : u = stream[1]
  OBVIOUS
<1>3. PICK n \in {2, 3} : n = HeaderLen(u.tag)
  BY HeaderLens
<1>4. /\ u.pos = 1 /\ u.tag = u.kind /\ u.kind \in {"fence", "pool"}
      /\ u.kind = "fence" => u.ext = 0
  BY <1>1, <1>2, HeaderInFront
<1>5. /\ n \in 0..Len(stream) /\ Taken(n) = n /\ FdsIn(n) = {u.msg} /\ u.ext \in Nat
      /\ stream' = Rest(n) =>
           /\ InHand(stream', u.ext, u.msg)
           /\ link = "open" => OwedInHand(stream', u.ext, u.msg, sending', sent')
  BY <1>1, <1>2, <1>3, MessageRead
<1>6. ~ShortRead(n)
  BY <1>3, <1>5 DEF ShortRead
<1>7. /\ stream' = Rest(n) /\ leaked' = leaked
      /\ IF u.tag = "pool"
         THEN /\ \E ext \in IF u.pos = 1 THEN {u.ext} ELSE {0, BlobLen} :
                   hand' = [msg |-> u.msg, fds |-> FdsIn(n), left |-> ext, blob |-> {}]
              /\ pc' = "skip" /\ UNCHANGED misparsed
         ELSE /\ UNCHANGED <<pc, hand>>
              /\ misparsed' = (misparsed \/
                   (u.tag = "fence" /\ FdsIn(n) # {} /\ (u.pos # 1 \/ FdsIn(n) # {u.msg})))
  BY <1>1, <1>2, <1>3, <1>6 DEF DrainMessage
<1>8. CASE u.tag = "pool"
  <2>1. hand' = [msg |-> u.msg, fds |-> FdsIn(n), left |-> u.ext, blob |-> {}]
    BY <1>4, <1>7, <1>8
  <2>2. hand'.left = u.ext /\ hand'.msg = u.msg
    BY <2>1
  <2>3. QED
    BY <1>5, <1>7, <1>8, <2>2
<1>9. CASE u.tag # "pool"
  <2>1. hand' = NoMsg /\ u.ext = 0
    BY <1>1, <1>4, <1>7, <1>9
  <2>2. misparsed' = misparsed
    <3>1. ~(u.tag = "fence" /\ FdsIn(n) # {} /\ (u.pos # 1 \/ FdsIn(n) # {u.msg}))
      BY <1>4, <1>5
    <3>2. misparsed' = (misparsed \/ FALSE)
      BY <1>7, <1>9, <3>1
    <3>3. misparsed \in BOOLEAN
      BY DEF IInv, TypeOK
    <3>4. QED
      BY <3>2, <3>3
  <2>3. stream' \in Seq(Units)
    BY <1>1, <1>5, <1>7, StreamRead
  <2>4. /\ InHand(stream', 0, u.msg)
        /\ link = "open" => OwedInHand(stream', 0, u.msg, sending', sent')
    BY <1>5, <1>7, <2>1
  <2>5. /\ InHand(stream', 0, NoMsg.msg)
        /\ link = "open" => OwedInHand(stream', 0, NoMsg.msg, sending', sent')
    BY <2>3, <2>4, NothingInHand
  <2>6. QED
    BY <1>7, <2>1, <2>2, <2>5, NoMsgIs
<1>10. QED
  BY <1>8, <1>9

LEMMA DrainMessageStep == IInv /\ DrainMessage => IInv'
PROOF
<1> SUFFICES ASSUME IInv, DrainMessage PROVE IInv'
  OBVIOUS
<1>1. /\ pc = "poll" /\ stream # <<>> /\ link \notin {"none", "pending"}
      /\ UNCHANGED <<serverVars, link, attached, cut>>
      /\ pc' \in {"idle", "poll", "skip"} /\ hand' \in Messages
      /\ pc' # "skip" => hand' = NoMsg
      /\ (misparsed \in BOOLEAN)'
  BY DrainChanges
<1>2. PICK n \in 0..Len(stream) :
             stream' = Rest(n) /\ (leaked' = leaked \/ leaked' = leaked \cup FdsIn(n))
  BY DrainChanges
<1>3. /\ StreamInv' /\ SendInv'
      /\ (up \in BOOLEAN)' /\ (pool \in [buffers : Nat, blob : Nat])' /\ (sending \in Nat)'
      /\ (sent \in Nat)' /\ (stream \in Seq(Units))'
      /\ (link \in {"none", "pending", "open", "shut"})'
  BY <1>1, <1>2, StreamRead
<1>4. (leaked \subseteq Nat)'
  BY <1>2, FdsAreNumbers DEF IInv, TypeOK
<1>5. TypeOK'
  BY <1>1, <1>3, <1>4 DEF IInv, TypeOK
<1>6. FrontInv'
  BY <1>1, DrainTakesMessage DEF FrontInv
<1>7. FencesAreTrue'
  BY <1>1, DrainTakesMessage DEF IInv, FencesAreTrue
<1>8. PhaseInv'
  BY <1>1 DEF PhaseInv
<1>9. HandInv' /\ AttachedWhole'
  BY <1>1 DEF IInv, HandInv, AttachedWhole
<1>10. QED
  BY <1>3, <1>5, <1>6, <1>7, <1>8, <1>9 DEF IInv

LEMMA StutterStep == IInv /\ UNCHANGED vars => IInv'
PROOF
<1> SUFFICES ASSUME IInv, UNCHANGED vars PROVE IInv'
  OBVIOUS
<1>1. UNCHANGED clientVars /\ UNCHANGED <<serverVars, stream>> /\ link' = link
  BY DEF vars, clientVars
<1>2. UNCHANGED <<up, pool, sending, sent>>
  BY <1>1 DEF serverVars
<1>3. TypeOK' /\ StreamInv' /\ SendInv'
  BY <1>1, ClientUnchanged, StreamUnchanged DEF TypeOK
<1>4. FrontInv' /\ PhaseInv'
  BY <1>1, <1>2, ClientUnchanged DEF IInv, FrontInv, PhaseInv
<1>5. QED
  BY <1>1, <1>3, <1>4, ClientUnchanged DEF IInv

-----------------------------------------------------------------------------
(* The theorems.                                                             *)

\* The invariants hold in every state: whatever is interleaved by the server's
\* calls, the consumer's reads, its timeouts and a crash, the stream is a row of
\* whole messages whose last one may still be on its way, and the consumer knows
\* how much of which message comes next, unless it gave up a handshake halfway.
THEOREM Invariance == Spec => []IInv
PROOF
<1>1. IInv /\ [Next]_vars => IInv'
  <2> SUFFICES ASSUME IInv, [Next]_vars PROVE IInv'
    OBVIOUS
  <2>1. CASE SetPool
    BY <2>1, SetPoolStep
  <2>2. CASE Accept
    BY <2>2, AcceptStep
  <2>3. CASE BroadcastPool
    BY <2>3, BroadcastPoolStep
  <2>4. CASE BroadcastFence
    BY <2>4, BroadcastFenceStep
  <2>5. CASE SendBlob
    BY <2>5, SendBlobStep
  <2>6. CASE Crash
    BY <2>6, CrashStep
  <2>7. CASE Connect
    BY <2>7, ConnectStep
  <2>8. CASE HandshakeTimeout
    BY <2>8, HandshakeTimeoutStep
  <2>9. CASE RecvHeader
    BY <2>9, RecvHeaderStep
  <2>10. CASE RecvBlob
    BY <2>10, RecvBlobStep
  <2>11. CASE BlobTimeout
    BY <2>11, BlobTimeoutStep
  <2>12. CASE Attach
    BY <2>12, AttachStep
  <2>13. CASE DrainBegin \/ DrainEnd
    BY <2>13, DrainBoundsStep
  <2>14. CASE DrainMessage
    BY <2>14, DrainMessageStep
  <2>15. CASE SkipBlob
    BY <2>15, SkipBlobStep
  <2>16. CASE Skipped
    BY <2>16, SkippedStep
  <2>17. CASE SkipTimeout
    BY <2>17, SkipTimeoutStep
  <2>18. CASE UNCHANGED vars
    BY <2>18, StutterStep
  <2>19. QED
    BY <2>1, <2>2, <2>3, <2>4, <2>5, <2>6, <2>7, <2>8, <2>9, <2>10, <2>11, <2>12, <2>13,
       <2>14, <2>15, <2>16, <2>17, <2>18 DEF Next
<1>2. QED
  BY <1>1, InitInv, PTL DEF Spec

\* Every variable keeps its type: the units of the stream, the message in hand and
\* the pool it is attached to, whatever the tags of blob bytes look like.
THEOREM TypeCorrectness == Spec => []TypeOK
PROOF
<1>1. IInv => TypeOK
  BY DEF IInv
<1>2. QED
  BY <1>1, Invariance, PTL

\* Between two messages the consumer is at the start of one, unless it gave up a
\* handshake inside its blob on this socket, for every length of the blobs: a late
\* blob, a pool announced again amid fences or a dead server do not shift it
\* (drain_fences(), recv_pool_handshake()).
THEOREM StreamsStayFramed == Spec => []StreamStaysFramed
PROOF
<1>1. IInv => StreamStaysFramed
  <2> SUFFICES ASSUME IInv, pc \in {"idle", "hello", "poll"}, ~cut, stream # <<>>
               PROVE  Head(stream).pos = 1
    BY DEF StreamStaysFramed
  <2>1. hand = NoMsg
    BY DEF IInv, PhaseInv
  <2>2. stream[1].pos = 1
    BY <2>1, HeaderInFront
  <2>3. Head(stream) = stream[1]
    BY TailIs DEF IInv, TypeOK
  <2>4. QED
    BY <2>2, <2>3
<1>2. QED
  BY <1>1, Invariance, PTL

\* Every fence that is passed on has its own token and its own descriptor, and no
\* read that fails takes a descriptor with it, on a socket whose handshakes were
\* not given up halfway (recv_fds()).
THEOREM FencesStayTrue == Spec => []FencesAreTrue
PROOF
<1>1. IInv => FencesAreTrue
  BY DEF IInv
<1>2. QED
  BY <1>1, Invariance, PTL

\* A consumer never attaches to a pool whose header, descriptors and import blob
\* are not of one message, however many connections it gave up before
\* (recv_pool_handshake()).
THEOREM PoolsAttachedWhole == Spec => []AttachedWhole
PROOF
<1>1. IInv => AttachedWhole
  BY DEF IInv
<1>2. QED
  BY <1>1, Invariance, PTL
=============================================================================
