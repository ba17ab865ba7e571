---------------------------- MODULE BackendsProofs -----------------------------
(***************************************************************************)
(* Facts about the conversations of Backends, for histories of any length. *)
(* The loops over the history are recursive functions; what they leave     *)
(* behind follows by induction on its length, from the least element of a  *)
(* set of natural numbers.                                                 *)
(***************************************************************************)
EXTENDS Backends, SequenceTheorems, WellFoundedInduction, TLAPS

\* A nonempty set of natural numbers has a least element.
LEMMA LeastElement ==
    ASSUME NEW T, T \subseteq Nat, T # {}
    PROVE  \E x \in T : \A y \in T : x <= y
<1> DEFINE R == {ss \in Nat \X Nat : ss[1] < ss[2]}
<1>1. IsWellFoundedOn(R, Nat)
    BY NatLessThanWellFounded DEF OpToRel
<1> HIDE DEF R
<1>2. PICK x \in T : \A y \in T : <<y, x>> \notin R
    BY <1>1, WFMin
<1>3. \A y \in T : ~(y < x)
    BY <1>2 DEF R
<1> QED
    BY <1>3

\* Induction: a set that holds 0 and every successor holds every number.
LEMMA Induction ==
    ASSUME NEW S, 0 \in S, \A n \in Nat : n \in S => n + 1 \in S
    PROVE  Nat \subseteq S
<1> SUFFICES ASSUME Nat \ S # {} PROVE FALSE
    OBVIOUS
<1>1. PICK x \in Nat \ S : \A y \in Nat \ S : x <= y
    BY LeastElement
<1>2. x # 0 /\ x - 1 \in Nat /\ x - 1 \notin Nat \ S
    BY <1>1
<1>3. (x - 1) + 1 \in S
    BY <1>2
<1> QED
    BY <1>1, <1>3

(***************************************************************************)
(* The loop of collapse_to_anthropic.                                      *)
(***************************************************************************)
NoContents == [out |-> <<>>, pending |-> <<>>]

\* acc is what the loop leaves behind after each of the first n messages.
CollapsesTo(acc, hist, n) ==
    acc = [k \in 0..n |-> IF k = 0 THEN NoContents ELSE CollapseStep(acc[k - 1], hist[k])]

LEMMA CollapsesUnique ==
    ASSUME NEW hist, NEW n \in Nat, NEW f, NEW g,
           CollapsesTo(f, hist, n), CollapsesTo(g, hist, n)
    PROVE  f = g
<1> DEFINE S == {k \in Nat : k <= n => f[k] = g[k]}
<1>1. 0 \in S
    BY DEF CollapsesTo
<1>2. ASSUME NEW k \in Nat, k \in S PROVE k + 1 \in S
  <2> SUFFICES ASSUME k + 1 <= n PROVE f[k + 1] = g[k + 1]
    OBVIOUS
  <2>1. k + 1 \in 0..n /\ k + 1 # 0 /\ (k + 1) - 1 = k
    OBVIOUS
  <2>2. f[k] = g[k]
    BY <1>2
  <2> QED
    BY <2>1, <2>2 DEF CollapsesTo
<1>3. \A k \in 0..n : f[k] = g[k]
  <2> HIDE DEF S
  <2>1. Nat \subseteq S
    BY <1>1, <1>2, Induction
  <2> QED
    BY <2>1 DEF S
<1> QED
    BY <1>3 DEF CollapsesTo

LEMMA CollapsesLonger ==
    ASSUME NEW hist, NEW n \in Nat, NEW f, CollapsesTo(f, hist, n)
    PROVE  CollapsesTo([k \in 0..(n + 1) |->
                            IF k <= n THEN f[k] ELSE CollapseStep(f[n], hist[n + 1])],
                       hist, n + 1)
<1> DEFINE g == [k \in 0..(n + 1) |->
                    IF k <= n THEN f[k] ELSE CollapseStep(f[n], hist[n + 1])]
<1>1. g[0] = NoContents
    BY DEF CollapsesTo
<1>2. ASSUME NEW k \in 1..(n + 1) PROVE g[k] = CollapseStep(g[k - 1], hist[k])
  <2>1. CASE k <= n
    <3>1. k \in 0..n /\ k # 0 /\ k - 1 <= n /\ k - 1 \in 0..(n + 1) /\ k \in 0..(n + 1)
      BY <2>1
    <3>2. g[k] = f[k] /\ g[k - 1] = f[k - 1]
      BY <3>1, <2>1
    <3> QED
      BY <3>1, <3>2 DEF CollapsesTo
  <2>2. CASE k = n + 1
    <3>1. g[k] = CollapseStep(f[n], hist[n + 1]) /\ g[k - 1] = f[n]
      BY <2>2
    <3> QED
      BY <3>1, <2>2
  <2> QED
    BY <2>1, <2>2
<1>3. g = [k \in 0..(n + 1) |-> IF k = 0 THEN NoContents ELSE CollapseStep(g[k - 1], hist[k])]
  <2>1. \A k \in 0..(n + 1) :
            g[k] = IF k = 0 THEN NoContents ELSE CollapseStep(g[k - 1], hist[k])
    <3> HIDE DEF g
    <3>1. \A k \in 0..(n + 1) : k = 0 \/ k \in 1..(n + 1)
      OBVIOUS
    <3> QED
      BY <1>1, <1>2, <3>1
  <2>2. g = [k \in 0..(n + 1) |-> g[k]]
    OBVIOUS
  <2> QED
    BY <2>1, <2>2
<1> QED
    BY <1>3 DEF CollapsesTo

LEMMA CollapsesExists ==
    ASSUME NEW hist, NEW n \in Nat
    PROVE  \E f : CollapsesTo(f, hist, n)
<1> DEFINE S == {k \in Nat : \E f : CollapsesTo(f, hist, k)}
<1>1. 0 \in S
  <2>1. CollapsesTo([k \in 0..0 |-> NoContents], hist, 0)
    BY DEF CollapsesTo
  <2> QED
    BY <2>1
<1>2. ASSUME NEW k \in Nat, k \in S PROVE k + 1 \in S
  <2>1. PICK f : CollapsesTo(f, hist, k)
    BY <1>2
  <2>2. \E g : CollapsesTo(g, hist, k + 1)
    BY <2>1, CollapsesLonger
  <2> QED
    BY <2>2
<1>3. Nat \subseteq S
  <2> HIDE DEF S
  <2> QED
    BY <1>1, <1>2, Induction
<1> QED
    BY <1>3

LEMMA CollapsedIs ==
    ASSUME NEW hist, Len(hist) \in Nat, NEW f, CollapsesTo(f, hist, Len(hist))
    PROVE  Collapsed(hist) = f[Len(hist)]
<1>1. \A g : CollapsesTo(g, hist, Len(hist)) => g = f
    BY CollapsesUnique
<1> QED
    BY <1>1 DEF Collapsed, CollapsesTo, NoContents

\* One more message is one more step of the loop.
LEMMA CollapsedEmpty == Collapsed(<<>>) = NoContents
<1>1. CollapsesTo([k \in 0..0 |-> NoContents], <<>>, 0)
    BY DEF CollapsesTo
<1>2. Len(<<>>) = 0
    OBVIOUS
<1> QED
    BY <1>1, <1>2, CollapsedIs

LEMMA CollapsedAppend ==
    ASSUME NEW M, NEW hist \in Seq(M), NEW m \in M
    PROVE  Collapsed(Append(hist, m)) = CollapseStep(Collapsed(hist), m)
<1> DEFINE n == Len(hist)
           more == Append(hist, m)
<1>1. n \in Nat /\ Len(more) = n + 1 /\ more[n + 1] = m /\ \A k \in 1..n : more[k] = hist[k]
    OBVIOUS
<1> HIDE DEF n, more
<1>2. PICK f : CollapsesTo(f, hist, n)
    BY <1>1, CollapsesExists
<1>3. CollapsesTo(f, more, n)
    BY <1>1, <1>2 DEF CollapsesTo
<1> DEFINE g == [k \in 0..(n + 1) |-> IF k <= n THEN f[k] ELSE CollapseStep(f[n], more[n + 1])]
<1>4. CollapsesTo(g, more, n + 1)
    BY <1>1, <1>3, CollapsesLonger
<1>5. g[n + 1] = CollapseStep(f[n], m)
    BY <1>1
<1> HIDE DEF g
<1>6. Collapsed(more) = g[n + 1]
    BY <1>1, <1>4, CollapsedIs
<1>7. Collapsed(hist) = f[n]
    BY <1>1, <1>2, CollapsedIs DEF n
<1> QED
    BY <1>5, <1>6, <1>7 DEF more
(***************************************************************************)
(* The loop over the contents of a Gemini request.                         *)
(***************************************************************************)
\* acc holds the contents after each of the first n messages.
PushesTo(acc, hist, n) ==
    acc = [k \in 0..n |-> IF k = 0 THEN <<>> ELSE PushContent(acc[k - 1], hist[k])]

LEMMA PushesUnique ==
    ASSUME NEW hist, NEW n \in Nat, NEW f, NEW g,
           PushesTo(f, hist, n), PushesTo(g, hist, n)
    PROVE  f = g
<1> DEFINE S == {k \in Nat : k <= n => f[k] = g[k]}
<1>1. 0 \in S
    BY DEF PushesTo
<1>2. ASSUME NEW k \in Nat, k \in S PROVE k + 1 \in S
  <2> SUFFICES ASSUME k + 1 <= n PROVE f[k + 1] = g[k + 1]
    OBVIOUS
  <2>1. k + 1 \in 0..n /\ k + 1 # 0 /\ (k + 1) - 1 = k
    OBVIOUS
  <2>2. f[k] = g[k]
    BY <1>2
  <2> QED
    BY <2>1, <2>2 DEF PushesTo
<1>3. \A k \in 0..n : f[k] = g[k]
  <2> HIDE DEF S
  <2>1. Nat \subseteq S
    BY <1>1, <1>2, Induction
  <2> QED
    BY <2>1 DEF S
<1> QED
    BY <1>3 DEF PushesTo

LEMMA PushesLonger ==
    ASSUME NEW hist, NEW n \in Nat, NEW f, PushesTo(f, hist, n)
    PROVE  PushesTo([k \in 0..(n + 1) |->
                            IF k <= n THEN f[k] ELSE PushContent(f[n], hist[n + 1])],
                       hist, n + 1)
<1> DEFINE g == [k \in 0..(n + 1) |->
                    IF k <= n THEN f[k] ELSE PushContent(f[n], hist[n + 1])]
<1>1. g[0] = <<>>
    BY DEF PushesTo
<1>2. ASSUME NEW k \in 1..(n + 1) PROVE g[k] = PushContent(g[k - 1], hist[k])
  <2>1. CASE k <= n
    <3>1. k \in 0..n /\ k # 0 /\ k - 1 <= n /\ k - 1 \in 0..(n + 1) /\ k \in 0..(n + 1)
      BY <2>1
    <3>2. g[k] = f[k] /\ g[k - 1] = f[k - 1]
      BY <3>1, <2>1
    <3> QED
      BY <3>1, <3>2 DEF PushesTo
  <2>2. CASE k = n + 1
    <3>1. g[k] = PushContent(f[n], hist[n + 1]) /\ g[k - 1] = f[n]
      BY <2>2
    <3> QED
      BY <3>1, <2>2
  <2> QED
    BY <2>1, <2>2
<1>3. g = [k \in 0..(n + 1) |-> IF k = 0 THEN <<>> ELSE PushContent(g[k - 1], hist[k])]
  <2>1. \A k \in 0..(n + 1) :
            g[k] = IF k = 0 THEN <<>> ELSE PushContent(g[k - 1], hist[k])
    <3> HIDE DEF g
    <3>1. \A k \in 0..(n + 1) : k = 0 \/ k \in 1..(n + 1)
      OBVIOUS
    <3> QED
      BY <1>1, <1>2, <3>1
  <2>2. g = [k \in 0..(n + 1) |-> g[k]]
    OBVIOUS
  <2> QED
    BY <2>1, <2>2
<1> QED
    BY <1>3 DEF PushesTo

LEMMA PushesExists ==
    ASSUME NEW hist, NEW n \in Nat
    PROVE  \E f : PushesTo(f, hist, n)
<1> DEFINE S == {k \in Nat : \E f : PushesTo(f, hist, k)}
<1>1. 0 \in S
  <2>1. PushesTo([k \in 0..0 |-> <<>>], hist, 0)
    BY DEF PushesTo
  <2> QED
    BY <2>1
<1>2. ASSUME NEW k \in Nat, k \in S PROVE k + 1 \in S
  <2>1. PICK f : PushesTo(f, hist, k)
    BY <1>2
  <2>2. \E g : PushesTo(g, hist, k + 1)
    BY <2>1, PushesLonger
  <2> QED
    BY <2>2
<1>3. Nat \subseteq S
  <2> HIDE DEF S
  <2> QED
    BY <1>1, <1>2, Induction
<1> QED
    BY <1>3

LEMMA ContentsIs ==
    ASSUME NEW hist, Len(hist) \in Nat, NEW f, PushesTo(f, hist, Len(hist))
    PROVE  GoogleContents(hist) = f[Len(hist)]
<1>1. \A g : PushesTo(g, hist, Len(hist)) => g = f
    BY PushesUnique
<1> QED
    BY <1>1 DEF GoogleContents, PushesTo

\* One more message is at most one more content.
LEMMA ContentsEmpty == GoogleContents(<<>>) = <<>>
<1>1. PushesTo([k \in 0..0 |-> <<>>], <<>>, 0)
    BY DEF PushesTo
<1>2. Len(<<>>) = 0
    OBVIOUS
<1> QED
    BY <1>1, <1>2, ContentsIs

LEMMA ContentsAppend ==
    ASSUME NEW M, NEW hist \in Seq(M), NEW m \in M
    PROVE  GoogleContents(Append(hist, m)) = PushContent(GoogleContents(hist), m)
<1> DEFINE n == Len(hist)
           more == Append(hist, m)
<1>1. n \in Nat /\ Len(more) = n + 1 /\ more[n + 1] = m /\ \A k \in 1..n : more[k] = hist[k]
    OBVIOUS
<1> HIDE DEF n, more
<1>2. PICK f : PushesTo(f, hist, n)
    BY <1>1, PushesExists
<1>3. PushesTo(f, more, n)
    BY <1>1, <1>2 DEF PushesTo
<1> DEFINE g == [k \in 0..(n + 1) |-> IF k <= n THEN f[k] ELSE PushContent(f[n], more[n + 1])]
<1>4. PushesTo(g, more, n + 1)
    BY <1>1, <1>3, PushesLonger
<1>5. g[n + 1] = PushContent(f[n], m)
    BY <1>1
<1> HIDE DEF g
<1>6. GoogleContents(more) = g[n + 1]
    BY <1>1, <1>4, ContentsIs
<1>7. GoogleContents(hist) = f[n]
    BY <1>1, <1>2, ContentsIs DEF n
<1> QED
    BY <1>5, <1>6, <1>7 DEF more
(***************************************************************************)
(* Conversations.  `rest` holds the calls that still wait for an answer.   *)
(***************************************************************************)
Roles == {"system", "user", "assistant", "tool", "model"}
Wire(Item) == [role: Roles, text: BOOLEAN, calls: Seq(Item), answers: Seq(Item)]

\* Calls are answered from the first on, one message each, right after the
\* message that makes them; only the last message with calls may have some left.
Chat(wire, rest) ==
    /\ \A k \in DOMAIN wire : \A i \in 1..Len(wire[k].calls) :
            k + i <= Len(wire) => wire[k + i].answers = <<wire[k].calls[i]>>
    /\ \A j \in DOMAIN wire : wire[j].answers # <<>> =>
            \E k \in 1..(j - 1) : j - k <= Len(wire[k].calls)
    /\ \A k \in DOMAIN wire : Len(wire) - k < Len(wire[k].calls) =>
            /\ Len(rest) = Len(wire[k].calls) - (Len(wire) - k)
            /\ \A i \in 1..Len(rest) : rest[i] = wire[k].calls[(Len(wire) - k) + i]
    /\ rest # <<>> => \E k \in DOMAIN wire : Len(wire) - k < Len(wire[k].calls)

LEMMA ChatEmpty == Chat(<<>>, <<>>)
BY DEF Chat

\* NoContents left to answer: everything is answered.
LEMMA ChatAnswered ==
    ASSUME NEW Item, NEW wire \in Seq(Wire(Item)), Chat(wire, <<>>)
    PROVE  Answered(wire)
<1>1. ASSUME NEW k \in DOMAIN wire, NEW i \in 1..Len(wire[k].calls)
      PROVE  k + i <= Len(wire)
  <2>1. PICK n \in Nat : n = Len(wire[k].calls)
    BY DEF Wire
  <2>2. PICK l \in Nat : l = Len(wire) /\ DOMAIN wire = 1..l
    OBVIOUS
  <2>3. l - k < n => 0 = n - (l - k)
    BY <2>1, <2>2 DEF Chat
  <2> QED
    BY <2>1, <2>2, <2>3
<1> QED
    BY <1>1 DEF Chat, Answered

\* A message that answers the first of the waiting calls.
LEMMA ChatAnswer ==
    ASSUME NEW Item, NEW wire \in Seq(Wire(Item)), NEW rest \in Seq(Item), rest # <<>>,
           NEW m \in Wire(Item), m.calls = <<>>, m.answers = <<Head(rest)>>,
           Chat(wire, rest)
    PROVE  Chat(Append(wire, m), Tail(rest))
<1> DEFINE more == Append(wire, m)
           next == Tail(rest)
<1>1. PICK l \in Nat : l = Len(wire) /\ DOMAIN wire = 1..l
    OBVIOUS
<1>2. /\ Len(more) = l + 1 /\ DOMAIN more = 1..(l + 1) /\ more[l + 1] = m
      /\ \A k \in 1..l : more[k] = wire[k]
    BY <1>1
<1>3. PICK q \in Nat : q = Len(rest) /\ q > 0
    OBVIOUS
<1>4. /\ Len(next) = q - 1 /\ next \in Seq(Item) /\ Head(rest) = rest[1]
      /\ \A i \in 1..(q - 1) : next[i] = rest[i + 1]
    BY <1>3
<1>5. \A k \in 1..l : Len(wire[k].calls) \in Nat
    BY <1>1 DEF Wire
<1>6. Len(m.calls) = 0
    OBVIOUS
<1> HIDE DEF more, next
<1>7. ASSUME NEW k \in 1..l, l - k < Len(wire[k].calls)
      PROVE  /\ q = Len(wire[k].calls) - (l - k)
             /\ \A i \in 1..q : rest[i] = wire[k].calls[(l - k) + i]
    BY <1>1, <1>3, <1>7 DEF Chat
<1>8. \E k \in 1..l : l - k < Len(wire[k].calls)
    BY <1>1 DEF Chat
<1>9. ASSUME NEW k \in DOMAIN more, NEW i \in 1..Len(more[k].calls), k + i <= Len(more)
      PROVE  more[k + i].answers = <<more[k].calls[i]>>
  <2>1. k \in 1..l /\ more[k] = wire[k]
    BY <1>2, <1>6, <1>9
  <2>2. PICK n \in Nat : n = Len(wire[k].calls)
    BY <2>1, <1>5
  <2>3. CASE k + i <= l
    <3>1. wire[k + i].answers = <<wire[k].calls[i]>>
      BY <1>1, <1>9, <2>1, <2>3 DEF Chat
    <3>2. k + i \in 1..l
      BY <2>1, <2>2, <2>3, <1>9
    <3> QED
      BY <3>1, <3>2, <2>1, <1>2
  <2>4. CASE k + i = l + 1
    <3>1. l - k < n /\ i = (l - k) + 1 /\ 1 \in 1..q
      <4>1. k \in Nat /\ i \in 1..n
        BY <2>1, <2>2
      <4> QED
        BY <4>1, <2>4, <1>3
    <3>2. rest[1] = wire[k].calls[(l - k) + 1]
      BY <1>7, <2>1, <2>2, <3>1
    <3> QED
      BY <3>1, <3>2, <2>1, <2>4, <1>2, <1>4
  <2>5. k + i <= l \/ k + i = l + 1
    BY <1>1, <1>2, <1>9, <2>1, <2>2
  <2> QED
    BY <2>3, <2>4, <2>5
<1>10. ASSUME NEW j \in DOMAIN more, more[j].answers # <<>>
       PROVE  \E k \in 1..(j - 1) : j - k <= Len(more[k].calls)
  <2>1. CASE j \in 1..l
    <3>1. PICK k \in 1..(j - 1) : j - k <= Len(wire[k].calls)
      BY <1>1, <1>2, <1>10, <2>1 DEF Chat
    <3>2. k \in 1..l
      BY <2>1, <3>1
    <3> QED
      BY <3>1, <3>2, <1>2
  <2>2. CASE j = l + 1
    <3>1. PICK k \in 1..l : l - k < Len(wire[k].calls)
      BY <1>8
    <3>2. PICK n \in Nat : n = Len(wire[k].calls)
      BY <1>5
    <3>3. k \in 1..(j - 1) /\ j - k <= n
      BY <2>2, <3>1, <3>2
    <3> QED
      BY <3>2, <3>3, <1>2
  <2> QED
    BY <1>2, <2>1, <2>2
<1>11. ASSUME NEW k \in DOMAIN more, (l + 1) - k < Len(more[k].calls)
       PROVE  /\ Len(next) = Len(more[k].calls) - ((l + 1) - k)
              /\ \A i \in 1..Len(next) : next[i] = more[k].calls[((l + 1) - k) + i]
  <2>1. k \in 1..l /\ more[k] = wire[k]
    BY <1>2, <1>6, <1>11
  <2>2. PICK n \in Nat : n = Len(wire[k].calls)
    BY <2>1, <1>5
  <2>3. l - k < n
    BY <1>11, <2>1, <2>2
  <2>4. q = n - (l - k) /\ \A i \in 1..q : rest[i] = wire[k].calls[(l - k) + i]
    BY <1>7, <2>1, <2>2, <2>3
  <2>5. ASSUME NEW i \in 1..(q - 1) PROVE next[i] = wire[k].calls[((l + 1) - k) + i]
    <3>1. i + 1 \in 1..q /\ (l - k) + (i + 1) = ((l + 1) - k) + i
      BY <2>1
    <3>2. rest[i + 1] = wire[k].calls[(l - k) + (i + 1)]
      BY <2>4, <3>1
    <3> QED
      BY <3>1, <3>2, <1>4
  <2>6. q - 1 = n - ((l + 1) - k)
    BY <2>1, <2>4
  <2> QED
    BY <2>1, <2>2, <2>5, <2>6, <1>4
<1>12. ASSUME next # <<>> PROVE \E k \in DOMAIN more : (l + 1) - k < Len(more[k].calls)
  <2>1. q > 1
    BY <1>3, <1>4, <1>12
  <2>2. PICK k \in 1..l : l - k < Len(wire[k].calls)
    BY <1>8
  <2>3. PICK n \in Nat : n = Len(wire[k].calls)
    BY <1>5
  <2>4. q = n - (l - k)
    BY <1>7, <2>2, <2>3
  <2>5. (l + 1) - k < n /\ k \in 1..(l + 1)
    BY <2>1, <2>2, <2>4
  <2> QED
    BY <2>2, <2>3, <2>5, <1>2
<1>13. Chat(more, next)
    BY <1>2, <1>9, <1>10, <1>11, <1>12 DEF Chat
<1> QED
    BY <1>13 DEF more, next

\* A message that answers nothing, sent when nothing waits.
LEMMA ChatSpeak ==
    ASSUME NEW Item, NEW wire \in Seq(Wire(Item)),
           NEW m \in Wire(Item), m.answers = <<>>, Chat(wire, <<>>)
    PROVE  Chat(Append(wire, m), m.calls)
<1> DEFINE more == Append(wire, m)
           next == m.calls
<1>1. PICK l \in Nat : l = Len(wire) /\ DOMAIN wire = 1..l
    OBVIOUS
<1>2. /\ Len(more) = l + 1 /\ DOMAIN more = 1..(l + 1) /\ more[l + 1] = m
      /\ \A k \in 1..l : more[k] = wire[k]
    BY <1>1
<1>3. next \in Seq(Item)
    BY DEF Wire
<1>4. PICK q \in Nat : q = Len(next)
    BY <1>3
<1>5. \A k \in 1..l : Len(wire[k].calls) \in Nat
    BY <1>1 DEF Wire
<1> HIDE DEF more
<1>6. ASSUME NEW k \in 1..l PROVE Len(wire[k].calls) <= l - k
  <2>1. PICK n \in Nat : n = Len(wire[k].calls)
    BY <1>5
  <2>2. l - k < n => 0 = n - (l - k)
    BY <1>1, <2>1 DEF Chat
  <2> QED
    BY <2>1, <2>2
<1>7. ASSUME NEW k \in DOMAIN more, NEW i \in 1..Len(more[k].calls), k + i <= Len(more)
      PROVE  more[k + i].answers = <<more[k].calls[i]>>
  <2>1. k # l + 1
    BY <1>2, <1>4, <1>7
  <2>2. k \in 1..l /\ more[k] = wire[k]
    BY <1>2, <2>1
  <2>3. PICK n \in Nat : n = Len(wire[k].calls)
    BY <2>2, <1>5
  <2>4. k + i \in 1..l
    BY <1>6, <1>7, <2>2, <2>3
  <2>5. wire[k + i].answers = <<wire[k].calls[i]>>
    <3>1. k \in DOMAIN wire /\ i \in 1..Len(wire[k].calls) /\ k + i <= Len(wire)
      BY <1>1, <2>2, <2>4
    <3> QED
      BY <3>1 DEF Chat
  <2> QED
    BY <2>2, <2>4, <2>5, <1>2
<1>8. ASSUME NEW j \in DOMAIN more, more[j].answers # <<>>
      PROVE  \E k \in 1..(j - 1) : j - k <= Len(more[k].calls)
  <2>1. j \in 1..l
    BY <1>2, <1>8
  <2>2. PICK k \in 1..(j - 1) : j - k <= Len(wire[k].calls)
    BY <1>1, <1>2, <1>8, <2>1 DEF Chat
  <2>3. k \in 1..l
    BY <2>1, <2>2
  <2> QED
    BY <2>2, <2>3, <1>2
<1>9. ASSUME NEW k \in DOMAIN more, (l + 1) - k < Len(more[k].calls)
      PROVE  /\ Len(next) = Len(more[k].calls) - ((l + 1) - k)
             /\ \A i \in 1..Len(next) : next[i] = more[k].calls[((l + 1) - k) + i]
  <2>1. k = l + 1
    <3> SUFFICES ASSUME k \in 1..l PROVE FALSE
      BY <1>2
    <3>1. PICK n \in Nat : n = Len(wire[k].calls)
      BY <1>5
    <3>2. n <= l - k /\ (l + 1) - k < n
      BY <1>2, <1>6, <1>9, <3>1
    <3> QED
      BY <3>2
  <2>2. more[k].calls = next /\ (l + 1) - k = 0
    BY <1>2, <2>1
  <2>3. \A i \in 1..q : 0 + i = i
    OBVIOUS
  <2> QED
    BY <2>2, <2>3, <1>4
<1>10. ASSUME next # <<>> PROVE \E k \in DOMAIN more : (l + 1) - k < Len(more[k].calls)
  <2>1. q > 0
    BY <1>3, <1>4, <1>10
  <2>2. l + 1 \in DOMAIN more /\ (l + 1) - (l + 1) < q /\ more[l + 1].calls = next
    BY <2>1, <1>2
  <2> QED
    BY <2>2, <1>4
<1>11. Chat(more, next)
    BY <1>2, <1>7, <1>8, <1>9, <1>10 DEF Chat
<1> QED
    BY <1>11 DEF more

(***************************************************************************)
(* Anthropic: `acc` is what the loop has so far.                           *)
(***************************************************************************)
\* The calls of every message but the last are answered together right after
\* it; those of the last are answered in part by what is still pending.
Packed(acc, rest) ==
    /\ \A k \in DOMAIN acc.out : k < Len(acc.out) =>
            acc.out[k].calls = acc.out[k + 1].answers
    /\ acc.out # <<>> =>
            /\ acc.out[1].answers = <<>>
            /\ acc.out[Len(acc.out)].calls = acc.pending \o rest
    /\ acc.out = <<>> => acc.pending = <<>> /\ rest = <<>>

Loop(Item) == [out: Seq(Wire(Item)), pending: Seq(Item)]

LEMMA PackedFlush ==
    ASSUME NEW Item, NEW acc \in Loop(Item), Packed(acc, <<>>)
    PROVE  /\ Flush(acc) \in Loop(Item)
           /\ Flush(acc).pending = <<>>
           /\ Packed(Flush(acc), <<>>)
<1>1. PICK out \in Seq(Wire(Item)), pending \in Seq(Item) : acc = [out |-> out, pending |-> pending]
    BY DEF Loop
<1>2. CASE pending = <<>>
  <2>1. Flush(acc) = acc
    BY <1>1, <1>2 DEF Flush
  <2> QED
    BY <2>1, <1>1, <1>2
<1>3. CASE pending # <<>>
  <2> DEFINE m == Message("user", FALSE, <<>>, pending)
             more == Append(out, m)
  <2>1. m \in Wire(Item) /\ m.calls = <<>> /\ m.answers = pending
    BY DEF Message, Wire, Roles
  <2> HIDE DEF m
  <2>2. Flush(acc) = [out |-> more, pending |-> <<>>]
    BY <1>1, <1>3 DEF Flush, m
  <2>3. PICK l \in Nat : l = Len(out) /\ DOMAIN out = 1..l
    OBVIOUS
  <2>4. out # <<>> /\ l > 0 /\ out[l].calls = pending /\ out[1].answers = <<>>
    <3>1. out # <<>>
      BY <1>1, <1>3 DEF Packed
    <3>2. pending \o <<>> = pending
      OBVIOUS
    <3>3. out[Len(out)].calls = pending \o <<>> /\ out[1].answers = <<>>
      BY <3>1, <1>1 DEF Packed
    <3> QED
      BY <3>1, <3>2, <3>3, <2>3
  <2>5. /\ more \in Seq(Wire(Item)) /\ Len(more) = l + 1 /\ DOMAIN more = 1..(l + 1)
        /\ more[l + 1] = m /\ \A k \in 1..l : more[k] = out[k]
        /\ more # <<>>
    BY <2>1, <2>3
  <2> HIDE DEF more
  <2>6. ASSUME NEW k \in 1..l PROVE more[k].calls = more[k + 1].answers
    <3>1. CASE k = l
      BY <3>1, <2>1, <2>4, <2>5
    <3>2. CASE k < l
      <4>1. out[k].calls = out[k + 1].answers
        BY <3>2, <2>3, <1>1 DEF Packed
      <4>2. k + 1 \in 1..l
        BY <3>2
      <4> QED
        BY <4>1, <4>2, <2>5
    <3> QED
      BY <3>1, <3>2
  <2>7. more[1].answers = <<>> /\ more[l + 1].calls = <<>> \o <<>>
    BY <2>1, <2>4, <2>5
  <2>8. \A k \in 1..(l + 1) : k < l + 1 => k \in 1..l
    OBVIOUS
  <2>9. Packed([out |-> more, pending |-> <<>>], <<>>)
    BY <2>5, <2>6, <2>7, <2>8 DEF Packed
  <2>10. [out |-> more, pending |-> <<>>] \in Loop(Item)
    BY <2>5 DEF Loop
  <2> QED
    BY <2>2, <2>9, <2>10
<1> QED
    BY <1>2, <1>3

LEMMA PackedAnswered ==
    ASSUME NEW Item, NEW acc \in Loop(Item), Packed(acc, <<>>)
    PROVE  AnsweredAtOnce(Flush(acc).out)
<1> DEFINE wire == Flush(acc).out
<1>1. /\ wire \in Seq(Wire(Item))
      /\ \A k \in DOMAIN wire : k < Len(wire) => wire[k].calls = wire[k + 1].answers
      /\ wire # <<>> => wire[1].answers = <<>> /\ wire[Len(wire)].calls = <<>>
    BY PackedFlush DEF Packed, Loop
<1> HIDE DEF wire
<1>2. PICK l \in Nat : l = Len(wire) /\ DOMAIN wire = 1..l
    BY <1>1
<1>3. ASSUME NEW k \in 1..l, wire[k].calls # <<>>
      PROVE  k < l /\ wire[k + 1].answers = wire[k].calls
  <2>1. k # l
    BY <1>1, <1>2, <1>3
  <2> QED
    BY <2>1, <1>1, <1>2
<1>4. ASSUME NEW k \in 1..l, wire[k].answers # <<>>
      PROVE  k > 1 /\ wire[k - 1].calls = wire[k].answers
  <2>1. k # 1
    BY <1>1, <1>2, <1>4
  <2>2. k - 1 \in 1..l /\ k - 1 < l /\ (k - 1) + 1 = k
    BY <2>1
  <2> QED
    BY <2>2, <1>1, <1>2
<1> QED
    BY <1>2, <1>3, <1>4 DEF AnsweredAtOnce, wire

\* The first of the rest may as well stand at the end of what comes before.
LEMMA MoveOne ==
    ASSUME NEW Item, NEW p \in Seq(Item), NEW rest \in Seq(Item), rest # <<>>
    PROVE  (p \o <<Head(rest)>>) \o Tail(rest) = p \o rest
<1>1. PICK x \in Seq(Item), t \in Seq(Item) : x = <<Head(rest)>> /\ t = Tail(rest) /\ x \o t = rest
  <2>1. <<Head(rest)>> \in Seq(Item) /\ Tail(rest) \in Seq(Item)
    OBVIOUS
  <2>2. <<Head(rest)>> \o Tail(rest) = rest
    OBVIOUS
  <2> QED
    BY <2>1, <2>2
<1>2. (p \o x) \o t = p \o (x \o t)
    BY ConcatAssociative
<1> QED
    BY <1>1, <1>2

LEMMA PackedAnswer ==
    ASSUME NEW Item, NEW acc \in Loop(Item), NEW rest \in Seq(Item), rest # <<>>,
           NEW m \in Wire(Item), m.role = "tool", m.answers = <<Head(rest)>>,
           Packed(acc, rest)
    PROVE  /\ CollapseStep(acc, m) \in Loop(Item)
           /\ Packed(CollapseStep(acc, m), Tail(rest))
<1>1. PICK out \in Seq(Wire(Item)), pending \in Seq(Item) : acc = [out |-> out, pending |-> pending]
    BY DEF Loop
<1> DEFINE h == <<Head(rest)>>
<1>2. h \in Seq(Item) /\ Tail(rest) \in Seq(Item) /\ h \o Tail(rest) = rest
    OBVIOUS
<1> HIDE DEF h
<1>3. CollapseStep(acc, m) = [out |-> out, pending |-> pending \o h]
    BY <1>1 DEF CollapseStep, h
<1>4. (pending \o h) \o Tail(rest) = pending \o rest /\ pending \o h \in Seq(Item)
  <2>1. pending \o h \in Seq(Item)
    BY <1>2
  <2> QED
    BY <2>1, <1>2, MoveOne DEF h
<1>5. /\ \A k \in DOMAIN out : k < Len(out) => out[k].calls = out[k + 1].answers
      /\ out # <<>> => out[1].answers = <<>> /\ out[Len(out)].calls = pending \o rest
      /\ out # <<>>
    BY <1>1 DEF Packed
<1>6. Packed([out |-> out, pending |-> pending \o h], Tail(rest))
    BY <1>4, <1>5 DEF Packed
<1>7. [out |-> out, pending |-> pending \o h] \in Loop(Item)
    BY <1>4 DEF Loop
<1> QED
    BY <1>3, <1>6, <1>7

LEMMA PackedSpeak ==
    ASSUME NEW Item, NEW acc \in Loop(Item),
           NEW m \in Wire(Item), m.role \notin {"system", "tool"}, m.answers = <<>>,
           Packed(acc, <<>>)
    PROVE  /\ CollapseStep(acc, m) \in Loop(Item)
           /\ Packed(CollapseStep(acc, m), m.calls)
<1>1. PICK out \in Seq(Wire(Item)) :
        /\ Flush(acc) = [out |-> out, pending |-> <<>>]
        /\ Packed([out |-> out, pending |-> <<>>], <<>>)
    BY PackedFlush DEF Loop
<1> DEFINE more == Append(out, m)
<1>2. CollapseStep(acc, m) = [out |-> more, pending |-> <<>>]
  <2>1. CollapseStep(acc, m) = [Flush(acc) EXCEPT !.out = Append(Flush(acc).out, m)]
    BY DEF CollapseStep
  <2>2. Append(Flush(acc).out, m) = more
    BY <1>1
  <2> HIDE DEF more
  <2>3. [[out |-> out, pending |-> <<>>] EXCEPT !.out = more] = [out |-> more, pending |-> <<>>]
    OBVIOUS
  <2> QED
    BY <2>1, <2>2, <2>3, <1>1
<1>3. PICK l \in Nat : l = Len(out) /\ DOMAIN out = 1..l
    OBVIOUS
<1>4. /\ more \in Seq(Wire(Item)) /\ Len(more) = l + 1 /\ DOMAIN more = 1..(l + 1)
      /\ more[l + 1] = m /\ \A k \in 1..l : more[k] = out[k]
      /\ more # <<>>
    BY <1>3
<1> HIDE DEF more
<1>5. <<>> \o <<>> = <<>> /\ <<>> \o m.calls = m.calls
    BY DEF Wire
<1>6. /\ \A k \in DOMAIN out : k < Len(out) => out[k].calls = out[k + 1].answers
      /\ out # <<>> => out[1].answers = <<>> /\ out[Len(out)].calls = <<>>
    BY <1>1, <1>5 DEF Packed
<1>7. ASSUME NEW k \in 1..l PROVE more[k].calls = more[k + 1].answers
  <2>1. CASE k = l
    <3>1. out # <<>> /\ out[l].calls = <<>>
      BY <2>1, <1>3, <1>6
    <3> QED
      BY <2>1, <3>1, <1>4
  <2>2. CASE k < l
    <3>1. out[k].calls = out[k + 1].answers
      BY <2>2, <1>3, <1>6
    <3>2. k + 1 \in 1..l
      BY <2>2
    <3> QED
      BY <3>1, <3>2, <1>4
  <2> QED
    BY <2>1, <2>2
<1>8. more[1].answers = <<>>
  <2>1. CASE l = 0
    BY <2>1, <1>4
  <2>2. CASE l > 0
    <3>1. out # <<>> /\ 1 \in 1..l
      BY <2>2, <1>3
    <3> QED
      BY <3>1, <1>4, <1>6
  <2> QED
    BY <2>1, <2>2
<1>9. more[l + 1].calls = <<>> \o m.calls
    BY <1>4, <1>5
<1>10. \A k \in 1..(l + 1) : k < l + 1 => k \in 1..l
    OBVIOUS
<1>11. Packed([out |-> more, pending |-> <<>>], m.calls)
    BY <1>4, <1>7, <1>8, <1>9, <1>10 DEF Packed
<1>12. [out |-> more, pending |-> <<>>] \in Loop(Item)
    BY <1>4 DEF Loop
<1> QED
    BY <1>2, <1>11, <1>12

(***************************************************************************)
(* A history on all four wires.                                            *)
(***************************************************************************)
LEMMA NamedIs ==
    ASSUME NEW Call, \A c \in Call : c.tool \in Tools, NEW calls \in Seq(Call)
    PROVE  /\ Named(calls) \in Seq(Tools)
           /\ Len(Named(calls)) = Len(calls)
           /\ Named(calls) = <<>> <=> calls = <<>>
           /\ calls # <<>> => /\ Head(Named(calls)) = Head(calls).tool
                              /\ Tail(Named(calls)) = Named(Tail(calls))
<1> DEFINE names == Named(calls)
<1>1. PICK l \in Nat : l = Len(calls) /\ DOMAIN calls = 1..l
    OBVIOUS
<1>2. names = [k \in 1..l |-> calls[k].tool]
    BY <1>1 DEF Named
<1>3. \A k \in 1..l : calls[k].tool \in Tools
    BY <1>1
<1> HIDE DEF names
<1>4. names \in Seq(Tools) /\ Len(names) = l /\ (names = <<>> <=> calls = <<>>)
    BY <1>1, <1>2, <1>3
<1>5. ASSUME calls # <<>>
      PROVE  Head(names) = Head(calls).tool /\ Tail(names) = Named(Tail(calls))
  <2>1. l > 0 /\ Head(calls) = calls[1] /\ Head(names) = names[1]
    BY <1>1, <1>4, <1>5
  <2>2. Tail(calls) \in Seq(Call) /\ Len(Tail(calls)) = l - 1 /\ l - 1 \in Nat
        /\ \A k \in 1..(l - 1) : Tail(calls)[k] = calls[k + 1]
    BY <1>1, <1>5, <2>1
  <2>3. Named(Tail(calls)) = [k \in 1..(l - 1) |-> Tail(calls)[k].tool]
    <3>1. DOMAIN Tail(calls) = 1..(l - 1)
      BY <2>2
    <3> QED
      BY <3>1 DEF Named
  <2>4. /\ Tail(names) \in Seq(Tools) /\ Len(Tail(names)) = l - 1
        /\ \A k \in 1..(l - 1) : Tail(names)[k] = names[k + 1]
    BY <1>4, <2>1, HeadTailProperties
  <2>5. \A k \in 1..(l - 1) : names[k + 1] = Tail(calls)[k].tool
    <3>1. \A k \in 1..(l - 1) : k + 1 \in 1..l
      BY <2>2
    <3> QED
      BY <1>2, <2>2, <3>1
  <2>6. /\ Named(Tail(calls)) \in Seq(Tools) /\ Len(Named(Tail(calls))) = l - 1
        /\ \A k \in 1..(l - 1) : Named(Tail(calls))[k] = Tail(calls)[k].tool
    <3>1. \A k \in 1..(l - 1) : Tail(calls)[k].tool \in Tools
      BY <2>2
    <3> QED
      BY <2>2, <2>3, <3>1
  <2>7. Tail(names) = Named(Tail(calls))
    BY <2>4, <2>5, <2>6, SeqEqual
  <2>8. names[1] = calls[1].tool
    BY <1>2, <2>1
  <2> QED
    BY <2>1, <2>7, <2>8
<1> QED
    BY <1>1, <1>4, <1>5 DEF names

LEMMA NamedOne ==
    ASSUME NEW c
    PROVE  Named(<<c>>) = <<c.tool>> /\ Named(<<>>) = <<>>
BY DEF Named

\* OllamaMessages, message by message.
MessageToOllama(m) == [m EXCEPT !.calls = Named(@), !.answers = Named(@)]

LEMMA OpenAiAppend ==
    ASSUME NEW M, NEW hist \in Seq(M), NEW m \in M
    PROVE  OpenAiMessages(Append(hist, m)) = Append(OpenAiMessages(hist), MessageToOpenAi(m))
<1>1. PICK l \in Nat : l = Len(hist) /\ DOMAIN hist = 1..l
    OBVIOUS
<1> DEFINE more == Append(hist, m)
<1>2. DOMAIN more = 1..(l + 1) /\ more[l + 1] = m /\ \A k \in 1..l : more[k] = hist[k]
    BY <1>1
<1>3. /\ OpenAiMessages(hist) = [k \in 1..l |-> MessageToOpenAi(hist[k])]
      /\ OpenAiMessages(more) = [k \in 1..(l + 1) |-> MessageToOpenAi(more[k])]
    BY <1>1, <1>2 DEF OpenAiMessages
<1> HIDE DEF more
<1> DEFINE w == OpenAiMessages(hist)
           x == MessageToOpenAi(m)
           X == {MessageToOpenAi(y) : y \in M}
<1>4. w \in Seq(X) /\ Len(w) = l /\ x \in X
  <2>1. \A k \in 1..l : MessageToOpenAi(hist[k]) \in X
    BY <1>1
  <2>2. x \in X
    OBVIOUS
  <2> HIDE DEF x, X
  <2> QED
    BY <2>1, <2>2, <1>3
<1>5. OpenAiMessages(more) \in Seq(X) /\ Len(OpenAiMessages(more)) = l + 1
  <2>1. \A k \in 1..(l + 1) : MessageToOpenAi(more[k]) \in X
    <3>1. \A k \in 1..(l + 1) : more[k] \in M
      BY <1>1, <1>2
    <3> QED
      BY <3>1
  <2> HIDE DEF X
  <2> QED
    BY <2>1, <1>3
<1>6. \A k \in 1..l : w[k] = MessageToOpenAi(hist[k])
    BY <1>3
<1>7. OpenAiMessages(more)[l + 1] = x /\ \A k \in 1..l : OpenAiMessages(more)[k] = w[k]
    BY <1>2, <1>3, <1>6
<1> DEFINE v == OpenAiMessages(more)
<1> HIDE DEF w, x, X, v
<1>8. /\ Append(w, x) \in Seq(X) /\ Len(Append(w, x)) = l + 1
      /\ Append(w, x)[l + 1] = x /\ \A k \in 1..l : Append(w, x)[k] = w[k]
    BY <1>4
<1>9. \A k \in 1..(l + 1) : v[k] = Append(w, x)[k]
  <2>1. \A k \in 1..(l + 1) : k = l + 1 \/ k \in 1..l
    OBVIOUS
  <2> QED
    BY <2>1, <1>7, <1>8 DEF v
<1>10. v = Append(w, x)
    BY <1>5, <1>8, <1>9, SeqEqual DEF v
<1> QED
    BY <1>10 DEF v, w, x, more

LEMMA OllamaAppend ==
    ASSUME NEW M, NEW hist \in Seq(M), NEW m \in M
    PROVE  OllamaMessages(Append(hist, m)) = Append(OllamaMessages(hist), MessageToOllama(m))
<1>1. PICK l \in Nat : l = Len(hist) /\ DOMAIN hist = 1..l
    OBVIOUS
<1> DEFINE more == Append(hist, m)
<1>2. DOMAIN more = 1..(l + 1) /\ more[l + 1] = m /\ \A k \in 1..l : more[k] = hist[k]
    BY <1>1
<1>3. /\ OllamaMessages(hist) = [k \in 1..l |-> MessageToOllama(hist[k])]
      /\ OllamaMessages(more) = [k \in 1..(l + 1) |-> MessageToOllama(more[k])]
    BY <1>1, <1>2 DEF OllamaMessages, MessageToOllama
<1> HIDE DEF more
<1> DEFINE w == OllamaMessages(hist)
           x == MessageToOllama(m)
           X == {MessageToOllama(y) : y \in M}
<1>4. w \in Seq(X) /\ Len(w) = l /\ x \in X
  <2>1. \A k \in 1..l : MessageToOllama(hist[k]) \in X
    BY <1>1
  <2>2. x \in X
    OBVIOUS
  <2> HIDE DEF x, X
  <2> QED
    BY <2>1, <2>2, <1>3
<1>5. OllamaMessages(more) \in Seq(X) /\ Len(OllamaMessages(more)) = l + 1
  <2>1. \A k \in 1..(l + 1) : MessageToOllama(more[k]) \in X
    <3>1. \A k \in 1..(l + 1) : more[k] \in M
      BY <1>1, <1>2
    <3> QED
      BY <3>1
  <2> HIDE DEF X
  <2> QED
    BY <2>1, <1>3
<1>6. \A k \in 1..l : w[k] = MessageToOllama(hist[k])
    BY <1>3
<1>7. OllamaMessages(more)[l + 1] = x /\ \A k \in 1..l : OllamaMessages(more)[k] = w[k]
    BY <1>2, <1>3, <1>6
<1> DEFINE v == OllamaMessages(more)
<1> HIDE DEF w, x, X, v
<1>8. /\ Append(w, x) \in Seq(X) /\ Len(Append(w, x)) = l + 1
      /\ Append(w, x)[l + 1] = x /\ \A k \in 1..l : Append(w, x)[k] = w[k]
    BY <1>4
<1>9. \A k \in 1..(l + 1) : v[k] = Append(w, x)[k]
  <2>1. \A k \in 1..(l + 1) : k = l + 1 \/ k \in 1..l
    OBVIOUS
  <2> QED
    BY <2>1, <1>7, <1>8 DEF v
<1>10. v = Append(w, x)
    BY <1>5, <1>8, <1>9, SeqEqual DEF v
<1> QED
    BY <1>10 DEF v, w, x, more

\* The history fits every provider, with the calls of `todo` still to be run.
Talk(Call, hist, todo) ==
    /\ hist \in Seq(Wire(Call)) /\ todo \in Seq(Call)
    /\ OpenAiMessages(hist) \in Seq(Wire(Call)) /\ Chat(OpenAiMessages(hist), todo)
    /\ OllamaMessages(hist) \in Seq(Wire(Tools)) /\ Chat(OllamaMessages(hist), Named(todo))
    /\ GoogleContents(hist) \in Seq(Wire(Tools)) /\ Chat(GoogleContents(hist), Named(todo))
    /\ Collapsed(hist) \in Loop(Call) /\ Packed(Collapsed(hist), todo)

LEMMA MessageTypes ==
    ASSUME NEW Call, NEW m \in Wire(Call),
           Named(m.calls) \in Seq(Tools), Named(m.answers) \in Seq(Tools)
    PROVE  /\ MessageToOllama(m) \in Wire(Tools)
           /\ MessageToOllama(m).calls = Named(m.calls)
           /\ MessageToOllama(m).answers = Named(m.answers)
           /\ GoogleContent(m) \in Wire(Tools)
           /\ GoogleContent(m).calls = Named(m.calls)
           /\ GoogleContent(m).answers = Named(m.answers)
<1>1. PICK cs \in Seq(Tools), as \in Seq(Tools) : cs = Named(m.calls) /\ as = Named(m.answers)
    OBVIOUS
<1>2. PICK role \in Roles, text \in BOOLEAN, calls \in Seq(Call), answers \in Seq(Call) :
        m = [role |-> role, text |-> text, calls |-> calls, answers |-> answers]
    BY DEF Wire
<1>3. MessageToOllama(m) = [role |-> role, text |-> text, calls |-> cs, answers |-> as]
  <2>1. MessageToOllama(m) = [m EXCEPT !.calls = cs, !.answers = as]
    BY <1>1 DEF MessageToOllama
  <2> QED
    BY <2>1, <1>2
<1>4. \E part \in Roles :
        GoogleContent(m) = [role |-> part, text |-> text, calls |-> cs, answers |-> as]
  <2>1. GoogleContent(m) = [role |-> IF m.role = "assistant" THEN "model" ELSE "user",
                            text |-> m.text, calls |-> cs, answers |-> as]
    BY <1>1 DEF GoogleContent, Message
  <2>2. m.text = text /\ "model" \in Roles /\ "user" \in Roles
    BY <1>2 DEF Roles
  <2> QED
    BY <2>1, <2>2
<1> QED
    BY <1>1, <1>3, <1>4 DEF Wire

LEMMA TalkBegin ==
    ASSUME NEW Call PROVE Talk(Call, <<System>>, <<>>)
<1>1. System \in Wire(Call) /\ System \in Wire(Tools) /\ System.calls = <<>>
      /\ System.answers = <<>> /\ System.role = "system"
    BY DEF System, Message, Wire, Roles
<1>2. MessageToOpenAi(System) = System
    BY DEF MessageToOpenAi, System, Message
<1>3. MessageToOllama(System) = System
  <2>1. MessageToOllama(System) = [System EXCEPT !.calls = <<>>, !.answers = <<>>]
    BY <1>1, NamedOne DEF MessageToOllama
  <2> QED
    BY <2>1 DEF System, Message
<1>4. /\ OpenAiMessages(<<>>) = <<>> /\ OllamaMessages(<<>>) = <<>>
      /\ Append(<<>>, System) = <<System>> /\ Named(<<>>) = <<>>
  <2>1. OpenAiMessages(<<>>) = <<>>
    BY DEF OpenAiMessages
  <2>2. OllamaMessages(<<>>) = <<>>
    BY DEF OllamaMessages
  <2>3. Append(<<>>, System) = <<System>>
    OBVIOUS
  <2> QED
    BY <2>1, <2>2, <2>3, NamedOne
<1> DEFINE s == System
           W == Wire(Call)
<1>5. s \in W /\ <<>> \in Seq(W)
    BY <1>1
<1> HIDE DEF s, W
<1>6. OpenAiMessages(<<System>>) = <<System>> /\ OllamaMessages(<<System>>) = <<System>>
  <2>1. OpenAiMessages(Append(<<>>, s)) = Append(OpenAiMessages(<<>>), MessageToOpenAi(s))
    BY <1>5, OpenAiAppend
  <2>2. OllamaMessages(Append(<<>>, s)) = Append(OllamaMessages(<<>>), MessageToOllama(s))
    BY <1>5, OllamaAppend
  <2> QED
    BY <2>1, <2>2, <1>2, <1>3, <1>4 DEF s
<1>7. Chat(<<System>>, <<>>)
  <2>1. s.answers = <<>> /\ s.calls = <<>>
    BY <1>1 DEF s
  <2>2. Chat(Append(<<>>, s), s.calls)
    BY <1>5, <2>1, ChatSpeak, ChatEmpty DEF W
  <2> QED
    BY <2>1, <2>2, <1>4 DEF s
<1>8. GoogleContents(<<System>>) = <<>>
  <2>1. GoogleContents(Append(<<>>, s)) = PushContent(GoogleContents(<<>>), s)
    BY <1>5, ContentsAppend
  <2>2. PushContent(<<>>, s) = <<>>
    BY <1>1 DEF PushContent, s
  <2> QED
    BY <2>1, <2>2, <1>4, ContentsEmpty DEF s
<1>9. Collapsed(<<System>>) = NoContents
  <2>1. Collapsed(Append(<<>>, s)) = CollapseStep(Collapsed(<<>>), s)
    BY <1>5, CollapsedAppend
  <2>2. CollapseStep(NoContents, s) = NoContents
    BY <1>1 DEF CollapseStep, s
  <2> QED
    BY <2>1, <2>2, <1>4, CollapsedEmpty DEF s
<1>10. NoContents \in Loop(Call) /\ Packed(NoContents, <<>>)
    BY DEF NoContents, Loop, Packed
<1>11. <<System>> \in Seq(Wire(Call)) /\ <<System>> \in Seq(Wire(Tools))
       /\ <<>> \in Seq(Call) /\ <<>> \in Seq(Wire(Tools))
    BY <1>1
<1> QED
    BY <1>4, <1>6, <1>7, <1>8, <1>9, <1>10, <1>11, ChatEmpty DEF Talk

\* A prompt or an assistant message, when no call waits.
LEMMA TalkSpeak ==
    ASSUME NEW Call, \A c \in Call : c.tool \in Tools,
           NEW hist, Talk(Call, hist, <<>>),
           NEW m \in Wire(Call), m.role \in {"user", "assistant"}, m.answers = <<>>
    PROVE  Talk(Call, Append(hist, m), m.calls)
<1> DEFINE more == Append(hist, m)
<1>1. hist \in Seq(Wire(Call)) /\ more \in Seq(Wire(Call)) /\ m.calls \in Seq(Call)
    BY DEF Talk, Wire
<1>2. Named(<<>>) = <<>>
    BY NamedOne
<1>3. Named(m.calls) \in Seq(Tools) /\ (Named(m.calls) = <<>> <=> m.calls = <<>>)
    BY <1>1, NamedIs
<1>4. OpenAiMessages(more) \in Seq(Wire(Call)) /\ Chat(OpenAiMessages(more), m.calls)
  <2>1. PICK v \in Wire(Call) : v = MessageToOpenAi(m) /\ v.calls = m.calls /\ v.answers = <<>>
    <3>1. MessageToOpenAi(m) = Message(m.role, m.text, m.calls, <<>>)
      BY DEF MessageToOpenAi
    <3> QED
      BY <3>1, <1>1 DEF Message, Wire, Roles
  <2>2. OpenAiMessages(more) = Append(OpenAiMessages(hist), v)
    BY <2>1, <1>1, OpenAiAppend
  <2>3. OpenAiMessages(hist) \in Seq(Wire(Call)) /\ Chat(OpenAiMessages(hist), <<>>)
    BY DEF Talk
  <2>4. Chat(Append(OpenAiMessages(hist), v), v.calls)
    BY <2>1, <2>3, ChatSpeak
  <2>5. Append(OpenAiMessages(hist), v) \in Seq(Wire(Call))
    BY <2>1, <2>3
  <2> QED
    BY <2>1, <2>2, <2>4, <2>5
<1>5. OllamaMessages(more) \in Seq(Wire(Tools)) /\ Chat(OllamaMessages(more), Named(m.calls))
  <2>1. PICK v \in Wire(Tools) :
            v = MessageToOllama(m) /\ v.calls = Named(m.calls) /\ v.answers = <<>>
    <3>1. Named(m.answers) = <<>> /\ <<>> \in Seq(Tools)
      BY <1>2
    <3> QED
      BY <3>1, <1>3, MessageTypes
  <2>2. OllamaMessages(more) = Append(OllamaMessages(hist), v)
    BY <2>1, <1>1, OllamaAppend
  <2>3. OllamaMessages(hist) \in Seq(Wire(Tools)) /\ Chat(OllamaMessages(hist), <<>>)
    BY <1>2 DEF Talk
  <2>4. Chat(Append(OllamaMessages(hist), v), v.calls)
    BY <2>1, <2>3, ChatSpeak
  <2>5. Append(OllamaMessages(hist), v) \in Seq(Wire(Tools))
    BY <2>1, <2>3
  <2> QED
    BY <2>1, <2>2, <2>4, <2>5
<1>6. GoogleContents(more) \in Seq(Wire(Tools)) /\ Chat(GoogleContents(more), Named(m.calls))
  <2>1. PICK v \in Wire(Tools) :
            v = GoogleContent(m) /\ v.calls = Named(m.calls) /\ v.answers = <<>>
    <3>1. Named(m.answers) = <<>> /\ <<>> \in Seq(Tools)
      BY <1>2
    <3> QED
      BY <3>1, <1>3, MessageTypes
  <2>2. GoogleContents(more) = PushContent(GoogleContents(hist), m)
    BY <1>1, ContentsAppend
  <2>3. GoogleContents(hist) \in Seq(Wire(Tools)) /\ Chat(GoogleContents(hist), <<>>)
    BY <1>2 DEF Talk
  <2>4. CASE GoogleContents(more) = Append(GoogleContents(hist), v)
    <3>1. Chat(Append(GoogleContents(hist), v), v.calls)
      BY <2>1, <2>3, ChatSpeak
    <3>2. Append(GoogleContents(hist), v) \in Seq(Wire(Tools))
      BY <2>1, <2>3
    <3> QED
      BY <2>1, <2>4, <3>1, <3>2
  <2>5. CASE GoogleContents(more) = GoogleContents(hist) /\ m.calls = <<>>
    BY <2>3, <2>5, <1>3
  <2> QED
    BY <2>1, <2>2, <2>4, <2>5 DEF PushContent
<1>7. Collapsed(more) \in Loop(Call) /\ Packed(Collapsed(more), m.calls)
  <2>1. Collapsed(hist) \in Loop(Call) /\ Packed(Collapsed(hist), <<>>)
    BY DEF Talk
  <2>2. Collapsed(more) = CollapseStep(Collapsed(hist), m)
    BY <1>1, CollapsedAppend
  <2> QED
    BY <2>1, <2>2, PackedSpeak
<1> QED
    BY <1>1, <1>4, <1>5, <1>6, <1>7 DEF Talk

\* The answer to the first call that waits.
LEMMA TalkAnswer ==
    ASSUME NEW Call, \A c \in Call : c.tool \in Tools,
           NEW hist, NEW todo, Talk(Call, hist, todo), todo # <<>>
    PROVE  Talk(Call, Append(hist, ToolAnswer(Head(todo))), Tail(todo))
<1> DEFINE m == ToolAnswer(Head(todo))
           more == Append(hist, m)
<1>1. PICK c \in Call : c = Head(todo)
    BY DEF Talk
<1>2. /\ m \in Wire(Call) /\ m.role = "tool" /\ m.text = TRUE
      /\ m.calls = <<>> /\ m.answers = <<c>>
    BY <1>1 DEF ToolAnswer, Message, Wire, Roles
<1> HIDE DEF m
<1>3. hist \in Seq(Wire(Call)) /\ more \in Seq(Wire(Call)) /\ todo \in Seq(Call)
      /\ Tail(todo) \in Seq(Call)
    BY <1>2 DEF Talk
<1>4. Named(<<>>) = <<>> /\ Named(<<c>>) = <<c.tool>>
    BY NamedOne
<1>5. /\ Named(todo) \in Seq(Tools) /\ Named(todo) # <<>>
      /\ Head(Named(todo)) = c.tool /\ Tail(Named(todo)) = Named(Tail(todo))
    BY <1>1, <1>3, NamedIs
<1>6. OpenAiMessages(more) \in Seq(Wire(Call)) /\ Chat(OpenAiMessages(more), Tail(todo))
  <2>1. PICK v \in Wire(Call) :
            v = MessageToOpenAi(m) /\ v.calls = <<>> /\ v.answers = <<Head(todo)>>
    BY <1>1, <1>2 DEF MessageToOpenAi, Message, Wire, Roles
  <2>2. OpenAiMessages(more) = Append(OpenAiMessages(hist), v)
    BY <2>1, <1>2, <1>3, OpenAiAppend
  <2>3. OpenAiMessages(hist) \in Seq(Wire(Call)) /\ Chat(OpenAiMessages(hist), todo)
    BY DEF Talk
  <2>4. Chat(Append(OpenAiMessages(hist), v), Tail(todo))
    BY <2>1, <2>3, <1>3, ChatAnswer
  <2>5. Append(OpenAiMessages(hist), v) \in Seq(Wire(Call))
    BY <2>1, <2>3
  <2> QED
    BY <2>2, <2>4, <2>5
<1>7. OllamaMessages(more) \in Seq(Wire(Tools)) /\ Chat(OllamaMessages(more), Named(Tail(todo)))
  <2>1. PICK v \in Wire(Tools) :
            v = MessageToOllama(m) /\ v.calls = <<>> /\ v.answers = <<Head(Named(todo))>>
    <3>1. /\ Named(m.answers) = <<Head(Named(todo))>> /\ Named(m.calls) = <<>>
          /\ <<Head(Named(todo))>> \in Seq(Tools) /\ <<>> \in Seq(Tools)
      BY <1>2, <1>4, <1>5
    <3> QED
      BY <3>1, <1>2, MessageTypes
  <2>2. OllamaMessages(more) = Append(OllamaMessages(hist), v)
    BY <2>1, <1>2, <1>3, OllamaAppend
  <2>3. OllamaMessages(hist) \in Seq(Wire(Tools)) /\ Chat(OllamaMessages(hist), Named(todo))
    BY DEF Talk
  <2>4. Chat(Append(OllamaMessages(hist), v), Tail(Named(todo)))
    BY <2>1, <2>3, <1>5, ChatAnswer
  <2>5. Append(OllamaMessages(hist), v) \in Seq(Wire(Tools))
    BY <2>1, <2>3
  <2> QED
    BY <2>2, <2>4, <2>5, <1>5
<1>8. GoogleContents(more) \in Seq(Wire(Tools)) /\ Chat(GoogleContents(more), Named(Tail(todo)))
  <2>1. PICK v \in Wire(Tools) :
            v = GoogleContent(m) /\ v.calls = <<>> /\ v.answers = <<Head(Named(todo))>>
    <3>1. /\ Named(m.answers) = <<Head(Named(todo))>> /\ Named(m.calls) = <<>>
          /\ <<Head(Named(todo))>> \in Seq(Tools) /\ <<>> \in Seq(Tools)
      BY <1>2, <1>4, <1>5
    <3> QED
      BY <3>1, <1>2, MessageTypes
  <2>2. GoogleContents(more) = Append(GoogleContents(hist), v)
    <3>1. GoogleContents(more) = PushContent(GoogleContents(hist), m)
      BY <1>2, <1>3, ContentsAppend
    <3> QED
      BY <3>1, <2>1, <1>2 DEF PushContent
  <2>3. GoogleContents(hist) \in Seq(Wire(Tools)) /\ Chat(GoogleContents(hist), Named(todo))
    BY DEF Talk
  <2>4. Chat(Append(GoogleContents(hist), v), Tail(Named(todo)))
    BY <2>1, <2>3, <1>5, ChatAnswer
  <2>5. Append(GoogleContents(hist), v) \in Seq(Wire(Tools))
    BY <2>1, <2>3
  <2> QED
    BY <2>2, <2>4, <2>5, <1>5
<1>9. Collapsed(more) \in Loop(Call) /\ Packed(Collapsed(more), Tail(todo))
  <2>1. Collapsed(hist) \in Loop(Call) /\ Packed(Collapsed(hist), todo)
    BY DEF Talk
  <2>2. Collapsed(more) = CollapseStep(Collapsed(hist), m)
    BY <1>2, <1>3, CollapsedAppend
  <2> QED
    BY <2>1, <2>2, <1>1, <1>2, <1>3, PackedAnswer
<1>10. Talk(Call, more, Tail(todo))
    BY <1>3, <1>6, <1>7, <1>8, <1>9 DEF Talk
<1> QED
    BY <1>10 DEF m

\* With nothing left to run, every provider is satisfied.
LEMMA TalkAnswered ==
    ASSUME NEW Call, NEW hist, Talk(Call, hist, <<>>)
    PROVE  /\ AnsweredAtOnce(CollapseToAnthropic(hist))
           /\ Answered(OpenAiMessages(hist))
           /\ Answered(OllamaMessages(hist))
           /\ Answered(GoogleContents(hist))
<1>1. Named(<<>>) = <<>>
    BY NamedOne
<1>2. AnsweredAtOnce(CollapseToAnthropic(hist))
    BY PackedAnswered DEF Talk, CollapseToAnthropic
<1>3. Answered(OpenAiMessages(hist))
    BY ChatAnswered DEF Talk
<1>4. Answered(OllamaMessages(hist)) /\ Answered(GoogleContents(hist))
    BY <1>1, ChatAnswered DEF Talk
<1> QED
    BY <1>2, <1>3, <1>4
================================================================================
