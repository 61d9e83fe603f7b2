---------------------------- MODULE ChannelFacts ----------------------------
(***************************************************************************)
(* What the proofs about the channels need to know of sequences: a frame   *)
(* is put in at the end (Append) and taken out at the front (Head, Tail).  *)
(***************************************************************************)
EXTENDS Integers, Sequences, TLAPS

\* What putting a frame into a channel does to its frames.
LEMMA AppendFacts ==
    ASSUME NEW S, NEW q \in Seq(S), NEW f \in S
    PROVE  /\ Append(q, f) \in Seq(S)
           /\ Len(q) \in Nat /\ Len(Append(q, f)) = Len(q) + 1
           /\ \A i \in 1 .. Len(q) : Append(q, f)[i] = q[i]
           /\ Append(q, f)[Len(q) + 1] = f
OBVIOUS

\* What taking the first frame of a channel does to the rest.
LEMMA TailFacts ==
    ASSUME NEW S, NEW q \in Seq(S), q # <<>>
    PROVE  /\ Tail(q) \in Seq(S)
           /\ Len(q) \in Nat \ {0} /\ Len(Tail(q)) = Len(q) - 1
           /\ \A i \in 1 .. Len(Tail(q)) : Tail(q)[i] = q[i + 1]
           /\ Head(q) \in S /\ Head(q) = q[1]
OBVIOUS

\* A channel is empty exactly if it holds no frame.
LEMMA EmptyFacts ==
    ASSUME NEW S, NEW q \in Seq(S)
    PROVE  /\ Len(q) \in Nat
           /\ q = <<>> <=> Len(q) = 0
           /\ \A i \in 1 .. Len(q) : q[i] \in S
OBVIOUS

\* A channel of one frame.
LEMMA SingleFacts ==
    ASSUME NEW S, NEW f \in S
    PROVE  <<f>> \in Seq(S) /\ Len(<<f>>) = 1 /\ <<f>>[1] = f /\ <<f>> # <<>>
OBVIOUS

\* Two channels one after the other.
LEMMA ConcatFacts ==
    ASSUME NEW S, NEW p \in Seq(S), NEW q \in Seq(S)
    PROVE  /\ p \o q \in Seq(S)
           /\ Len(p) \in Nat /\ Len(q) \in Nat /\ Len(p \o q) = Len(p) + Len(q)
           /\ \A i \in 1 .. Len(p) + Len(q) :
                 (p \o q)[i] = IF i <= Len(p) THEN p[i] ELSE q[i - Len(p)]
OBVIOUS

\* A channel with n frames f.
LEMMA RepeatFacts ==
    ASSUME NEW S, NEW n \in Nat, NEW f \in S
    PROVE  /\ [i \in 1 .. n |-> f] \in Seq(S) /\ Len([i \in 1 .. n |-> f]) = n
           /\ \A i \in 1 .. n : [j \in 1 .. n |-> f][i] = f
OBVIOUS

\* n frames a and then a frame z.
LEMMA RepeatThenFacts ==
    ASSUME NEW S, NEW n \in Nat, NEW a \in S, NEW z \in S
    PROVE  /\ [i \in 1 .. n |-> a] \o <<z>> \in Seq(S)
           /\ Len([i \in 1 .. n |-> a] \o <<z>>) = n + 1
           /\ \A k \in 1 .. n + 1 :
                 ([i \in 1 .. n |-> a] \o <<z>>)[k] = IF k = n + 1 THEN z ELSE a
<1>1. PICK p \in Seq(S) : /\ p = [i \in 1 .. n |-> a]
                          /\ Len(p) = n /\ \A i \in 1 .. n : p[i] = a
    BY RepeatFacts
<1>2. PICK q \in Seq(S) : q = <<z>> /\ Len(q) = 1 /\ q[1] = z
    BY SingleFacts
<1>3. /\ p \o q \in Seq(S) /\ Len(p \o q) = n + 1
      /\ \A k \in 1 .. n + 1 : (p \o q)[k] = IF k <= n THEN p[k] ELSE q[k - n]
    BY <1>1, <1>2, ConcatFacts
<1>4. \A k \in 1 .. n + 1 : (p \o q)[k] = IF k = n + 1 THEN z ELSE a
    BY <1>1, <1>2, <1>3
<1> QED
    BY <1>1, <1>2, <1>3, <1>4

\* What a channel holds.
Elements(q) == {q[k] : k \in 1 .. Len(q)}

\* What a channel holds that gets one more frame, or is taken from.
LEMMA ElementsFacts ==
    ASSUME NEW S, NEW q \in Seq(S)
    PROVE  /\ \A f \in S : Elements(Append(q, f)) = Elements(q) \cup {f}
           /\ q # <<>> => Elements(q) = Elements(Tail(q)) \cup {Head(q)}
<1> USE DEF Elements
<1>1. ASSUME NEW f \in S PROVE Elements(Append(q, f)) = Elements(q) \cup {f}
  <2>1. /\ Len(q) \in Nat /\ Len(Append(q, f)) = Len(q) + 1
        /\ \A k \in 1 .. Len(q) : Append(q, f)[k] = q[k]
        /\ Append(q, f)[Len(q) + 1] = f
      BY AppendFacts
  <2>2. ASSUME NEW g \in Elements(Append(q, f)) PROVE g \in Elements(q) \cup {f}
    <3>1. PICK k \in 1 .. Len(q) + 1 : g = Append(q, f)[k]
        BY <2>1
    <3> QED
        BY <2>1, <3>1
  <2>3. ASSUME NEW g \in Elements(q) PROVE g \in Elements(Append(q, f))
    <3>1. PICK k \in 1 .. Len(q) : g = q[k]
        OBVIOUS
    <3>2. k \in 1 .. Len(Append(q, f))
        BY <2>1
    <3> QED
        BY <2>1, <3>1, <3>2
  <2>4. f \in Elements(Append(q, f))
    <3>1. Len(q) + 1 \in 1 .. Len(Append(q, f))
        BY <2>1
    <3> QED
        BY <2>1, <3>1
  <2> QED
      BY <2>2, <2>3, <2>4
<1>2. ASSUME q # <<>> PROVE Elements(q) = Elements(Tail(q)) \cup {Head(q)}
  <2>1. /\ Len(q) \in Nat \ {0} /\ Len(Tail(q)) = Len(q) - 1
        /\ \A k \in 1 .. Len(Tail(q)) : Tail(q)[k] = q[k + 1]
        /\ Head(q) = q[1]
      BY <1>2, TailFacts
  <2>2. ASSUME NEW g \in Elements(q) PROVE g \in Elements(Tail(q)) \cup {Head(q)}
    <3>1. PICK k \in 1 .. Len(q) : g = q[k]
        OBVIOUS
    <3>2. CASE k = 1
        BY <2>1, <3>1, <3>2
    <3>3. CASE k # 1
      <4>1. k - 1 \in 1 .. Len(Tail(q)) /\ (k - 1) + 1 = k
          BY <2>1, <3>3
      <4>2. Tail(q)[k - 1] = g
          BY <2>1, <3>1, <4>1
      <4> QED
          BY <4>1, <4>2
    <3> QED
        BY <3>2, <3>3
  <2>3. ASSUME NEW g \in Elements(Tail(q)) PROVE g \in Elements(q)
    <3>1. PICK k \in 1 .. Len(Tail(q)) : g = Tail(q)[k]
        OBVIOUS
    <3>2. k + 1 \in 1 .. Len(q) /\ g = q[k + 1]
        BY <2>1, <3>1
    <3> QED
        BY <3>2
  <2>4. Head(q) \in Elements(q)
    <3>1. 1 \in 1 .. Len(q)
        BY <2>1
    <3> QED
        BY <2>1, <3>1
  <2> QED
      BY <2>2, <2>3, <2>4
<1> QED
  BY <1>1, <1>2

\* What two channels hold together.
LEMMA ElementsConcat ==
    ASSUME NEW S, NEW p \in Seq(S), NEW q \in Seq(S)
    PROVE  Elements(p \o q) = Elements(p) \cup Elements(q)
<1> USE DEF Elements
<1>1. /\ Len(p) \in Nat /\ Len(q) \in Nat /\ Len(p \o q) = Len(p) + Len(q)
      /\ \A i \in 1 .. Len(p) + Len(q) :
            (p \o q)[i] = IF i <= Len(p) THEN p[i] ELSE q[i - Len(p)]
  BY ConcatFacts
<1>2. ASSUME NEW f \in Elements(p \o q) PROVE f \in Elements(p) \cup Elements(q)
  <2>1. PICK i \in 1 .. Len(p) + Len(q) : f = (p \o q)[i]
      BY <1>1, <1>2
  <2>2. CASE i <= Len(p)
    <3>1. i \in 1 .. Len(p) /\ f = p[i]
        BY <1>1, <2>1, <2>2
    <3> QED
        BY <3>1
  <2>3. CASE ~(i <= Len(p))
    <3>1. i - Len(p) \in 1 .. Len(q) /\ f = q[i - Len(p)]
        BY <1>1, <2>1, <2>3
    <3> QED
        BY <3>1
  <2> QED
      BY <2>2, <2>3
<1>3. ASSUME NEW f \in Elements(p) PROVE f \in Elements(p \o q)
  <2>1. PICK i \in 1 .. Len(p) : f = p[i]
      BY <1>3
  <2>2. i \in 1 .. Len(p \o q) /\ f = (p \o q)[i]
      BY <1>1, <2>1
  <2> QED
      BY <2>2
<1>4. ASSUME NEW f \in Elements(q) PROVE f \in Elements(p \o q)
  <2>1. PICK i \in 1 .. Len(q) : f = q[i]
      BY <1>4
  <2>2. /\ Len(p) + i \in 1 .. Len(p) + Len(q)
        /\ ~(Len(p) + i <= Len(p)) /\ (Len(p) + i) - Len(p) = i
      BY <1>1, <2>1
  <2>3. Len(p) + i \in 1 .. Len(p \o q) /\ (p \o q)[Len(p) + i] = f
      BY <1>1, <2>1, <2>2
  <2> QED
      BY <2>3
<1> QED
  BY <1>2, <1>3, <1>4

\* Putting one frame behind or before the others, and both.
LEMMA ConcatSingle ==
    ASSUME NEW S, NEW p \in Seq(S), NEW q \in Seq(S), NEW f \in S
    PROVE  /\ p \o <<f>> = Append(p, f)
           /\ p \o Append(q, f) = Append(p \o q, f)
           /\ p # <<>> => /\ <<Head(p)>> \o Tail(p) = p
                          /\ Tail(p \o q) = Tail(p) \o q /\ Head(p \o q) = Head(p)
                          /\ p \o q # <<>>
           /\ p \o <<>> = p /\ <<>> \o p = p
OBVIOUS

\* It does not matter which channels are put together first.
LEMMA ConcatAssoc ==
    ASSUME NEW S, NEW p \in Seq(S), NEW q \in Seq(S), NEW s \in Seq(S)
    PROVE  (p \o q) \o s = p \o (q \o s)
OBVIOUS
=============================================================================
