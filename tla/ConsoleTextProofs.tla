-------------------------- MODULE ConsoleTextProofs --------------------------
(***************************************************************************)
(* How a message is printed, for every message: the numbers of itoa.c have *)
(* the right digits, the format string and the arguments are those of the  *)
(* units of the message, and a turn of vfblogf() hands on the text of the  *)
(* next unit. What is defined by recursion is unfolded by an induction     *)
(* over sets of numbers (SetInduction).                                    *)
(***************************************************************************)
EXTENDS Console, SequenceTheorems, WellFoundedInduction, TLAPS

-----------------------------------------------------------------------------
(* Induction over the natural numbers, for sets of them                     *)

(* A set of natural numbers that is not empty has a least element.          *)
LEMMA LeastNumber ==
  ASSUME NEW T, T \subseteq Nat, T # {}
  PROVE  \E x \in T : \A y \in T : x <= y
<1>. DEFINE R == OpToRel(<, Nat)
<1>1. IsWellFoundedOn(R, Nat)
  BY NatLessThanWellFounded
<1>2. \A x, y \in Nat : x < y => <<x, y>> \in R
  BY DEF OpToRel
<1>. HIDE DEF R
<1>3. PICK x \in T : \A y \in T : ~ (<<y, x>> \in R)
  BY <1>1, WFMin
<1>4. ASSUME NEW y \in T PROVE x <= y
  <2>1. ~ (y < x)
    BY <1>2, <1>3
  <2>2. x \in Nat /\ y \in Nat
    OBVIOUS
  <2>. QED BY <2>1, <2>2
<1>. QED BY <1>4

(* A set that holds 0, and the successor of each number it holds, holds all. *)
LEMMA SetInduction ==
  ASSUME NEW S, 0 \in S, \A n \in Nat : n \in S => n + 1 \in S
  PROVE  \A n \in Nat : n \in S
<1>. DEFINE T == Nat \ S
<1>1. SUFFICES ASSUME T # {} PROVE FALSE
  OBVIOUS
<1>2. PICK x \in T : \A y \in T : x <= y
  BY <1>1, LeastNumber
<1>3. x # 0 /\ x - 1 \in Nat /\ x - 1 \notin T
  BY <1>2
<1>. QED BY <1>2, <1>3

-----------------------------------------------------------------------------
(* FlattenSeq                                                               *)

(* g is what FlattenSeq(seqs) computes for the first n of them              *)
Flattens(g, seqs, n) ==
  g = [j \in 1..n |-> IF j = 1 THEN seqs[j] ELSE g[j - 1] \o seqs[j]]

(* There is a function that does what FlattenSeq computes. *)
LEMMA FlattensExists ==
  ASSUME NEW seqs
  PROVE  \A n \in Nat : \E g : Flattens(g, seqs, n)
<1>. DEFINE S == {n \in Nat : \E g : Flattens(g, seqs, n)}
<1>1. 0 \in S
  <2>. DEFINE g == [j \in 1..0 |-> 0]
  <2>1. Flattens(g, seqs, 0)
    BY DEF Flattens
  <2>. QED BY <2>1
<1>2. ASSUME NEW n \in Nat, n \in S PROVE n + 1 \in S
  <2>1. PICK g : Flattens(g, seqs, n)
    BY <1>2
  <2>. DEFINE step(j) == IF j = 1 THEN seqs[j] ELSE g[j - 1] \o seqs[j]
              h == [j \in 1..(n + 1) |-> IF j = n + 1 THEN step(j) ELSE g[j]]
  <2>2. ASSUME NEW j \in 1..(n + 1) PROVE h[j] = step(j)
    <3>1. CASE j = n + 1
      BY <3>1
    <3>2. CASE j # n + 1
      <4>1. j \in 1..n /\ h[j] = g[j]
        BY <3>2
      <4>. QED BY <4>1, <2>1 DEF Flattens
    <3>. QED BY <3>1, <3>2
  <2>3. ASSUME NEW j \in 1..(n + 1), j # 1 PROVE g[j - 1] = h[j - 1]
    BY <2>3
  <2>4. h = [j \in 1..(n + 1) |-> h[j]]
    OBVIOUS
  <2>. HIDE DEF h
  <2>5. ASSUME NEW j \in 1..(n + 1)
        PROVE  h[j] = IF j = 1 THEN seqs[j] ELSE h[j - 1] \o seqs[j]
    BY <2>2, <2>3
  <2>6. Flattens(h, seqs, n + 1)
    BY <2>4, <2>5 DEF Flattens
  <2>. QED BY <2>6
<1>. HIDE DEF S
<1>3. \A n \in Nat : n \in S
  BY <1>1, <1>2, SetInduction
<1>. QED BY <1>3 DEF S

(* FlattenSeq is the last value of such a function. *)
LEMMA FlattenUnfold ==
  ASSUME NEW seqs, Len(seqs) \in Nat, Len(seqs) # 0
  PROVE  \E g : Flattens(g, seqs, Len(seqs)) /\ FlattenSeq(seqs) = g[Len(seqs)]
<1>. DEFINE fl[j \in 1..Len(seqs)] == IF j = 1 THEN seqs[j] ELSE fl[j-1] \o seqs[j]
<1>1. FlattenSeq(seqs) = fl[Len(seqs)]
  BY DEF FlattenSeq
<1>2. Flattens(fl, seqs, Len(seqs))
  <2>1. \E g : Flattens(g, seqs, Len(seqs))
    BY FlattensExists
  <2>2. \E g : g = [j \in 1..Len(seqs) |-> IF j = 1 THEN seqs[j] ELSE g[j-1] \o seqs[j]]
    BY <2>1 DEF Flattens
  <2>3. fl = [j \in 1..Len(seqs) |-> IF j = 1 THEN seqs[j] ELSE fl[j-1] \o seqs[j]]
    BY <2>2, Zenon
  <2>. QED BY <2>3 DEF Flattens
<1>. QED BY <1>1, <1>2, Zenon

(* Nothing joined is nothing. *)
LEMMA FlattenEmpty == FlattenSeq(<< >>) = << >>
BY DEF FlattenSeq

(* What is computed of the first n does not depend on what follows. *)
LEMMA FlattensAgree ==
  ASSUME NEW S, NEW ss \in Seq(Seq(S)), NEW t \in Seq(S), NEW g, NEW h, NEW n \in Nat,
         n <= Len(ss), Flattens(g, ss, n), Flattens(h, Append(ss, t), Len(ss) + 1)
  PROVE  \A j \in 1..n : h[j] = g[j] /\ g[j] \in Seq(S)
<1>. DEFINE I == {j \in Nat : j \in 1..n => h[j] = g[j] /\ g[j] \in Seq(S)}
<1>1. 0 \in I
  OBVIOUS
<1>2. ASSUME NEW j \in Nat, j \in I PROVE j + 1 \in I
  <2>1. SUFFICES ASSUME j + 1 \in 1..n PROVE h[j + 1] = g[j + 1] /\ g[j + 1] \in Seq(S)
    OBVIOUS
  <2>2. j + 1 \in 1..Len(ss) /\ j + 1 \in 1..(Len(ss) + 1) /\ Append(ss, t)[j + 1] = ss[j + 1]
    BY <2>1
  <2>3. ss[j + 1] \in Seq(S)
    BY <2>2
  <2>4. CASE j = 0
    <3>1. g[j + 1] = ss[j + 1]
      BY <2>1, <2>4 DEF Flattens
    <3>2. h[j + 1] = Append(ss, t)[j + 1]
      BY <2>2, <2>4 DEF Flattens
    <3>. QED BY <3>1, <3>2, <2>2, <2>3
  <2>5. CASE j # 0
    <3>1. j \in 1..n /\ h[j] = g[j] /\ g[j] \in Seq(S)
      BY <1>2, <2>1, <2>5
    <3>2. g[j + 1] = g[j] \o ss[j + 1]
      <4>1. j + 1 # 1 /\ (j + 1) - 1 = j
        BY <2>5
      <4>. QED BY <2>1, <4>1 DEF Flattens
    <3>3. h[j + 1] = h[j] \o Append(ss, t)[j + 1]
      <4>1. j + 1 # 1 /\ (j + 1) - 1 = j
        BY <2>5
      <4>. QED BY <2>2, <4>1 DEF Flattens
    <3>. QED BY <3>1, <3>2, <3>3, <2>2, <2>3
  <2>. QED BY <2>4, <2>5
<1>. HIDE DEF I
<1>3. \A j \in Nat : j \in I
  BY <1>1, <1>2, SetInduction
<1>. QED BY <1>3 DEF I

(* One sequence more is put behind the others. *)
LEMMA FlattenAppend ==
  ASSUME NEW S, NEW ss \in Seq(Seq(S)), NEW t \in Seq(S)
  PROVE  /\ FlattenSeq(ss) \in Seq(S)
         /\ FlattenSeq(Append(ss, t)) = FlattenSeq(ss) \o t
<1>. DEFINE tt == Append(ss, t)
<1>1. /\ tt \in Seq(Seq(S)) /\ Len(tt) = Len(ss) + 1 /\ tt[Len(ss) + 1] = t
      /\ Len(ss) \in Nat /\ Len(tt) # 0 /\ Len(tt) \in Nat
  OBVIOUS
<1>2. PICK h : Flattens(h, tt, Len(tt)) /\ FlattenSeq(tt) = h[Len(tt)]
  <2>. HIDE DEF tt
  <2>. QED BY <1>1, FlattenUnfold
<1>3. CASE Len(ss) = 0
  <2>1. ss = << >>
    BY <1>3, EmptySeq
  <2>2. FlattenSeq(ss) = << >>
    BY <2>1, FlattenEmpty
  <2>3. h[1] = tt[1]
    BY <1>1, <1>2, <1>3 DEF Flattens
  <2>4. FlattenSeq(tt) = t
    BY <1>1, <1>2, <1>3, <2>3
  <2>. QED BY <2>2, <2>4
<1>4. CASE Len(ss) # 0
  <2>1. PICK g : Flattens(g, ss, Len(ss)) /\ FlattenSeq(ss) = g[Len(ss)]
    BY <1>1, <1>4, FlattenUnfold
  <2>2. \A j \in 1..Len(ss) : h[j] = g[j] /\ g[j] \in Seq(S)
    <3>1. Flattens(h, Append(ss, t), Len(ss) + 1) /\ Len(ss) \in Nat /\ Len(ss) <= Len(ss)
      BY <1>1, <1>2
    <3>. QED BY <3>1, <2>1, FlattensAgree
  <2>3. h[Len(ss)] = g[Len(ss)] /\ g[Len(ss)] \in Seq(S)
    BY <1>1, <1>4, <2>2
  <2>4. h[Len(ss) + 1] = h[Len(ss)] \o t
    <3>1. Len(ss) + 1 # 1 /\ (Len(ss) + 1) - 1 = Len(ss) /\ Len(ss) + 1 \in 1..Len(tt)
      BY <1>1, <1>4
    <3>2. h[Len(ss) + 1] = h[(Len(ss) + 1) - 1] \o tt[Len(ss) + 1]
      <4>. HIDE DEF tt
      <4>. QED BY <1>2, <3>1 DEF Flattens
    <3>. QED BY <1>1, <3>1, <3>2
  <2>. QED BY <1>1, <1>2, <2>1, <2>3, <2>4
<1>. QED BY <1>3, <1>4

(* Two lists of sequences joined are the one behind the other. *)
LEMMA FlattenConcat ==
  ASSUME NEW S, NEW ss \in Seq(Seq(S)), NEW tt \in Seq(Seq(S))
  PROVE  /\ FlattenSeq(tt) \in Seq(S)
         /\ FlattenSeq(ss \o tt) = FlattenSeq(ss) \o FlattenSeq(tt)
<1>. DEFINE Q(tu) == /\ FlattenSeq(tu) \in Seq(S)
                     /\ FlattenSeq(ss \o tu) = FlattenSeq(ss) \o FlattenSeq(tu)
            I == {n \in Nat : \A tu \in Seq(Seq(S)) : Len(tu) = n => Q(tu)}
<1>0. FlattenSeq(ss) \in Seq(S)
  <2>1. << >> \in Seq(S)
    OBVIOUS
  <2>. QED BY <2>1, FlattenAppend
<1>1. 0 \in I
  <2>1. SUFFICES ASSUME NEW tu \in Seq(Seq(S)), Len(tu) = 0 PROVE Q(tu)
    OBVIOUS
  <2>2. tu = << >>
    BY <2>1, EmptySeq
  <2>3. ss \o << >> = ss
    BY ConcatEmptySeq
  <2>4. FlattenSeq(ss) \o << >> = FlattenSeq(ss)
    BY <1>0, ConcatEmptySeq
  <2>5. FlattenSeq(tu) = << >> /\ ss \o tu = ss
    BY <2>2, <2>3, FlattenEmpty
  <2>6. FlattenSeq(tu) \in Seq(S)
    BY <2>5
  <2>. QED BY <2>4, <2>5, <2>6
<1>2. ASSUME NEW n \in Nat, n \in I PROVE n + 1 \in I
  <2>1. SUFFICES ASSUME NEW tu \in Seq(Seq(S)), Len(tu) = n + 1 PROVE Q(tu)
    OBVIOUS
  <2>2. tu # << >>
    BY <2>1
  <2>3. PICK tv \in Seq(Seq(S)), e \in Seq(S) : tu = Append(tv, e)
    BY <2>2, SequenceEmptyOrAppend
  <2>4. Len(tv) = n
    BY <2>1, <2>3
  <2>5. Q(tv)
    BY <1>2, <2>4
  <2>6. FlattenSeq(tu) = FlattenSeq(tv) \o e
    BY <2>3, FlattenAppend
  <2>7. ss \o tu = Append(ss \o tv, e) /\ ss \o tv \in Seq(Seq(S))
    BY <2>3
  <2>8. FlattenSeq(ss \o tu) = FlattenSeq(ss \o tv) \o e
    BY <2>7, FlattenAppend
  <2>9. (FlattenSeq(ss) \o FlattenSeq(tv)) \o e = FlattenSeq(ss) \o (FlattenSeq(tv) \o e)
    <3>1. FlattenSeq(tv) \in Seq(S) /\ e \in Seq(S)
      BY <2>3, <2>5
    <3>. QED BY <1>0, <3>1, ConcatAssociative
  <2>10. FlattenSeq(tv) \o e \in Seq(S)
    BY <2>5
  <2>. QED BY <2>5, <2>6, <2>8, <2>9, <2>10
<1>. HIDE DEF I
<1>3. \A n \in Nat : n \in I
  BY <1>1, <1>2, SetInduction
<1>4. Len(tt) \in Nat
  OBVIOUS
<1>. QED BY <1>3, <1>4 DEF I

-----------------------------------------------------------------------------
(* A function applied to each member of a sequence, and the results joined  *)

(* named, so that a fact about all of them is found by its name             *)
Fcns(D, T) == [D -> T]

Joined(f, s) == FlattenSeq([k \in DOMAIN s |-> f[s[k]]])

(* A function applied to each member. *)
LEMMA MapSeq ==
  ASSUME NEW D, NEW T, NEW f \in Fcns(D, T), NEW s \in Seq(D)
  PROVE  /\ [k \in DOMAIN s |-> f[s[k]]] \in Seq(T)
         /\ Len([k \in DOMAIN s |-> f[s[k]]]) = Len(s)
<1>1. DOMAIN s = 1..Len(s) /\ Len(s) \in Nat /\ \A k \in 1..Len(s) : s[k] \in D
  OBVIOUS
<1>. QED BY <1>1 DEF Fcns

(* To each member of two sequences, one behind the other. *)
LEMMA MapConcat ==
  ASSUME NEW D, NEW T, NEW f \in Fcns(D, T), NEW s \in Seq(D), NEW t \in Seq(D)
  PROVE  [k \in DOMAIN (s \o t) |-> f[(s \o t)[k]]]
           = [k \in DOMAIN s |-> f[s[k]]] \o [k \in DOMAIN t |-> f[t[k]]]
<1>. DEFINE a == [k \in DOMAIN (s \o t) |-> f[(s \o t)[k]]]
            b == [k \in DOMAIN s |-> f[s[k]]]
            c == [k \in DOMAIN t |-> f[t[k]]]
<1>1. s \o t \in Seq(D) /\ Len(s \o t) = Len(s) + Len(t) /\ Len(s) \in Nat /\ Len(t) \in Nat
  OBVIOUS
<1>2. a \in Seq(T) /\ Len(a) = Len(s) + Len(t)
  <2>1. \A u \in Seq(D) : /\ [k \in DOMAIN u |-> f[u[k]]] \in Seq(T)
                          /\ Len([k \in DOMAIN u |-> f[u[k]]]) = Len(u)
    BY MapSeq
  <2>. QED BY <1>1, <2>1
<1>3. b \in Seq(T) /\ c \in Seq(T) /\ Len(b) = Len(s) /\ Len(c) = Len(t)
  BY MapSeq
<1>4. b \o c \in Seq(T) /\ Len(b \o c) = Len(s) + Len(t)
  <2>. HIDE DEF b, c
  <2>. QED BY <1>3
<1>5. DOMAIN (s \o t) = 1..(Len(s) + Len(t)) /\ DOMAIN s = 1..Len(s) /\ DOMAIN t = 1..Len(t)
  BY <1>1
<1>6. ASSUME NEW k \in 1..(Len(s) + Len(t)) PROVE a[k] = (b \o c)[k]
  <2>1. a[k] = f[(s \o t)[k]]
    BY <1>5
  <2>2. (s \o t)[k] = IF k <= Len(s) THEN s[k] ELSE t[k - Len(s)]
    BY ConcatProperties
  <2>3. (b \o c)[k] = IF k <= Len(s) THEN b[k] ELSE c[k - Len(s)]
    <3>. HIDE DEF b, c
    <3>. QED BY <1>3, ConcatProperties
  <2>4. CASE k <= Len(s)
    <3>1. k \in DOMAIN s
      BY <1>1, <1>5, <2>4
    <3>. QED BY <2>1, <2>2, <2>3, <2>4, <3>1
  <2>5. CASE ~(k <= Len(s))
    <3>1. k - Len(s) \in DOMAIN t
      BY <1>1, <1>5, <2>5
    <3>. QED BY <2>1, <2>2, <2>3, <2>5, <3>1
  <2>. QED BY <2>4, <2>5
<1>. HIDE DEF a, b, c
<1>7. a = b \o c
  BY <1>2, <1>4, <1>6, SeqEqual
<1>. QED BY <1>7 DEF a, b, c

(* The members of two sequences joined are those of the one and then those  *)
(* of the other.                                                            *)
LEMMA JoinedConcat ==
  ASSUME NEW D, NEW S, NEW f \in Fcns(D, Seq(S)), NEW s \in Seq(D), NEW t \in Seq(D)
  PROVE  /\ Joined(f, s) \in Seq(S)
         /\ Joined(f, s \o t) = Joined(f, s) \o Joined(f, t)
<1>. DEFINE b == [k \in DOMAIN s |-> f[s[k]]]
            c == [k \in DOMAIN t |-> f[t[k]]]
<1>1. b \in Seq(Seq(S)) /\ c \in Seq(Seq(S))
  BY MapSeq
<1>2. Joined(f, s \o t) = FlattenSeq(b \o c)
  <2>1. [k \in DOMAIN (s \o t) |-> f[(s \o t)[k]]] = b \o c
    BY MapConcat
  <2>. QED BY <2>1 DEF Joined
<1>3. Joined(f, s) = FlattenSeq(b) /\ Joined(f, t) = FlattenSeq(c)
  BY DEF Joined
<1>. HIDE DEF b, c
<1>. QED BY <1>1, <1>2, <1>3, FlattenConcat

(* The same without the type. *)
LEMMA JoinedBoth ==
  ASSUME NEW D, NEW S, NEW f \in Fcns(D, Seq(S)), NEW s \in Seq(D), NEW t \in Seq(D)
  PROVE  Joined(f, s \o t) = Joined(f, s) \o Joined(f, t)
BY JoinedConcat

(* The same for sequences of numbers made of numbers. *)
LEMMA JoinedConcatNat ==
  ASSUME NEW f \in Fcns(Nat, Seq(Nat)), NEW a \in Seq(Nat), NEW b \in Seq(Nat)
  PROVE  Joined(f, a \o b) = Joined(f, a) \o Joined(f, b)
<1>1. PICK D : D = Nat
  OBVIOUS
<1>2. PICK S : S = Nat
  OBVIOUS
<1>3. a \in Seq(D) /\ b \in Seq(D) /\ f \in Fcns(D, Seq(S))
  BY <1>1, <1>2
<1>4. ASSUME NEW g \in Fcns(D, Seq(S)), NEW s \in Seq(D), NEW t \in Seq(D)
      PROVE  Joined(g, s \o t) = Joined(g, s) \o Joined(g, t)
  BY JoinedBoth
<1>. QED BY ONLY <1>3, <1>4, Zenon

(* What is joined is a sequence. *)
LEMMA JoinedType ==
  ASSUME NEW D, NEW S, NEW f \in Fcns(D, Seq(S)), NEW s \in Seq(D)
  PROVE  Joined(f, s) \in Seq(S)
<1>1. << >> \in Seq(D)
  OBVIOUS
<1>. QED BY <1>1, JoinedConcat

(* Nothing is joined to nothing. *)
LEMMA JoinedEmpty ==
  ASSUME NEW f
  PROVE  Joined(f, << >>) = << >>
<1>1. [k \in DOMAIN << >> |-> f[<< >>[k]]] = << >>
  OBVIOUS
<1>. QED BY <1>1, FlattenEmpty DEF Joined

(* One member is what it becomes. *)
LEMMA JoinedOne ==
  ASSUME NEW D, NEW S, NEW f \in Fcns(D, Seq(S)), NEW d \in D
  PROVE  Joined(f, << d >>) = f[d]
<1>0. f[d] \in Seq(S)
  BY DEF Fcns
<1>1. [k \in DOMAIN << d >> |-> f[<< d >>[k]]] = << f[d] >>
  BY <1>0
<1>2. << f[d] >> = Append(<< >>, f[d]) /\ << >> \in Seq(Seq(S)) /\ f[d] \in Seq(S)
  BY <1>0
<1>3. FlattenSeq(<< f[d] >>) = FlattenSeq(<< >>) \o f[d]
  BY <1>2, FlattenAppend
<1>. QED BY <1>1, <1>2, <1>3, FlattenEmpty, ConcatEmptySeq DEF Joined

(* A member at the end adds what it becomes. *)
LEMMA JoinedAppend ==
  ASSUME NEW D, NEW S, NEW f \in Fcns(D, Seq(S)), NEW s \in Seq(D), NEW d \in D
  PROVE  Joined(f, Append(s, d)) = Joined(f, s) \o f[d]
<1>1. Append(s, d) = s \o << d >> /\ << d >> \in Seq(D)
  BY AppendIsConcat
<1>2. PICK one \in Seq(D) : one = << d >>
  BY <1>1
<1>3. Joined(f, << d >>) = f[d]
  BY JoinedOne
<1>4. Joined(f, s \o one) = Joined(f, s) \o Joined(f, one)
  BY JoinedConcat
<1>. QED BY <1>1, <1>2, <1>3, <1>4

(* To join what the members of the members of ss become is to join what the *)
(* members of FlattenSeq(ss) become.                                        *)
LEMMA JoinedFlatten ==
  ASSUME NEW D, NEW S, NEW f \in Fcns(D, Seq(S)), NEW ss \in Seq(Seq(D))
  PROVE  /\ FlattenSeq(ss) \in Seq(D)
         /\ Joined(f, FlattenSeq(ss)) = FlattenSeq([k \in DOMAIN ss |-> Joined(f, ss[k])])
<1>0. PICK J : J = [s \in Seq(D) |-> Joined(f, s)]
  OBVIOUS
<1>. DEFINE I == {n \in Nat : \A tt \in Seq(Seq(D)) : Len(tt) = n =>
                                Joined(f, FlattenSeq(tt)) = Joined(J, tt)}
<1>1. J \in Fcns(Seq(D), Seq(S))
  BY <1>0, JoinedConcat DEF Fcns
<1>2. 0 \in I
  <2>1. SUFFICES ASSUME NEW tt \in Seq(Seq(D)), Len(tt) = 0
                 PROVE  Joined(f, FlattenSeq(tt)) = Joined(J, tt)
    OBVIOUS
  <2>2. tt = << >>
    BY <2>1, EmptySeq
  <2>. QED BY <2>2, FlattenEmpty, JoinedEmpty
<1>3. ASSUME NEW n \in Nat, n \in I PROVE n + 1 \in I
  <2>1. SUFFICES ASSUME NEW tt \in Seq(Seq(D)), Len(tt) = n + 1
                 PROVE  Joined(f, FlattenSeq(tt)) = Joined(J, tt)
    OBVIOUS
  <2>2. tt # << >>
    BY <2>1
  <2>3. PICK tv \in Seq(Seq(D)), e \in Seq(D) : tt = Append(tv, e)
    BY <2>2, SequenceEmptyOrAppend
  <2>4. Len(tv) = n
    BY <2>1, <2>3
  <2>5. Joined(f, FlattenSeq(tv)) = Joined(J, tv)
    BY <1>3, <2>4
  <2>6. FlattenSeq(tt) = FlattenSeq(tv) \o e /\ FlattenSeq(tv) \in Seq(D)
    BY <2>3, FlattenAppend
  <2>7. Joined(f, FlattenSeq(tt)) = Joined(f, FlattenSeq(tv)) \o Joined(f, e)
    <3>1. Joined(f, FlattenSeq(tv) \o e) = Joined(f, FlattenSeq(tv)) \o Joined(f, e)
      BY <2>6, JoinedConcat
    <3>. QED BY <2>6, <3>1
  <2>8. J[e] = Joined(f, e)
    BY <1>0
  <2>9. Joined(J, Append(tv, e)) = Joined(J, tv) \o J[e]
    BY <1>1, JoinedAppend
  <2>. QED BY <2>3, <2>5, <2>7, <2>8, <2>9
<1>. HIDE DEF I
<1>4. \A n \in Nat : n \in I
  BY <1>2, <1>3, SetInduction
<1>5. Joined(f, FlattenSeq(ss)) = Joined(J, ss)
  BY <1>4 DEF I
<1>6. [k \in DOMAIN ss |-> J[ss[k]]] = [k \in DOMAIN ss |-> Joined(f, ss[k])]
  <2>1. \A k \in DOMAIN ss : ss[k] \in Seq(D)
    OBVIOUS
  <2>. QED BY <1>0, <2>1
<1>7. FlattenSeq(ss) \in Seq(D)
  <2>1. << >> \in Seq(D)
    OBVIOUS
  <2>. QED BY <2>1, FlattenAppend
<1>. QED BY <1>5, <1>6, <1>7 DEF Joined

(* The members of a sequence, each a sequence of its own, joined again      *)
LEMMA FlattenSingles ==
  ASSUME NEW S, NEW s \in Seq(S)
  PROVE  FlattenSeq([k \in DOMAIN s |-> << s[k] >>]) = s
<1>0. PICK f : f = [x \in S |-> << x >>]
  OBVIOUS
<1>. DEFINE I == {n \in Nat : \A t \in Seq(S) : Len(t) = n => Joined(f, t) = t}
<1>1. f \in Fcns(S, Seq(S))
  BY <1>0 DEF Fcns
<1>2. 0 \in I
  <2>1. SUFFICES ASSUME NEW t \in Seq(S), Len(t) = 0 PROVE Joined(f, t) = t
    OBVIOUS
  <2>2. t = << >>
    BY <2>1, EmptySeq
  <2>. QED BY <2>2, JoinedEmpty
<1>3. ASSUME NEW n \in Nat, n \in I PROVE n + 1 \in I
  <2>1. SUFFICES ASSUME NEW t \in Seq(S), Len(t) = n + 1 PROVE Joined(f, t) = t
    OBVIOUS
  <2>2. t # << >>
    BY <2>1
  <2>3. PICK u \in Seq(S), e \in S : t = Append(u, e)
    BY <2>2, SequenceEmptyOrAppend
  <2>4. Len(u) = n
    BY <2>1, <2>3
  <2>5. Joined(f, u) = u
    BY <1>3, <2>4
  <2>6. f[e] = << e >>
    BY <1>0
  <2>7. Joined(f, Append(u, e)) = Joined(f, u) \o f[e]
    BY <1>1, JoinedAppend
  <2>8. Append(u, e) = u \o << e >>
    BY AppendIsConcat
  <2>. QED BY <2>3, <2>5, <2>6, <2>7, <2>8
<1>. HIDE DEF I
<1>4. \A n \in Nat : n \in I
  BY <1>2, <1>3, SetInduction
<1>5. Joined(f, s) = s
  BY <1>4 DEF I
<1>6. [k \in DOMAIN s |-> f[s[k]]] = [k \in DOMAIN s |-> << s[k] >>]
  BY <1>0
<1>. QED BY <1>5, <1>6 DEF Joined

-----------------------------------------------------------------------------
(* The shifts of itoah() and itoa(): functions by recursion over a number   *)

(* g has the value b at 0, and at k what F makes of the one at k - 1        *)
Recursion(g, n, b, F) == \A k \in 0..n : g[k] = IF k = 0 THEN b ELSE F[k][g[k - 1]]

(* Such a function exists, however far it goes. *)
LEMMA RecursionExists ==
  ASSUME NEW b \in Nat, NEW F, \A k, v \in Nat : F[k][v] \in Nat
  PROVE  \A n \in Nat : \E g \in [0..n -> Nat] : Recursion(g, n, b, F)
<1>. DEFINE S == {n \in Nat : \E g \in [0..n -> Nat] : Recursion(g, n, b, F)}
<1>1. 0 \in S
  <2>1. PICK g : g = [k \in 0..0 |-> b]
    OBVIOUS
  <2>2. g \in [0..0 -> Nat] /\ Recursion(g, 0, b, F)
    BY <2>1 DEF Recursion
  <2>. QED BY <2>2
<1>2. ASSUME NEW n \in Nat, n \in S PROVE n + 1 \in S
  <2>1. PICK g \in [0..n -> Nat] : Recursion(g, n, b, F)
    BY <1>2
  <2>2. PICK h : h = [k \in 0..(n + 1) |-> IF k = n + 1 THEN F[n + 1][g[n]] ELSE g[k]]
    OBVIOUS
  <2>3. g[n] \in Nat /\ F[n + 1][g[n]] \in Nat
    <3>1. n \in 0..n
      OBVIOUS
    <3>. QED BY <3>1
  <2>4. \A k \in 0..n : h[k] = g[k] /\ k \in 0..(n + 1)
    BY <2>2
  <2>5. h[n + 1] = F[n + 1][g[n]]
    BY <2>2
  <2>6. h \in [0..(n + 1) -> Nat]
    <3>1. ASSUME NEW k \in 0..(n + 1) PROVE h[k] \in Nat
      <4>1. k = n + 1 \/ k \in 0..n
        OBVIOUS
      <4>. QED BY <2>3, <2>4, <2>5, <4>1
    <3>. QED BY <2>2, <3>1
  <2>7. Recursion(h, n + 1, b, F)
    <3>1. SUFFICES ASSUME NEW k \in 0..(n + 1)
                   PROVE  h[k] = IF k = 0 THEN b ELSE F[k][h[k - 1]]
      BY DEF Recursion
    <3>2. CASE k = n + 1
      <4>1. k # 0 /\ k - 1 = n /\ n \in 0..n
        BY <3>2
      <4>. QED BY <2>4, <2>5, <3>2, <4>1
    <3>3. CASE k \in 0..n
      <4>1. k # 0 => k - 1 \in 0..n
        BY <3>3
      <4>. QED BY <2>1, <2>4, <3>3, <4>1 DEF Recursion
    <3>4. k = n + 1 \/ k \in 0..n
      OBVIOUS
    <3>. QED BY <3>2, <3>3, <3>4
  <2>. QED BY <2>6, <2>7
<1>. HIDE DEF S
<1>3. \A n \in Nat : n \in S
  BY <1>1, <1>2, SetInduction
<1>. QED BY <1>3 DEF S

(* A division by 16 takes a digit away. *)
LEMMA DivLess ==
  ASSUME NEW x \in Nat, NEW b \in Nat, x < 16 * b
  PROVE  x \div 16 < b
OBVIOUS

-----------------------------------------------------------------------------
(* d >>= 4 *)

(* Each turn of itoah() and itoa() divides by 16. *)
LEMMA ShiftedUnfold ==
  ASSUME NEW n \in Nat
  PROVE  /\ Shifted(n) \in [0..16 -> Nat]
         /\ Shifted(n)[0] = n
         /\ \A k \in 1..16 : Shifted(n)[k] = Shifted(n)[k - 1] \div 16
<1>. DEFINE d[k \in 0..DIGITS] == IF k = 0 THEN n ELSE d[k - 1] \div 16
<1>1. Shifted(n) = d
  BY DEF Shifted
<1>2. PICK F : F = [k \in Nat |-> [v \in Nat |-> v \div 16]]
  OBVIOUS
<1>3. \A k, v \in Nat : F[k][v] = v \div 16 /\ F[k][v] \in Nat
  BY <1>2
<1>4. PICK g \in [0..16 -> Nat] : Recursion(g, 16, n, F)
  <2>1. \A k, v \in Nat : F[k][v] \in Nat
    BY <1>3
  <2>2. 16 \in Nat
    OBVIOUS
  <2>. QED BY <2>1, <2>2, RecursionExists
<1>5. g = [k \in 0..DIGITS |-> IF k = 0 THEN n ELSE g[k - 1] \div 16]
  <2>1. \A k \in 0..16 : k # 0 => k - 1 \in 0..16 /\ k \in Nat
    OBVIOUS
  <2>2. \A k \in 0..16 : k # 0 => F[k][g[k - 1]] = g[k - 1] \div 16
    BY <1>3, <2>1
  <2>. QED BY <1>4, <2>2 DEF DIGITS, Recursion
<1>6. d = [k \in 0..DIGITS |-> IF k = 0 THEN n ELSE d[k - 1] \div 16]
  <2>1. \E x : x = [k \in 0..DIGITS |-> IF k = 0 THEN n ELSE x[k - 1] \div 16]
    BY <1>5
  <2>. QED BY <2>1, Zenon
<1>. HIDE DEF d
<1>7. ASSUME NEW k \in 0..16 PROVE d[k] = IF k = 0 THEN n ELSE d[k - 1] \div 16
  BY <1>6 DEF DIGITS
<1>8. \A k \in Nat : k \in 0..16 => d[k] \in Nat
  <2>. DEFINE I == {k \in Nat : k \in 0..16 => d[k] \in Nat}
  <2>1. 0 \in I
    BY <1>7
  <2>2. ASSUME NEW k \in Nat, k \in I PROVE k + 1 \in I
    <3>1. SUFFICES ASSUME k + 1 \in 0..16 PROVE d[k + 1] \in Nat
      OBVIOUS
    <3>2. d[k] \in Nat /\ d[k + 1] = d[k] \div 16
      <4>1. k \in 0..16 /\ (k + 1) - 1 = k /\ k + 1 # 0
        BY <3>1
      <4>. QED BY <1>7, <2>2, <3>1, <4>1
    <3>. QED BY <3>2
  <2>. HIDE DEF I
  <2>3. \A k \in Nat : k \in I
    BY <2>1, <2>2, SetInduction
  <2>. QED BY <2>3 DEF I
<1>9. d \in [0..16 -> Nat]
  BY <1>6, <1>8 DEF DIGITS
<1>10. d[0] = n /\ \A k \in 1..16 : d[k] = d[k - 1] \div 16
  BY <1>7
<1>. QED BY <1>1, <1>9, <1>10

(* the number without its last digit is one turn ahead                      *)
LEMMA ShiftedNext ==
  ASSUME NEW n \in Nat
  PROVE  \A k \in 1..16 : Shifted(n)[k] = Shifted(n \div 16)[k - 1]
<1>. DEFINE a == Shifted(n)
            b == Shifted(n \div 16)
            I == {k \in Nat : k \in 0..15 => a[k + 1] = b[k]}
<1>0. n \div 16 \in Nat
  OBVIOUS
<1>1. a[0] = n /\ \A k \in 1..16 : a[k] = a[k - 1] \div 16
  BY ShiftedUnfold
<1>2. b[0] = n \div 16 /\ \A k \in 1..16 : b[k] = b[k - 1] \div 16
  BY <1>0, ShiftedUnfold
<1>. HIDE DEF a, b
<1>3. 0 \in I
  <2>1. 1 \in 1..16 /\ 1 - 1 = 0 /\ 0 + 1 = 1
    OBVIOUS
  <2>2. a[1] = a[0] \div 16
    BY <1>1, <2>1
  <2>. QED BY <1>1, <1>2, <2>1, <2>2
<1>4. ASSUME NEW k \in Nat, k \in I PROVE k + 1 \in I
  <2>1. SUFFICES ASSUME k + 1 \in 0..15 PROVE a[k + 2] = b[k + 1]
    OBVIOUS
  <2>2. k \in 0..15 /\ k + 1 \in 1..16 /\ k + 2 \in 1..16 /\ (k + 2) - 1 = k + 1 /\ (k + 1) - 1 = k
    BY <2>1
  <2>3. a[k + 2] = a[k + 1] \div 16 /\ b[k + 1] = b[k] \div 16
    BY <1>1, <1>2, <2>2
  <2>. QED BY <1>4, <2>2, <2>3
<1>. HIDE DEF I
<1>5. \A k \in Nat : k \in I
  BY <1>3, <1>4, SetInduction
<1>6. ASSUME NEW k \in 1..16 PROVE a[k] = b[k - 1]
  <2>1. k - 1 \in Nat /\ k - 1 \in 0..15 /\ (k - 1) + 1 = k
    OBVIOUS
  <2>2. a[(k - 1) + 1] = b[k - 1]
    BY <1>5, <2>1 DEF I
  <2>. QED BY <2>1, <2>2
<1>. QED BY <1>6 DEF a, b

(* The numbers have less than sixteen digits. *)
LEMMA MaxInt == MAX_INT \in Nat /\ MAX_INT < 16 * 134217728
BY SMT DEF MAX_INT

(* So nothing is left after the fifteenth turn, or the first if they are    *)
(* small.                                                                   *)
LEMMA ShiftedBounds ==
  ASSUME NEW n \in 0..MAX_INT
  PROVE  /\ Shifted(n)[15] = 0
         /\ n < 16 => \A k \in 1..15 : Shifted(n)[k] = 0
<1>. DEFINE d == Shifted(n)
<1>1. n \in Nat /\ n <= MAX_INT
  BY MaxInt, SMT
<1>2. d[0] = n /\ d \in [0..16 -> Nat] /\ \A k \in 1..16 : d[k] = d[k - 1] \div 16
  BY <1>1, ShiftedUnfold
<1>. HIDE DEF d
<1>3. /\ d[1] = d[0] \div 16 /\ d[2] = d[1] \div 16 /\ d[3] = d[2] \div 16 /\ d[4] = d[3] \div 16
      /\ d[5] = d[4] \div 16 /\ d[6] = d[5] \div 16 /\ d[7] = d[6] \div 16 /\ d[8] = d[7] \div 16
      /\ d[9] = d[8] \div 16 /\ d[10] = d[9] \div 16 /\ d[11] = d[10] \div 16 /\ d[12] = d[11] \div 16
      /\ d[13] = d[12] \div 16 /\ d[14] = d[13] \div 16 /\ d[15] = d[14] \div 16
  BY <1>2
<1>4. \A k \in 0..15 : d[k] \in Nat
  BY <1>2
<1>5. \A b \in Nat, k \in 0..14 : d[k] < 16 * b => d[k + 1] < b
  <2>1. SUFFICES ASSUME NEW b \in Nat, NEW k \in 0..14, d[k] < 16 * b PROVE d[k + 1] < b
    OBVIOUS
  <2>2. PICK x \in Nat : x = d[k]
    <3>1. k \in 0..15
      OBVIOUS
    <3>. QED BY <1>4, <3>1
  <2>3. d[k + 1] = x \div 16
    <3>1. k + 1 \in 1..16 /\ (k + 1) - 1 = k
      OBVIOUS
    <3>. QED BY <1>2, <2>2, <3>1
  <2>4. x < 16 * b
    BY <2>1, <2>2
  <2>. QED BY <2>3, <2>4, DivLess
<1>6. d[8] = 0
  <2>1. d[0] < 16 * 134217728
    BY MaxInt, <1>1, <1>2, SMT
  <2>2. d[1] < 16 * 8388608
    BY <1>5, <2>1, SMT
  <2>3. d[2] < 16 * 524288
    BY <1>5, <2>2, SMT
  <2>4. d[3] < 16 * 32768
    BY <1>5, <2>3, SMT
  <2>5. d[4] < 16 * 2048
    BY <1>5, <2>4, SMT
  <2>6. d[5] < 16 * 128
    BY <1>5, <2>5, SMT
  <2>7. d[6] < 16 * 8
    BY <1>5, <2>6, SMT
  <2>8. d[7] < 16 * 1
    <3>1. d[7] < 8
      BY <1>5, <2>7
    <3>2. d[7] \in Nat
      BY <1>4
    <3>. QED BY <3>1, <3>2
  <2>9. d[8] < 1
    BY <1>5, <2>8
  <2>. QED BY <1>4, <2>9
<1>7. 0 \div 16 = 0
  OBVIOUS
<1>8. d[9] = 0 /\ d[10] = 0 /\ d[11] = 0
  BY <1>3, <1>6, <1>7
<1>9. d[12] = 0 /\ d[13] = 0 /\ d[14] = 0 /\ d[15] = 0
  BY <1>3, <1>7, <1>8
<1>10. ASSUME n < 16 PROVE \A k \in 1..15 : d[k] = 0
  <2>1. d[1] = 0
    <3>1. d[0] < 16 * 1
      BY <1>2, <1>10
    <3>2. d[1] < 1
      BY <1>5, <3>1
    <3>. QED BY <1>4, <3>2
  <2>2. d[2] = 0 /\ d[3] = 0 /\ d[4] = 0
    BY <1>3, <1>7, <2>1
  <2>3. d[5] = 0 /\ d[6] = 0 /\ d[7] = 0
    BY <1>3, <1>7, <2>2
  <2>4. \A k \in 1..15 : \/ k = 1 \/ k = 2 \/ k = 3 \/ k = 4 \/ k = 5 \/ k = 6 \/ k = 7 \/ k = 8
                        \/ k = 9 \/ k = 10 \/ k = 11 \/ k = 12 \/ k = 13 \/ k = 14 \/ k = 15
    OBVIOUS
  <2>. QED BY <1>6, <1>8, <1>9, <2>1, <2>2, <2>3, <2>4
<1>. QED BY <1>9, <1>10 DEF d

-----------------------------------------------------------------------------
(* Hexadecimal digits: where the number begins, and its text                *)

(* s is where the number in the sixteen digits of a begins                  *)
Begins(a, s) ==
  /\ s \in 1..16
  /\ \A j \in 1..(s - 1) : a[j] = ZERO
  /\ a[s] # ZERO \/ s = 16

(* The least member is the minimum. *)
LEMMA LeastIsMin ==
  ASSUME NEW T, NEW x \in T, T \subseteq Nat, \A y \in T : x <= y
  PROVE  Min(T) = x
<1>1. \A y \in T : (\A z \in T : y <= z) => y = x
  <2>1. ASSUME NEW y \in T, \A z \in T : y <= z PROVE y = x
    <3>1. y <= x /\ x <= y /\ x \in Nat /\ y \in Nat
      BY <2>1
    <3>. QED BY <3>1
  <2>. QED BY <2>1
<1>. QED BY <1>1 DEF Min

(* A function on 1..n is a sequence. *)
LEMMA FunctionSeq ==
  ASSUME NEW S, NEW n \in Nat, NEW g \in [1..n -> S]
  PROVE  g \in Seq(S) /\ Len(g) = n
OBVIOUS

(* A sequence of one member. *)
LEMMA SeqOfOne ==
  ASSUME NEW S, NEW x \in S
  PROVE  /\ << x >> \in Seq(S) /\ Len(<< x >>) = 1 /\ << x >>[1] = x
OBVIOUS

(* A member more at the end. *)
LEMMA AppendOne ==
  ASSUME NEW S, NEW s \in Seq(S), NEW c \in S
  PROVE  /\ Append(s, c) \in Seq(S)
         /\ Len(Append(s, c)) = Len(s) + 1
         /\ \A k \in 1..Len(s) : Append(s, c)[k] = s[k]
         /\ Append(s, c)[Len(s) + 1] = c
OBVIOUS

(* The same of a number. *)
LEMMA AppendNat ==
  ASSUME NEW a \in Seq(Nat), NEW c \in Nat
  PROVE  /\ Len(Append(a, c)) = Len(a) + 1
         /\ \A k \in 1..Len(a) : Append(a, c)[k] = a[k]
         /\ Append(a, c)[Len(a) + 1] = c
OBVIOUS

(* FirstDigit finds where the number begins. *)
LEMMA FirstDigitIs ==
  ASSUME NEW a \in Seq(Nat), Len(a) = 16, NEW s, Begins(a, s)
  PROVE  FirstDigit(a) = s
<1>. DEFINE b == Append(a, NUL)
            I == {k \in 1..Len(b) : b[k] # ZERO}
            first == IF I # {} THEN Min(I) ELSE 0
<1>1. Len(b) = 17 /\ b[17] # ZERO /\ \A k \in 1..16 : b[k] = a[k]
  <2>1. NUL \in Nat /\ NUL # ZERO
    BY DEF NUL, ZERO
  <2>2. PICK c \in Nat : c = NUL
    BY <2>1
  <2>3. /\ Len(Append(a, c)) = Len(a) + 1
        /\ \A k \in 1..Len(a) : Append(a, c)[k] = a[k]
        /\ Append(a, c)[Len(a) + 1] = c
    BY AppendNat
  <2>4. b = Append(a, c)
    BY <2>2
  <2>. HIDE DEF b
  <2>5. Len(a) + 1 = 17
    OBVIOUS
  <2>6. Len(b) = 17 /\ b[17] = NUL
    BY <2>2, <2>3, <2>4, <2>5
  <2>. QED BY <2>1, <2>3, <2>4, <2>6
<1>2. FirstDigit(a) = IF first > DIGITS THEN DIGITS ELSE first
  BY DEF FirstDigit, SelectInSeq
<1>. HIDE DEF b
<1>3. s \in Nat /\ s <= 16 /\ 1 <= s
  BY DEF Begins
<1>4. CASE a[s] # ZERO
  <2>1. s \in I
    BY <1>1, <1>3, <1>4
  <2>2. \A k \in I : s <= k
    <3>1. SUFFICES ASSUME NEW k \in I, k < s PROVE FALSE
      BY <1>1, <1>3
    <3>2. k \in 1..(s - 1) /\ k \in 1..16
      BY <1>1, <1>3, <3>1
    <3>3. a[k] = ZERO
      BY <3>2 DEF Begins
    <3>. QED BY <1>1, <3>2, <3>3
  <2>3. I \subseteq Nat
    <3>1. \A k \in I : k \in Nat
      BY <1>1
    <3>. HIDE DEF I
    <3>. QED BY <3>1
  <2>. HIDE DEF I
  <2>4. Min(I) = s
    BY <2>1, <2>2, <2>3, LeastIsMin
  <2>5. first = s
    BY <2>1, <2>4
  <2>. HIDE DEF first
  <2>. QED BY <1>2, <1>3, <2>5 DEF DIGITS
<1>5. CASE a[s] = ZERO
  <2>1. s = 16
    BY <1>5 DEF Begins
  <2>2. \A k \in 1..16 : a[k] = ZERO
    <3>1. \A k \in 1..16 : k = 16 \/ k \in 1..(16 - 1)
      OBVIOUS
    <3>. QED BY <1>5, <2>1, <3>1 DEF Begins
  <2>3. I = {17}
    <3>1. 17 \in I
      BY <1>1
    <3>2. ASSUME NEW k \in I PROVE k = 17
      <4>1. k \in 1..17 /\ b[k] # ZERO
        BY <1>1
      <4>. QED BY <1>1, <2>2, <4>1
    <3>. QED BY <3>1, <3>2
  <2>. HIDE DEF I
  <2>4. Min(I) = 17
    <3>1. 17 \in I /\ I \subseteq Nat /\ \A k \in I : 17 <= k
      BY <2>3
    <3>. QED BY <3>1, LeastIsMin
  <2>5. first = 17
    BY <2>3, <2>4
  <2>. HIDE DEF first
  <2>. QED BY <1>2, <2>1, <2>5 DEF DIGITS
<1>. QED BY <1>4, <1>5

(* the text of a digit is 0 for 0 alone                                     *)
LEMMA HexDigits ==
  ASSUME NEW v \in 0..15
  PROVE  /\ HexDigit(v) \in Nat
         /\ HexDigit(v) = ZERO <=> v = 0
BY DEF HexDigit, ZERO, LETTER_A

(* itoah() writes the digits from the last to the first. *)
LEMMA ItoahUnfold ==
  ASSUME NEW n \in Nat
  PROVE  /\ itoah(n) \in Seq(Nat)
         /\ Len(itoah(n)) = 16
         /\ \A k \in 1..16 : itoah(n)[k] = HexDigit(Shifted(n)[16 - k] % 16)
<1>. DEFINE d == Shifted(n)
<1>1. d \in [0..16 -> Nat]
  BY ShiftedUnfold
<1>2. itoah(n) = [k \in 1..16 |-> HexDigit(d[16 - k] % 16)]
  BY DEF itoah, DIGITS, Nibble
<1>. HIDE DEF d
<1>3. ASSUME NEW k \in 1..16 PROVE HexDigit(d[16 - k] % 16) \in Nat
  <2>1. PICK x \in Nat : x = d[16 - k]
    <3>1. 16 - k \in 0..16
      OBVIOUS
    <3>. QED BY <1>1, <3>1
  <2>2. x % 16 \in 0..15
    OBVIOUS
  <2>. QED BY <2>1, <2>2, HexDigits
<1>4. PICK g : g = [k \in 1..16 |-> HexDigit(d[16 - k] % 16)]
  OBVIOUS
<1>5. g \in Seq(Nat) /\ Len(g) = 16
  <2>1. g \in [1..16 -> Nat]
    BY <1>3, <1>4
  <2>2. 16 \in Nat
    OBVIOUS
  <2>. QED BY <2>1, <2>2, FunctionSeq
<1>. QED BY <1>2, <1>4, <1>5 DEF d

(* the digits g has for the numbers up to n are those of itoah()            *)
HexOf(g, n) ==
  \A m \in 0..n : g[m] = IF m < 16 THEN << HexDigit(m) >>
                         ELSE Append(g[m \div 16], HexDigit(m % 16))

(* the text of a number is what is left of its digits without leading zeros *)
IsText(t, a) ==
  \E s \in 1..16 : Begins(a, s) /\ t \in Seq(Nat) /\ Len(t) = 17 - s /\ \A j \in 1..(17 - s) : t[j] = a[s + j - 1]

(* A number below 16 is its last digit. *)
LEMMA OneHexDigit ==
  ASSUME NEW m \in 0..MAX_INT, m < 16
  PROVE  IsText(<< HexDigit(m) >>, itoah(m)) /\ (m # 0 => itoah(m)[16] # ZERO)
<1>. DEFINE a == itoah(m)
<1>0. m \in Nat
  BY MaxInt
<1>1. Shifted(m)[0] = m /\ \A k \in 1..15 : Shifted(m)[k] = 0
  BY <1>0, ShiftedUnfold, ShiftedBounds
<1>2. \A k \in 1..16 : a[k] = HexDigit(Shifted(m)[16 - k] % 16)
  BY <1>0, ItoahUnfold
<1>. HIDE DEF a
<1>3. a[16] = HexDigit(m)
  <2>1. 16 - 16 = 0 /\ 16 \in 1..16 /\ m % 16 = m
    BY <1>0
  <2>. QED BY <1>1, <1>2, <2>1
<1>4. \A k \in 1..15 : a[k] = ZERO
  <2>1. ASSUME NEW k \in 1..15 PROVE a[k] = ZERO
    <3>1. 16 - k \in 1..15 /\ k \in 1..16 /\ 0 % 16 = 0
      OBVIOUS
    <3>2. a[k] = HexDigit(0)
      BY <1>1, <1>2, <3>1
    <3>. QED BY <3>2, HexDigits
  <2>. QED BY <2>1
<1>5. Begins(a, 16)
  BY <1>4 DEF Begins
<1>6. HexDigit(m) \in Nat /\ (m # 0 => HexDigit(m) # ZERO)
  BY <1>0, HexDigits
<1>7. PICK t \in Seq(Nat) : t = << HexDigit(m) >> /\ Len(t) = 1 /\ t[1] = HexDigit(m)
  BY <1>6, SeqOfOne
<1>8. IsText(t, a)
  <2>1. \A j \in 1..(17 - 16) : t[j] = a[16 + j - 1]
    BY <1>3, <1>7
  <2>2. Len(t) = 17 - 16 /\ 16 \in 1..16
    BY <1>7
  <2>. QED BY <1>5, <2>1, <2>2 DEF IsText
<1>. QED BY <1>3, <1>6, <1>7, <1>8 DEF a

(* Any other number is the one without its last digit, and that digit. *)
LEMMA NextHexDigit ==
  ASSUME NEW m \in 0..MAX_INT, 16 <= m, NEW t,
         IsText(t, itoah(m \div 16)), ~(\A k \in 1..16 : itoah(m \div 16)[k] = ZERO)
  PROVE  /\ IsText(Append(t, HexDigit(m % 16)), itoah(m))
         /\ ~(\A k \in 1..16 : itoah(m)[k] = ZERO)
<1>. DEFINE q == m \div 16
            a == itoah(m)
            b == itoah(q)
            x == HexDigit(m % 16)
<1>1. m \in Nat /\ q \in Nat /\ q <= m /\ m <= MAX_INT /\ m % 16 \in 0..15
  BY MaxInt
<1>2. q \in 0..MAX_INT
  BY <1>1, MaxInt
<1>3. \A k \in 1..16 : a[k] = HexDigit(Shifted(m)[16 - k] % 16)
  BY <1>1, ItoahUnfold
<1>. HIDE DEF q
<1>4. \A k \in 1..16 : b[k] = HexDigit(Shifted(q)[16 - k] % 16)
  BY <1>1, ItoahUnfold
<1>5. \A k \in 1..16 : Shifted(m)[k] = Shifted(q)[k - 1]
  BY <1>1, ShiftedNext DEF q
<1>. HIDE DEF a, b
<1>6. \A k \in 1..15 : a[k] = b[k + 1]
  <2>1. SUFFICES ASSUME NEW k \in 1..15 PROVE a[k] = b[k + 1]
    OBVIOUS
  <2>2. 16 - k \in 1..16 /\ (16 - k) - 1 = 16 - (k + 1) /\ k \in 1..16 /\ k + 1 \in 1..16
    OBVIOUS
  <2>3. Shifted(m)[16 - k] = Shifted(q)[16 - (k + 1)]
    BY <1>5, <2>2
  <2>. QED BY <1>3, <1>4, <2>2, <2>3
<1>7. a[16] = x
  <2>1. 16 - 16 = 0 /\ 16 \in 1..16
    OBVIOUS
  <2>2. Shifted(m)[0] = m
    BY <1>1, ShiftedUnfold
  <2>. QED BY <1>3, <2>1, <2>2
<1>8. b[1] = ZERO
  <2>1. Shifted(q)[15] = 0
    BY <1>2, ShiftedBounds
  <2>2. 1 \in 1..16 /\ 16 - 1 = 15 /\ 0 % 16 = 0
    OBVIOUS
  <2>3. b[1] = HexDigit(0)
    BY <1>4, <2>1, <2>2
  <2>. QED BY <2>3, HexDigits
<1>9. PICK s \in 1..16 : /\ Begins(b, s) /\ t \in Seq(Nat) /\ Len(t) = 17 - s
                        /\ \A j \in 1..(17 - s) : t[j] = b[s + j - 1]
  BY DEF IsText, b, q
<1>10. b[s] # ZERO
  <2>1. SUFFICES ASSUME b[s] = ZERO PROVE FALSE
    OBVIOUS
  <2>2. s = 16
    BY <1>9, <2>1 DEF Begins
  <2>3. \A k \in 1..16 : b[k] = ZERO
    <3>1. SUFFICES ASSUME NEW k \in 1..16 PROVE b[k] = ZERO
      OBVIOUS
    <3>2. k = s \/ k \in 1..(s - 1)
      BY <2>2
    <3>. QED BY <1>9, <2>1, <3>2 DEF Begins
  <2>. QED BY <2>3 DEF b, q
<1>11. s # 1
  BY <1>8, <1>10
<1>12. s - 1 \in 1..16 /\ s - 1 \in 1..15
  BY <1>9, <1>11
<1>13. a[s - 1] # ZERO
  <2>1. (s - 1) + 1 = s
    OBVIOUS
  <2>. QED BY <1>6, <1>10, <1>12, <2>1
<1>14. Begins(a, s - 1)
  <2>1. ASSUME NEW j \in 1..((s - 1) - 1) PROVE a[j] = ZERO
    <3>1. j \in 1..15 /\ j + 1 \in 1..(s - 1)
      BY <1>12
    <3>. QED BY <1>6, <1>9, <3>1 DEF Begins
  <2>. QED BY <1>12, <1>13, <2>1 DEF Begins
<1>15. x \in Nat
  BY <1>1, HexDigits
<1>. HIDE DEF x
<1>16. PICK u \in Seq(Nat) : /\ u = Append(t, x) /\ Len(u) = Len(t) + 1 /\ u[Len(t) + 1] = x
                            /\ \A k \in 1..Len(t) : u[k] = t[k]
  <2>1. t \in Seq(Nat)
    BY <1>9
  <2>2. PICK y \in Nat : y = x
    BY <1>15
  <2>3. /\ Append(t, y) \in Seq(Nat) /\ Len(Append(t, y)) = Len(t) + 1
        /\ Append(t, y)[Len(t) + 1] = y /\ \A k \in 1..Len(t) : Append(t, y)[k] = t[k]
    BY <2>1
  <2>. QED BY <2>2, <2>3
<1>17. Len(u) = 17 - (s - 1)
  BY <1>9, <1>16
<1>18. \A j \in 1..(17 - (s - 1)) : u[j] = a[(s - 1) + j - 1]
  <2>1. SUFFICES ASSUME NEW j \in 1..(17 - (s - 1)) PROVE u[j] = a[(s - 1) + j - 1]
    OBVIOUS
  <2>2. CASE j = 18 - s
    <3>1. u[j] = x
      BY <1>9, <1>16, <2>2
    <3>2. (s - 1) + j - 1 = 16
      BY <2>2
    <3>. QED BY <1>7, <3>1, <3>2
  <2>3. CASE j # 18 - s
    <3>1. j \in 1..(17 - s) /\ (s - 1) + j - 1 \in 1..15 /\ ((s - 1) + j - 1) + 1 = s + j - 1
      BY <1>12, <2>3
    <3>2. u[j] = t[j]
      BY <1>9, <1>16, <3>1
    <3>. QED BY <1>6, <1>9, <3>1, <3>2
  <2>. QED BY <2>2, <2>3
<1>19. IsText(u, a)
  BY <1>12, <1>14, <1>17, <1>18 DEF IsText
<1>. QED BY <1>12, <1>13, <1>16, <1>19 DEF a, x

(* the digits of every number up to n, as the divisions by 16 give them, are *)
(* those of itoah() without the leading zeros                               *)
LEMMA HexText ==
  ASSUME NEW n \in 0..MAX_INT, NEW g, HexOf(g, n)
  PROVE  IsText(g[n], itoah(n))
<1>. DEFINE good(m) ==
              /\ IsText(g[m], itoah(m))
              /\ m # 0 => ~(\A k \in 1..16 : itoah(m)[k] = ZERO)
            I == {m \in Nat : \A j \in 0..m : j <= n => good(j)}
<1>0. n \in Nat /\ n <= MAX_INT
  BY MaxInt
<1>1. ASSUME NEW m \in Nat, m <= n, m < 16 PROVE good(m)
  <2>1. m \in 0..MAX_INT /\ m \in 0..n
    BY <1>0, <1>1, MaxInt
  <2>2. g[m] = << HexDigit(m) >>
    BY <1>1, <2>1 DEF HexOf
  <2>3. 16 \in 1..16
    OBVIOUS
  <2>. QED BY <1>1, <2>1, <2>2, <2>3, OneHexDigit
<1>2. 0 \in I
  <2>1. good(0)
    BY <1>0, <1>1
  <2>2. \A j \in 0..0 : j = 0
    OBVIOUS
  <2>. HIDE DEF good
  <2>. QED BY <2>1, <2>2
<1>3. ASSUME NEW m \in Nat, m \in I PROVE m + 1 \in I
  <2>1. ASSUME m + 1 <= n PROVE good(m + 1)
    <3>1. CASE m + 1 < 16
      <4>1. m + 1 \in Nat
        OBVIOUS
      <4>. HIDE DEF good
      <4>. QED BY <1>1, <2>1, <3>1, <4>1
    <3>2. CASE 16 <= m + 1
      <4>1. PICK p \in Nat : p = m + 1
        OBVIOUS
      <4>2. p \div 16 \in Nat /\ p \div 16 <= m /\ p \div 16 # 0 /\ p \div 16 <= n
        BY <1>0, <2>1, <3>2, <4>1
      <4>3. good(p \div 16)
        <5>1. p \div 16 \in 0..m
          BY <4>2
        <5>. HIDE DEF good
        <5>. QED BY <1>3, <4>2, <5>1
      <4>4. p \in 0..MAX_INT /\ p \in 0..n
        BY <1>0, <2>1, <4>1, MaxInt
      <4>5. g[p] = Append(g[p \div 16], HexDigit(p % 16))
        <5>1. ~(p < 16)
          BY <3>2, <4>1
        <5>. QED BY <4>4, <5>1 DEF HexOf
      <4>6. good(p)
        <5>1. 16 <= p
          BY <3>2, <4>1
        <5>2. IsText(g[p \div 16], itoah(p \div 16))
          BY <4>3
        <5>3. ~(\A k \in 1..16 : itoah(p \div 16)[k] = ZERO)
          BY <4>2, <4>3
        <5>. QED BY <4>4, <4>5, <5>1, <5>2, <5>3, NextHexDigit
      <4>. QED BY <4>1, <4>6
    <3>. QED BY <3>1, <3>2
  <2>2. \A j \in 0..(m + 1) : j = m + 1 \/ j \in 0..m
    OBVIOUS
  <2>. HIDE DEF good
  <2>. QED BY <1>3, <2>1, <2>2
<1>. HIDE DEF I
<1>4. \A m \in Nat : m \in I
  BY <1>2, <1>3, SetInduction
<1>5. good(n)
  <2>. HIDE DEF good
  <2>. QED BY <1>0, <1>4 DEF I
<1>. QED BY <1>5

-----------------------------------------------------------------------------
(* bputint(): what is printed of a number                                   *)

(* g has the digits of the numbers up to n                                  *)
DigitsOf(g, n, base) ==
  g = [m \in 0..n |-> IF m < base THEN << HexDigit(m) >> ELSE Append(g[m \div base], HexDigit(m % base))]

(* The digits of the reference text exist, for any base that makes numbers  *)
(* smaller.                                                                 *)
LEMMA DigitsExist ==
  ASSUME NEW base \in Nat, \A m \in Nat : base <= m => m \div base \in Nat /\ m \div base < m
  PROVE  \A n \in Nat : \E g : DigitsOf(g, n, base)
<1>. DEFINE I == {n \in Nat : \E g : DigitsOf(g, n, base)}
<1>1. 0 \in I
  <2>1. base = 0 \/ 0 < base
    OBVIOUS
  <2>2. 0 < base
    <3>1. SUFFICES ASSUME base = 0 PROVE FALSE
      BY <2>1
    <3>2. 0 \div base \in Nat /\ 0 \div base < 0
      BY <3>1
    <3>. QED BY <3>2
  <2>3. PICK g : g = [m \in 0..0 |-> << HexDigit(m) >>]
    OBVIOUS
  <2>4. \A m \in 0..0 : m < base
    BY <2>2
  <2>5. DigitsOf(g, 0, base)
    BY <2>3, <2>4 DEF DigitsOf
  <2>. QED BY <2>5
<1>2. ASSUME NEW n \in Nat, n \in I PROVE n + 1 \in I
  <2>1. PICK g : DigitsOf(g, n, base)
    BY <1>2
  <2>2. PICK x : x = IF n + 1 < base THEN << HexDigit(n + 1) >>
                     ELSE Append(g[(n + 1) \div base], HexDigit((n + 1) % base))
    OBVIOUS
  <2>3. PICK h : h = [m \in 0..(n + 1) |-> IF m = n + 1 THEN x ELSE g[m]]
    OBVIOUS
  <2>4. \A m \in 0..n : h[m] = g[m]
    <3>1. \A m \in 0..n : m \in 0..(n + 1) /\ m # n + 1
      OBVIOUS
    <3>. QED BY <2>3, <3>1
  <2>5. \A m \in 0..n : g[m] = IF m < base THEN << HexDigit(m) >>
                               ELSE Append(g[m \div base], HexDigit(m % base))
    BY <2>1 DEF DigitsOf
  <2>6. ASSUME NEW m \in 0..(n + 1)
        PROVE  h[m] = IF m < base THEN << HexDigit(m) >> ELSE Append(h[m \div base], HexDigit(m % base))
    <3>1. ~(m < base) => m \div base \in 0..n /\ h[m \div base] = g[m \div base]
      <4>1. SUFFICES ASSUME ~(m < base) PROVE m \div base \in 0..n
        BY <2>4
      <4>2. m \div base \in Nat /\ m \div base < m
        BY <4>1
      <4>. QED BY <4>2
    <3>2. CASE m = n + 1
      <4>1. h[m] = x
        BY <2>3, <3>2
      <4>. QED BY <2>2, <3>1, <3>2, <4>1
    <3>3. CASE m # n + 1
      <4>1. m \in 0..n
        BY <3>3
      <4>2. h[m] = g[m]
        BY <2>4, <4>1
      <4>. QED BY <2>5, <3>1, <4>1, <4>2
    <3>. QED BY <3>2, <3>3
  <2>7. DigitsOf(h, n + 1, base)
    BY <2>3, <2>6, Zenon DEF DigitsOf
  <2>. QED BY <2>7
<1>. HIDE DEF I
<1>3. \A n \in Nat : n \in I
  BY <1>1, <1>2, SetInduction
<1>. QED BY <1>3 DEF I

(* The reference text is zeros and these digits. *)
LEMMA NumberTextUnfold ==
  ASSUME NEW base \in Nat, \A m \in Nat : base <= m => m \div base \in Nat /\ m \div base < m,
         NEW n \in Nat, NEW w
  PROVE  \E g : /\ DigitsOf(g, n, base)
                /\ NumberText(n, base, w) = [k \in 1..(w - Len(g[n])) |-> ZERO] \o g[n]
<1>. DEFINE digits[m \in 0..n] ==
              IF m < base THEN << HexDigit(m) >> ELSE Append(digits[m \div base], HexDigit(m % base))
<1>1. NumberText(n, base, w) = [k \in 1..(w - Len(digits[n])) |-> ZERO] \o digits[n]
  BY DEF NumberText
<1>2. \E g : g = [m \in 0..n |-> IF m < base THEN << HexDigit(m) >> ELSE Append(g[m \div base], HexDigit(m % base))]
  BY DigitsExist DEF DigitsOf
<1>3. digits = [m \in 0..n |-> IF m < base THEN << HexDigit(m) >> ELSE Append(digits[m \div base], HexDigit(m % base))]
  BY <1>2, Zenon
<1>. HIDE DEF digits
<1>4. DigitsOf(digits, n, base)
  BY <1>3, Zenon DEF DigitsOf
<1>. QED BY <1>1, <1>4

(* Zeros in front. *)
LEMMA PadNat ==
  ASSUME NEW z \in Nat
  PROVE  /\ [k \in 1..z |-> ZERO] \in Seq(Nat)
         /\ Len([k \in 1..z |-> ZERO]) = z
         /\ \A k \in 1..z : [j \in 1..z |-> ZERO][k] = ZERO
<1>1. ZERO \in Nat
  BY DEF ZERO
<1>2. [k \in 1..z |-> ZERO] \in [1..z -> Nat]
  BY <1>1
<1>3. PICK g : g = [k \in 1..z |-> ZERO]
  OBVIOUS
<1>4. g \in Seq(Nat) /\ Len(g) = z
  BY <1>2, <1>3, FunctionSeq
<1>. QED BY <1>3, <1>4

(* None are needed. *)
LEMMA NoPad ==
  ASSUME NEW z \in Int, z <= 0
  PROVE  [k \in 1..z |-> ZERO] = << >>
<1>1. 1..z = {}
  OBVIOUS
<1>. QED BY <1>1

(* Two sequences, one behind the other. *)
LEMMA ConcatNat ==
  ASSUME NEW S, NEW s \in Seq(S), NEW t \in Seq(S)
  PROVE  /\ s \o t \in Seq(S) /\ Len(s \o t) = Len(s) + Len(t)
         /\ \A k \in 1..(Len(s) + Len(t)) : (s \o t)[k] = IF k <= Len(s) THEN s[k] ELSE t[k - Len(s)]
OBVIOUS

(* The end of a sequence. *)
LEMMA SuffixNat ==
  ASSUME NEW s \in Seq(Nat), NEW n \in Nat, Len(s) = n, NEW m \in 1..n
  PROVE  /\ SubSeq(s, m, n) \in Seq(Nat) /\ Len(SubSeq(s, m, n)) = n + 1 - m
         /\ \A k \in 1..(n + 1 - m) : SubSeq(s, m, n)[k] = s[m + k - 1]
OBVIOUS

(* what bputint() takes from the digits is the text with zeros in front     *)
LEMMA PutText ==
  ASSUME NEW a \in Seq(Nat), Len(a) = 16, NEW t, IsText(t, a), NEW w \in 0..16
  PROVE  /\ bputint(w, a) = [k \in 1..(w - Len(t)) |-> ZERO] \o t
         /\ bputint(w, a) \in Seq(Nat)
<1>1. PICK s \in 1..16 : /\ Begins(a, s) /\ t \in Seq(Nat) /\ Len(t) = 17 - s
                        /\ \A j \in 1..(17 - s) : t[j] = a[s + j - 1]
  BY DEF IsText
<1>2. FirstDigit(a) = s
  BY <1>1, FirstDigitIs
<1>3. PICK b : b = IF 17 - s < w THEN s - (w - (17 - s)) ELSE s
  OBVIOUS
<1>4. bputint(w, a) = SubSeq(a, b, 16)
  BY <1>2, <1>3 DEF bputint, DIGITS
<1>5. b \in 1..s /\ (17 - s < w => b = 17 - w) /\ (~(17 - s < w) => b = s)
  BY <1>1, <1>3
<1>6. /\ SubSeq(a, b, 16) \in Seq(Nat) /\ Len(SubSeq(a, b, 16)) = 17 - b
      /\ \A k \in 1..(17 - b) : SubSeq(a, b, 16)[k] = a[b + k - 1]
  <2>1. PICK n \in Nat : n = 16
    OBVIOUS
  <2>2. Len(a) = n /\ b \in 1..n
    BY <1>1, <1>5, <2>1
  <2>3. /\ SubSeq(a, b, n) \in Seq(Nat) /\ Len(SubSeq(a, b, n)) = n + 1 - b
        /\ \A k \in 1..(n + 1 - b) : SubSeq(a, b, n)[k] = a[b + k - 1]
    BY <2>2, SuffixNat
  <2>4. n + 1 - b = 17 - b
    BY <1>5, <2>1
  <2>. QED BY <2>1, <2>3, <2>4
<1>7. ASSUME ~(17 - s < w)
      PROVE  [k \in 1..(w - Len(t)) |-> ZERO] \o t = SubSeq(a, b, 16)
  <2>1. [k \in 1..(w - Len(t)) |-> ZERO] = << >>
    <3>1. w - Len(t) \in Int /\ w - Len(t) <= 0
      BY <1>1, <1>7
    <3>. QED BY <3>1, NoPad
  <2>2. << >> \o t = t
    BY <1>1
  <2>3. t = SubSeq(a, b, 16)
    <3>1. b = s
      BY <1>5, <1>7
    <3>2. \A j \in 1..Len(t) : t[j] = SubSeq(a, b, 16)[j]
      BY <1>1, <1>6, <3>1
    <3>3. Len(t) = Len(SubSeq(a, b, 16))
      BY <1>1, <1>6, <3>1
    <3>. QED BY <1>1, <1>6, <3>2, <3>3, SeqEqual
  <2>. QED BY <2>1, <2>2, <2>3
<1>8. ASSUME 17 - s < w
      PROVE  [k \in 1..(w - Len(t)) |-> ZERO] \o t = SubSeq(a, b, 16)
  <2>1. PICK z \in Nat : z = w - Len(t) /\ z = s - b
    BY <1>1, <1>5, <1>8
  <2>2. PICK p \in Seq(Nat) : p = [k \in 1..z |-> ZERO] /\ Len(p) = z /\ \A k \in 1..z : p[k] = ZERO
    BY PadNat
  <2>3. /\ p \o t \in Seq(Nat) /\ Len(p \o t) = z + (17 - s)
        /\ \A k \in 1..(z + (17 - s)) : (p \o t)[k] = IF k <= z THEN p[k] ELSE t[k - z]
    BY <1>1, <2>2, ConcatNat
  <2>4. ASSUME NEW k \in 1..(17 - b) PROVE (p \o t)[k] = SubSeq(a, b, 16)[k]
    <3>1. k \in 1..(z + (17 - s))
      BY <1>1, <1>5, <2>1
    <3>2. CASE k <= z
      <4>1. b + k - 1 \in 1..(s - 1) /\ k \in 1..z
        BY <1>5, <2>1, <3>2
      <4>2. a[b + k - 1] = ZERO
        BY <1>1, <4>1 DEF Begins
      <4>. QED BY <1>6, <2>2, <2>3, <3>1, <3>2, <4>1, <4>2
    <3>3. CASE ~(k <= z)
      <4>1. k - z \in 1..(17 - s) /\ s + (k - z) - 1 = b + k - 1
        BY <1>1, <1>5, <2>1, <3>3
      <4>2. t[k - z] = a[b + k - 1]
        BY <1>1, <4>1
      <4>. QED BY <1>6, <2>3, <3>1, <3>3, <4>2
    <3>. QED BY <3>2, <3>3
  <2>5. Len(p \o t) = 17 - b
    BY <1>1, <1>5, <2>1, <2>3
  <2>6. p \o t = SubSeq(a, b, 16)
    BY <1>6, <2>3, <2>4, <2>5, SeqEqual
  <2>. QED BY <2>1, <2>2, <2>6
<1>. QED BY <1>4, <1>6, <1>7, <1>8

(* "%x" and "%016x": for every number an int holds and every width up to   *)
(* sixteen, what bputint() prints of the digits of itoah() is the number,   *)
(* with as many zeros in front as the width asks for.                       *)
THEOREM HexIsNumber ==
  ASSUME NEW n \in 0..MAX_INT, NEW w \in 0..16
  PROVE  bputint(w, itoah(n)) = NumberText(n, 16, w) /\ NumberText(n, 16, w) \in Seq(Nat)
<1>1. n \in Nat
  BY MaxInt
<1>2. 16 \in Nat /\ \A m \in Nat : 16 <= m => m \div 16 \in Nat /\ m \div 16 < m
  OBVIOUS
<1>3. PICK g : /\ DigitsOf(g, n, 16)
               /\ NumberText(n, 16, w) = [k \in 1..(w - Len(g[n])) |-> ZERO] \o g[n]
  BY <1>1, <1>2, NumberTextUnfold
<1>4. HexOf(g, n)
  BY <1>3 DEF HexOf, DigitsOf
<1>5. IsText(g[n], itoah(n))
  BY <1>4, HexText
<1>6. /\ bputint(w, itoah(n)) = [k \in 1..(w - Len(g[n])) |-> ZERO] \o g[n]
      /\ bputint(w, itoah(n)) \in Seq(Nat)
  BY <1>1, <1>5, ItoahUnfold, PutText
<1>. QED BY <1>3, <1>6

-----------------------------------------------------------------------------
(* itoa() *)

(* itoa() of a number below 16: the carry makes two digits from ten on. *)
LEMMA ItoaUnfold ==
  ASSUME NEW n \in 0..15
  PROVE  /\ itoa(n) \in Seq(Nat)
         /\ Len(itoa(n)) = 16
         /\ \A k \in 1..14 : itoa(n)[k] = ZERO
         /\ itoa(n)[15] = IF n > 9 THEN HexDigit(1) ELSE ZERO
         /\ itoa(n)[16] = IF n > 9 THEN HexDigit(n - 10) ELSE HexDigit(n)
<1>. DEFINE carry[k \in 0..DIGITS] ==
              IF k = 0 THEN 0 ELSE IF Nibble(n, k - 1) + carry[k - 1] > 9 THEN 1 ELSE 0
<1>1. itoa(n) = [k \in 1..DIGITS |-> ZERO + Nibble(n, DIGITS - k) + carry[DIGITS - k]
                                        - 10 * carry[DIGITS - k + 1]]
  BY DEF itoa
<1>2. n \in 0..MAX_INT /\ n \in Nat /\ n < 16
  <2>1. 15 <= MAX_INT
    BY SMT DEF MAX_INT
  <2>. QED BY <2>1, MaxInt
<1>3. \A k \in 0..15 : Nibble(n, k) = IF k = 0 THEN n ELSE 0
  <2>1. Shifted(n)[0] = n /\ \A k \in 1..15 : Shifted(n)[k] = 0
    BY <1>2, ShiftedUnfold, ShiftedBounds
  <2>2. n % 16 = n /\ 0 % 16 = 0
    OBVIOUS
  <2>3. \A k \in 0..15 : k = 0 \/ k \in 1..15
    OBVIOUS
  <2>. QED BY <2>1, <2>2, <2>3 DEF Nibble
<1>4. PICK c \in Nat : c = IF n > 9 THEN 1 ELSE 0
  OBVIOUS
<1>5. PICK g : g = [k \in 0..16 |-> IF k = 1 THEN c ELSE 0]
  OBVIOUS
<1>6. g = [k \in 0..DIGITS |-> IF k = 0 THEN 0 ELSE IF Nibble(n, k - 1) + g[k - 1] > 9 THEN 1 ELSE 0]
  <2>1. ASSUME NEW k \in 0..16
        PROVE  g[k] = IF k = 0 THEN 0 ELSE IF Nibble(n, k - 1) + g[k - 1] > 9 THEN 1 ELSE 0
    <3>1. k = 0 \/ k = 1 \/ k \in 2..16
      OBVIOUS
    <3>2. CASE k = 1
      <4>1. k - 1 = 0 /\ 0 \in 0..15 /\ 0 \in 0..16
        BY <3>2
      <4>2. Nibble(n, k - 1) = n /\ g[k - 1] = 0 /\ g[k] = c
        BY <1>3, <1>5, <3>2, <4>1
      <4>. QED BY <1>4, <3>2, <4>2
    <3>3. CASE k \in 2..16
      <4>1. k - 1 \in 0..15 /\ k - 1 # 0 /\ k # 1 /\ k # 0 /\ k - 1 \in 0..16
        BY <3>3
      <4>2. Nibble(n, k - 1) = 0 /\ g[k - 1] \in {0, c} /\ g[k] = 0
        BY <1>3, <1>5, <4>1
      <4>3. PICK v \in Nat : v = g[k - 1] /\ v < 2
        BY <1>4, <4>2
      <4>. QED BY <4>1, <4>2, <4>3
    <3>. QED BY <1>5, <3>1, <3>2, <3>3
  <2>. QED BY <1>5, <2>1, Zenon DEF DIGITS
<1>7. carry = [k \in 0..DIGITS |-> IF k = 0 THEN 0 ELSE IF Nibble(n, k - 1) + carry[k - 1] > 9 THEN 1 ELSE 0]
  <2>1. \E x : x = [k \in 0..DIGITS |-> IF k = 0 THEN 0 ELSE IF Nibble(n, k - 1) + x[k - 1] > 9 THEN 1 ELSE 0]
    BY <1>6, Zenon
  <2>. QED BY <2>1, Zenon
<1>. HIDE DEF carry
<1>8. ASSUME NEW k \in 0..16
      PROVE  carry[k] = IF k = 0 THEN 0 ELSE IF Nibble(n, k - 1) + carry[k - 1] > 9 THEN 1 ELSE 0
  BY <1>7 DEF DIGITS
<1>9. carry[0] = 0
  BY <1>8
<1>10. carry[1] = c
  <2>1. 1 \in 0..16 /\ 1 # 0 /\ 1 - 1 = 0 /\ 0 \in 0..15
    OBVIOUS
  <2>2. Nibble(n, 0) = n
    BY <1>3, <2>1
  <2>3. carry[1] = IF Nibble(n, 0) + carry[0] > 9 THEN 1 ELSE 0
    BY <1>8, <2>1
  <2>. QED BY <1>4, <1>9, <2>2, <2>3
<1>11. \A k \in Nat : k \in 2..16 => carry[k] = 0
  <2>0. ASSUME NEW k \in 2..16, carry[k - 1] = 0 \/ carry[k - 1] = 1 PROVE carry[k] = 0
    <3>1. k \in 0..16 /\ k # 0 /\ k - 1 \in 0..15 /\ k - 1 # 0
      OBVIOUS
    <3>2. Nibble(n, k - 1) = 0
      BY <1>3, <3>1
    <3>3. carry[k] = IF Nibble(n, k - 1) + carry[k - 1] > 9 THEN 1 ELSE 0
      BY <1>8, <3>1
    <3>. QED BY <2>0, <3>2, <3>3
  <2>. DEFINE I == {k \in Nat : k \in 2..16 => carry[k] = 0}
  <2>1. 0 \in I
    OBVIOUS
  <2>2. ASSUME NEW k \in Nat, k \in I PROVE k + 1 \in I
    <3>1. SUFFICES ASSUME k + 1 \in 2..16 PROVE carry[k + 1] = 0
      OBVIOUS
    <3>2. k = 1 \/ k \in 2..16
      BY <3>1
    <3>3. carry[k] = 0 \/ carry[k] = 1
      BY <1>4, <1>10, <2>2, <3>2
    <3>4. (k + 1) - 1 = k
      OBVIOUS
    <3>. QED BY <2>0, <3>1, <3>3, <3>4
  <2>. HIDE DEF I
  <2>3. \A k \in Nat : k \in I
    BY <2>1, <2>2, SetInduction
  <2>. QED BY <2>3 DEF I
<1>12. PICK a : a = itoa(n)
  OBVIOUS
<1>13. \A k \in 1..16 : a[k] = ZERO + Nibble(n, 16 - k) + carry[16 - k] - 10 * carry[16 - k + 1]
  BY <1>1, <1>12 DEF DIGITS
<1>14. DOMAIN a = 1..16 /\ a = [k \in 1..16 |-> a[k]]
  BY <1>1, <1>12 DEF DIGITS
<1>15. \A k \in 1..14 : a[k] = ZERO
  <2>1. SUFFICES ASSUME NEW k \in 1..14 PROVE a[k] = ZERO
    OBVIOUS
  <2>2. k \in 1..16 /\ 16 - k \in 0..15 /\ 16 - k \in 2..16 /\ 16 - k + 1 \in 2..16 /\ 16 - k # 0
        /\ 16 - k \in Nat /\ 16 - k + 1 \in Nat
    OBVIOUS
  <2>3. Nibble(n, 16 - k) = 0 /\ carry[16 - k] = 0 /\ carry[16 - k + 1] = 0
    BY <1>3, <1>11, <2>2
  <2>4. a[k] = ZERO + 0 + 0 - 10 * 0
    BY <1>13, <2>2, <2>3
  <2>. QED BY <2>4 DEF ZERO
<1>16. a[15] = ZERO + c
  <2>1. 15 \in 1..16 /\ 16 - 15 = 1 /\ 1 \in 0..15 /\ 16 - 15 + 1 = 2 /\ 2 \in 2..16 /\ 2 \in Nat /\ 1 # 0
    OBVIOUS
  <2>2. Nibble(n, 16 - 15) = 0 /\ carry[16 - 15] = c /\ carry[16 - 15 + 1] = 0
    BY <1>3, <1>10, <1>11, <2>1
  <2>3. a[15] = ZERO + 0 + c - 10 * 0
    BY <1>13, <2>1, <2>2
  <2>. QED BY <2>3 DEF ZERO
<1>17. a[16] = ZERO + n - 10 * c
  <2>1. 16 \in 1..16 /\ 16 - 16 = 0 /\ 0 \in 0..15 /\ 16 - 16 + 1 = 1
    OBVIOUS
  <2>2. Nibble(n, 16 - 16) = n /\ carry[16 - 16] = 0 /\ carry[16 - 16 + 1] = c
    BY <1>3, <1>9, <1>10, <2>1
  <2>3. a[16] = ZERO + n + 0 - 10 * c
    BY <1>13, <2>1, <2>2
  <2>. QED BY <2>3 DEF ZERO
<1>18. a[15] = IF n > 9 THEN HexDigit(1) ELSE ZERO
  BY <1>4, <1>16 DEF HexDigit, ZERO
<1>19. a[16] = IF n > 9 THEN HexDigit(n - 10) ELSE HexDigit(n)
  BY <1>4, <1>17 DEF HexDigit, ZERO
<1>20. a \in Seq(Nat) /\ Len(a) = 16
  <2>1. \A k \in 1..16 : a[k] \in Nat
    <3>1. \A k \in 1..16 : k \in 1..14 \/ k = 15 \/ k = 16
      OBVIOUS
    <3>2. ZERO \in Nat /\ a[15] \in Nat /\ a[16] \in Nat
      BY <1>4, <1>16, <1>17 DEF ZERO
    <3>. QED BY <1>15, <3>1, <3>2
  <2>2. a \in [1..16 -> Nat] /\ 16 \in Nat
    BY <1>14, <2>1
  <2>. QED BY <2>2, FunctionSeq
<1>. QED BY <1>12, <1>15, <1>18, <1>19, <1>20

(* "%d": the same of itoa() for the numbers below 16, of one digit or two. *)
THEOREM DecIsNumber ==
  ASSUME NEW n \in 0..15, NEW w \in 0..16
  PROVE  bputint(w, itoa(n)) = NumberText(n, 10, w) /\ NumberText(n, 10, w) \in Seq(Nat)
<1>1. n \in Nat
  OBVIOUS
<1>2. 10 \in Nat /\ \A m \in Nat : 10 <= m => m \div 10 \in Nat /\ m \div 10 < m
  OBVIOUS
<1>3. PICK g : /\ DigitsOf(g, n, 10)
               /\ NumberText(n, 10, w) = [k \in 1..(w - Len(g[n])) |-> ZERO] \o g[n]
  BY <1>1, <1>2, NumberTextUnfold
<1>4. \A m \in 0..n : g[m] = IF m < 10 THEN << HexDigit(m) >> ELSE Append(g[m \div 10], HexDigit(m % 10))
  BY <1>3 DEF DigitsOf
<1>5. PICK a \in Seq(Nat) : /\ a = itoa(n) /\ Len(a) = 16
                            /\ \A k \in 1..14 : a[k] = ZERO
                            /\ a[15] = IF n > 9 THEN HexDigit(1) ELSE ZERO
                            /\ a[16] = IF n > 9 THEN HexDigit(n - 10) ELSE HexDigit(n)
  BY ItoaUnfold
<1>6. n \in 0..n /\ 1 \in 0..15
  OBVIOUS
<1>7. CASE n < 10
  <2>1. g[n] = << HexDigit(n) >> /\ HexDigit(n) \in Nat
    BY <1>4, <1>6, <1>7, HexDigits
  <2>2. PICK t \in Seq(Nat) : t = << HexDigit(n) >> /\ Len(t) = 1 /\ t[1] = HexDigit(n)
    BY <2>1, SeqOfOne
  <2>3. a[15] = ZERO /\ a[16] = HexDigit(n)
    BY <1>5, <1>7
  <2>4. Begins(a, 16)
    <3>1. \A j \in 1..(16 - 1) : j \in 1..14 \/ j = 15
      OBVIOUS
    <3>. QED BY <1>5, <2>3, <3>1 DEF Begins
  <2>5. IsText(t, a)
    <3>1. \A j \in 1..(17 - 16) : t[j] = a[16 + j - 1]
      BY <2>2, <2>3
    <3>2. Len(t) = 17 - 16 /\ 16 \in 1..16
      BY <2>2
    <3>. QED BY <2>4, <3>1, <3>2 DEF IsText
  <2>6. bputint(w, a) = [k \in 1..(w - Len(t)) |-> ZERO] \o t /\ bputint(w, a) \in Seq(Nat)
    BY <1>5, <2>5, PutText
  <2>7. t = g[n]
    BY <2>1, <2>2
  <2>. QED BY <1>3, <1>5, <2>6, <2>7
<1>8. CASE ~(n < 10)
  <2>1. n \div 10 = 1 /\ n % 10 = n - 10 /\ 1 \in 0..n /\ 1 < 10 /\ n - 10 \in 0..15 /\ n > 9
    BY <1>8
  <2>2. g[n] = Append(g[1], HexDigit(n - 10)) /\ g[1] = << HexDigit(1) >>
    BY <1>4, <1>6, <1>8, <2>1
  <2>3. HexDigit(1) \in Nat /\ HexDigit(n - 10) \in Nat /\ HexDigit(1) # ZERO
    <3>1. PICK v \in 0..15 : v = 1
      OBVIOUS
    <3>2. PICK u \in 0..15 : u = n - 10
      BY <2>1
    <3>3. HexDigit(v) \in Nat /\ (HexDigit(v) = ZERO <=> v = 0)
      BY HexDigits
    <3>4. HexDigit(u) \in Nat
      BY HexDigits
    <3>. QED BY <3>1, <3>2, <3>3, <3>4
  <2>4. PICK o \in Seq(Nat) : o = << HexDigit(1) >> /\ Len(o) = 1 /\ o[1] = HexDigit(1)
    BY <2>3, SeqOfOne
  <2>5. PICK y \in Nat : y = HexDigit(n - 10)
    BY <2>3
  <2>6. PICK t \in Seq(Nat) : t = Append(o, y) /\ Len(t) = 2 /\ t[1] = HexDigit(1) /\ t[2] = y
    <3>1. Append(o, y) \in Seq(Nat)
      OBVIOUS
    <3>2. 1 \in 1..Len(o) /\ Len(o) + 1 = 2
      BY <2>4
    <3>3. /\ Len(Append(o, y)) = Len(o) + 1 /\ Append(o, y)[Len(o) + 1] = y
          /\ \A k \in 1..Len(o) : Append(o, y)[k] = o[k]
      BY AppendNat
    <3>. QED BY <2>4, <3>1, <3>2, <3>3
  <2>7. a[15] = HexDigit(1) /\ a[16] = y
    BY <1>5, <2>1, <2>5
  <2>8. Begins(a, 15)
    <3>1. \A j \in 1..(15 - 1) : j \in 1..14
      OBVIOUS
    <3>. QED BY <1>5, <2>3, <2>7, <3>1 DEF Begins
  <2>9. IsText(t, a)
    <3>1. \A j \in 1..(17 - 15) : t[j] = a[15 + j - 1]
      <4>1. SUFFICES ASSUME NEW j \in 1..(17 - 15) PROVE t[j] = a[15 + j - 1]
        OBVIOUS
      <4>2. (j = 1 /\ 15 + j - 1 = 15) \/ (j = 2 /\ 15 + j - 1 = 16)
        OBVIOUS
      <4>. QED BY <2>6, <2>7, <4>2
    <3>2. Len(t) = 17 - 15 /\ 15 \in 1..16
      BY <2>6
    <3>. QED BY <2>8, <3>1, <3>2 DEF IsText
  <2>10. t = g[n]
    BY <2>2, <2>4, <2>5, <2>6
  <2>11. bputint(w, a) = [k \in 1..(w - Len(t)) |-> ZERO] \o t /\ bputint(w, a) \in Seq(Nat)
    BY <1>5, <2>9, PutText
  <2>. QED BY <1>3, <1>5, <2>10, <2>11
<1>. QED BY <1>7, <1>8

-----------------------------------------------------------------------------
(* The units of a message: a character, or a conversion                     *)

(* What a turn of the loop prints: a character of a text, or a conversion;  *)
(* and the NUL at the end.                                                  *)
Unit == {u \in Items : u.kind # "text"} \cup {Text(<< c >>) : c \in Characters \cup {NUL}}

(* what the turn adds to the number of characters vfblogf() returns         *)
Count(u) == IF u.kind = "text" THEN IF u.arg[1] \in {PERCENT, BACKSLASH} THEN 0 ELSE 1
            ELSE IF u.kind = "s" THEN Len(u.arg)
            ELSE IF u.kind = "c" THEN 1 ELSE 4 + u.width

EscapeFn == [c \in Nat |-> IF c \in {PERCENT, BACKSLASH} THEN << BACKSLASH, c >> ELSE << c >>]
FormatFn == [u \in Unit |-> FormatOf(u)]
TextFn   == [u \in Unit |-> TextOf(u)]
ArgFn    == [u \in Unit |-> ArgOf(u)]
TallyFn  == [u \in Unit |-> [k \in 1..Count(u) |-> 0]]

(* Characters are numbers. *)
LEMMA CharNat == \A c \in Characters \cup {NUL} : c \in Nat
BY DEF Characters, NUL

(* What a unit is. *)
LEMMA UnitKinds ==
  ASSUME NEW u \in Unit
  PROVE  \/ u.kind = "text" /\ u.width = 0 /\ \E c \in Characters \cup {NUL} : u = Text(<< c >>) /\ u.arg = << c >>
         \/ u.kind = "s" /\ u.width = 0 /\ u.arg \in Seq(Characters) /\ u \in Items
         \/ u.kind = "c" /\ u.width = 0 /\ u.arg \in Characters /\ u \in Items
         \/ u.kind = "x" /\ u.width \in Widths /\ u.arg \in 0..MAX_INT /\ u \in Items
         \/ u.kind = "d" /\ u.width \in Widths /\ u.arg \in 0..15 /\ u \in Items
<1>1. CASE u \in Items /\ u.kind # "text"
  <2>1. \/ u \in [kind : {"text", "s"}, arg : Seq(Characters), width : {0}]
        \/ u \in [kind : {"c"}, arg : Characters, width : {0}]
        \/ u \in [kind : {"x"}, arg : 0..MAX_INT, width : Widths]
        \/ u \in [kind : {"d"}, arg : 0..15, width : Widths]
    BY <1>1 DEF Items
  <2>. QED BY <1>1, <2>1
<1>2. CASE u \in {Text(<< c >>) : c \in Characters \cup {NUL}}
  BY <1>2 DEF Text
<1>. QED BY <1>1, <1>2 DEF Unit

(* An item is text, or a unit by itself. *)
LEMMA ItemKinds ==
  ASSUME NEW it \in Items
  PROVE  \/ it.kind = "text" /\ it.arg \in Seq(Characters)
         \/ it.kind # "text" /\ it \in Unit
<1>1. \/ it \in [kind : {"text", "s"}, arg : Seq(Characters), width : {0}]
      \/ it \in [kind : {"c"}, arg : Characters, width : {0}]
      \/ it \in [kind : {"x"}, arg : 0..MAX_INT, width : Widths]
      \/ it \in [kind : {"d"}, arg : 0..15, width : Widths]
  BY DEF Items
<1>. QED BY <1>1 DEF Unit

(* Characters in a row are numbers in a row. *)
LEMMA CharSeqNat ==
  ASSUME NEW t \in Seq(Characters)
  PROVE  t \in Seq(Nat)
<1>1. \A c \in Characters : c \in Nat
  BY CharNat
<1>2. Characters \subseteq Nat
  BY <1>1
<1>. HIDE DEF Characters
<1>. QED BY <1>2, SeqMonotonic

(* A sequence of two numbers. *)
LEMMA TwoNat ==
  ASSUME NEW a \in Nat, NEW b \in Nat
  PROVE  << a, b >> \in Seq(Nat) /\ Len(<< a, b >>) = 2 /\ << a, b >>[1] = a /\ << a, b >>[2] = b
OBVIOUS

(* A sequence of three numbers. *)
LEMMA ThreeNat ==
  ASSUME NEW a \in Nat, NEW b \in Nat, NEW c \in Nat
  PROVE  << a, b, c >> \in Seq(Nat) /\ Len(<< a, b, c >>) = 3
         /\ << a, b, c >>[1] = a /\ << a, b, c >>[2] = b /\ << a, b, c >>[3] = c
OBVIOUS

(* Escaping a character gives characters. *)
LEMMA EscapeType == EscapeFn \in Fcns(Nat, Seq(Nat))
<1>1. ASSUME NEW c \in Nat
      PROVE  (IF c \in {PERCENT, BACKSLASH} THEN << BACKSLASH, c >> ELSE << c >>) \in Seq(Nat)
  <2>1. PICK b \in Nat : b = BACKSLASH
    BY DEF BACKSLASH
  <2>. QED BY <2>1, SeqOfOne, TwoNat
<1>. QED BY <1>1 DEF EscapeFn, Fcns

(* A text is escaped character by character. *)
LEMMA EscapedIs ==
  ASSUME NEW t \in Seq(Nat)
  PROVE  Escaped(t) = Joined(EscapeFn, t)
<1>1. \A k \in DOMAIN t : t[k] \in Nat
  OBVIOUS
<1>2. \A k \in DOMAIN t : EscapeFn[t[k]] = IF t[k] \in {PERCENT, BACKSLASH} THEN << BACKSLASH, t[k] >> ELSE << t[k] >>
  BY <1>1 DEF EscapeFn
<1>3. [k \in DOMAIN t |-> EscapeFn[t[k]]]
        = [k \in DOMAIN t |-> IF t[k] \in {PERCENT, BACKSLASH} THEN << BACKSLASH, t[k] >> ELSE << t[k] >>]
  BY <1>2
<1>. QED BY <1>3 DEF Escaped, Joined

(* the format of a character *)
LEMMA FormatOfText ==
  ASSUME NEW c \in Characters \cup {NUL}
  PROVE  /\ FormatOf(Text(<< c >>)) = IF c \in {PERCENT, BACKSLASH} THEN << BACKSLASH, c >> ELSE << c >>
         /\ FormatOf(Text(<< c >>)) \in Seq(Nat)
         /\ TextOf(Text(<< c >>)) = << c >>
         /\ ArgOf(Text(<< c >>)) = << >>
<1>0. c \in Nat
  BY CharNat
<1>1. Text(<< c >>).kind = "text" /\ Text(<< c >>).arg = << c >>
  BY DEF Text
<1>2. FormatOf(Text(<< c >>)) = Escaped(<< c >>)
  BY <1>1 DEF FormatOf
<1>3. Escaped(<< c >>) = Joined(EscapeFn, << c >>)
  <2>1. << c >> \in Seq(Nat)
    BY <1>0, SeqOfOne
  <2>. QED BY <2>1, EscapedIs
<1>4. Joined(EscapeFn, << c >>) = EscapeFn[c]
  BY <1>0, EscapeType, JoinedOne
<1>5. EscapeFn[c] = IF c \in {PERCENT, BACKSLASH} THEN << BACKSLASH, c >> ELSE << c >>
  BY <1>0 DEF EscapeFn
<1>6. EscapeFn[c] \in Seq(Nat)
  BY <1>0, EscapeType DEF Fcns
<1>7. TextOf(Text(<< c >>)) = << c >> /\ ArgOf(Text(<< c >>)) = << >>
  BY <1>1 DEF TextOf, ArgOf
<1>. QED BY <1>2, <1>3, <1>4, <1>5, <1>6, <1>7

(* The width in the format: 0 and one digit or two. *)
LEMMA WidthTextType ==
  ASSUME NEW w \in Widths
  PROVE  /\ w = 0 => WidthText(w) = << >>
         /\ w # 0 /\ w < 10 => WidthText(w) = << ZERO, ZERO + w >>
         /\ w >= 10 => WidthText(w) = << ZERO, ZERO + 1, ZERO + (w - 10) >>
         /\ WidthText(w) \in Seq(Nat)
<1>1. w \in 0..16
  BY DEF Widths
<1>2. w >= 10 => w \div 10 = 1 /\ w % 10 = w - 10
  BY <1>1
<1>3. PICK z \in Nat : z = ZERO
  BY DEF ZERO
<1>4. CASE w = 0
  BY <1>4 DEF WidthText
<1>5. CASE w # 0 /\ w < 10
  <2>1. WidthText(w) = << ZERO, ZERO + w >>
    BY <1>5 DEF WidthText
  <2>2. z + w \in Nat
    BY <1>1
  <2>3. << z, z + w >> \in Seq(Nat)
    BY <2>2, TwoNat
  <2>. QED BY <1>1, <1>3, <1>5, <2>1, <2>3
<1>6. CASE w >= 10
  <2>1. WidthText(w) = << ZERO, ZERO + 1, ZERO + (w - 10) >>
    BY <1>1, <1>2, <1>6 DEF WidthText
  <2>2. z + 1 \in Nat /\ z + (w - 10) \in Nat
    BY <1>1, <1>6
  <2>3. << z, z + 1, z + (w - 10) >> \in Seq(Nat)
    BY <2>2, ThreeNat
  <2>. QED BY <1>1, <1>3, <1>6, <2>1, <2>3
<1>. QED BY <1>1, <1>4, <1>5, <1>6

(* The letter of a conversion comes after the digits. *)
LEMMA ConversionType ==
  ASSUME NEW u \in Unit, u.kind # "text"
  PROVE  CONVERSION[u.kind] \in Nat /\ CONVERSION[u.kind] > NINE /\ CONVERSION[u.kind] # ZERO
         /\ u.kind \in {"c", "d", "s", "x"} /\ u.width \in Widths /\ ArgOf(u) = << u >> /\ u \in Items
<1>1. u.kind \in {"c", "d", "s", "x"} /\ u.width \in Widths /\ u \in Items
  BY UnitKinds DEF Widths
<1>2. CONVERSION["c"] = 99 /\ CONVERSION["d"] = 100 /\ CONVERSION["s"] = 115 /\ CONVERSION["x"] = 120
  BY DEF CONVERSION
<1>3. CONVERSION[u.kind] \in {99, 100, 115, 120}
  BY <1>1, <1>2
<1>. QED BY <1>1, <1>3 DEF NINE, ZERO, ArgOf

(* Units have a format. *)
LEMMA FormatType == FormatFn \in Fcns(Unit, Seq(Nat))
<1>1. ASSUME NEW u \in Unit PROVE FormatOf(u) \in Seq(Nat)
  <2>1. CASE u.kind = "text"
    <3>1. PICK c \in Characters \cup {NUL} : u = Text(<< c >>)
      BY <2>1, UnitKinds
    <3>. QED BY <3>1, FormatOfText
  <2>2. CASE u.kind # "text"
    <3>1. FormatOf(u) = << PERCENT >> \o WidthText(u.width) \o << CONVERSION[u.kind] >>
      BY <2>2 DEF FormatOf
    <3>2. PICK c \in Nat : c = CONVERSION[u.kind]
      BY <2>2, ConversionType
    <3>3. PICK p \in Nat : p = PERCENT
      BY DEF PERCENT
    <3>4. PICK x \in Seq(Nat) : x = WidthText(u.width)
      BY <2>2, ConversionType, WidthTextType
    <3>5. << p >> \in Seq(Nat) /\ << c >> \in Seq(Nat)
      BY SeqOfOne
    <3>6. << p >> \o x \in Seq(Nat)
      BY <3>5
    <3>7. << p >> \o x \o << c >> \in Seq(Nat)
      BY <3>5, <3>6
    <3>. QED BY <3>1, <3>2, <3>3, <3>4, <3>7
  <2>. QED BY <2>1, <2>2
<1>. QED BY <1>1 DEF FormatFn, Fcns

(* Units have a text. *)
LEMMA TextType == TextFn \in Fcns(Unit, Seq(Nat))
<1>1. ASSUME NEW u \in Unit PROVE TextOf(u) \in Seq(Nat)
  <2>1. CASE u.kind = "text"
    <3>1. PICK c \in Characters \cup {NUL} : u.arg = << c >> /\ c \in Nat
      BY <2>1, UnitKinds, CharNat
    <3>2. << c >> \in Seq(Nat)
      BY <3>1, SeqOfOne
    <3>. QED BY <2>1, <3>1, <3>2 DEF TextOf
  <2>2. CASE u.kind = "s"
    <3>1. u.arg \in Seq(Nat)
      BY <2>2, UnitKinds, CharSeqNat
    <3>. QED BY <2>2, <3>1 DEF TextOf
  <2>3. CASE u.kind = "c"
    <3>1. u.arg \in Nat
      BY <2>3, UnitKinds, CharNat
    <3>2. << u.arg >> \in Seq(Nat)
      BY <3>1, SeqOfOne
    <3>. QED BY <2>3, <3>2 DEF TextOf
  <2>4. CASE u.kind = "x"
    <3>1. u.width \in 0..16 /\ u.arg \in 0..MAX_INT
      BY <2>4, UnitKinds DEF Widths
    <3>2. NumberText(u.arg, 16, u.width) \in Seq(Nat)
      BY <3>1, HexIsNumber
    <3>. QED BY <2>4, <3>2 DEF TextOf
  <2>5. CASE u.kind = "d"
    <3>1. u.width \in 0..16 /\ u.arg \in 0..15
      BY <2>5, UnitKinds DEF Widths
    <3>2. NumberText(u.arg, 10, u.width) \in Seq(Nat)
      BY <3>1, DecIsNumber
    <3>. QED BY <2>5, <3>2 DEF TextOf
  <2>. QED BY <2>1, <2>2, <2>3, <2>4, <2>5, UnitKinds
<1>. QED BY <1>1 DEF TextFn, Fcns

(* Units have arguments. *)
LEMMA ArgType == ArgFn \in Fcns(Unit, Seq(Items))
<1>1. ASSUME NEW u \in Unit PROVE ArgOf(u) \in Seq(Items)
  <2>1. CASE u.kind = "text"
    BY <2>1 DEF ArgOf
  <2>2. CASE u.kind # "text"
    <3>1. u \in Items /\ ArgOf(u) = << u >>
      BY <2>2, ConversionType
    <3>. HIDE DEF Items
    <3>. QED BY <3>1, SeqOfOne
  <2>. QED BY <2>1, <2>2
<1>. QED BY <1>1 DEF ArgFn, Fcns

(* Units have a count. *)
LEMMA TallyType ==
  /\ TallyFn \in Fcns(Unit, Seq({0}))
  /\ \A u \in Unit : Count(u) \in Nat /\ Len(TallyFn[u]) = Count(u)
<1>1. ASSUME NEW u \in Unit PROVE Count(u) \in Nat
  <2>1. u.kind = "s" => Len(u.arg) \in Nat
    BY UnitKinds
  <2>2. u.width \in Nat
    BY UnitKinds DEF Widths
  <2>. QED BY <2>1, <2>2 DEF Count
<1>2. ASSUME NEW u \in Unit
      PROVE  [k \in 1..Count(u) |-> 0] \in Seq({0}) /\ Len([k \in 1..Count(u) |-> 0]) = Count(u)
  <2>1. PICK n \in Nat : n = Count(u)
    BY <1>1
  <2>2. PICK g : g = [k \in 1..n |-> 0]
    OBVIOUS
  <2>3. g \in [1..n -> {0}]
    BY <2>2
  <2>4. g \in Seq({0}) /\ Len(g) = n
    BY <2>3, FunctionSeq
  <2>. QED BY <2>1, <2>2, <2>4
<1>3. TallyFn \in Fcns(Unit, Seq({0}))
  BY <1>2 DEF TallyFn, Fcns
<1>4. \A u \in Unit : TallyFn[u] = [k \in 1..Count(u) |-> 0]
  BY DEF TallyFn
<1>. QED BY <1>1, <1>2, <1>3, <1>4

-----------------------------------------------------------------------------
(* The format, the arguments and the text of a message, unit by unit        *)

(* the units of an item, and those of a message                             *)
UnitsOf(it) == IF it.kind = "text" THEN [k \in DOMAIN it.arg |-> Text(<< it.arg[k] >>)] ELSE << it >>
UnitsFn == [it \in Items |-> UnitsOf(it)]
Units(m) == Joined(UnitsFn, m.items) \o << Text(<< NUL >>) >>

(* Nothing joined any number of times is nothing. *)
LEMMA FlattenEmpties ==
  ASSUME NEW S, NEW s \in Seq(S)
  PROVE  FlattenSeq([k \in DOMAIN s |-> << >>]) = << >>
<1>0. PICK f : f = [x \in S |-> << >>]
  OBVIOUS
<1>. DEFINE I == {n \in Nat : \A t \in Seq(S) : Len(t) = n => Joined(f, t) = << >>}
<1>1. f \in Fcns(S, Seq(Nat))
  <2>1. << >> \in Seq(Nat)
    OBVIOUS
  <2>. QED BY <1>0, <2>1 DEF Fcns
<1>2. 0 \in I
  <2>1. SUFFICES ASSUME NEW t \in Seq(S), Len(t) = 0 PROVE Joined(f, t) = << >>
    OBVIOUS
  <2>2. t = << >>
    BY <2>1, EmptySeq
  <2>. QED BY <2>2, JoinedEmpty
<1>3. ASSUME NEW n \in Nat, n \in I PROVE n + 1 \in I
  <2>1. SUFFICES ASSUME NEW t \in Seq(S), Len(t) = n + 1 PROVE Joined(f, t) = << >>
    OBVIOUS
  <2>2. t # << >>
    BY <2>1
  <2>3. PICK u \in Seq(S), e \in S : t = Append(u, e)
    BY <2>2, SequenceEmptyOrAppend
  <2>4. Len(u) = n
    BY <2>1, <2>3
  <2>5. Joined(f, u) = << >>
    BY <1>3, <2>4
  <2>6. f[e] = << >>
    BY <1>0
  <2>7. Joined(f, Append(u, e)) = Joined(f, u) \o f[e]
    BY <1>1, JoinedAppend
  <2>8. << >> \o << >> = << >>
    OBVIOUS
  <2>. QED BY <2>3, <2>5, <2>6, <2>7, <2>8
<1>. HIDE DEF I
<1>4. \A n \in Nat : n \in I
  BY <1>2, <1>3, SetInduction
<1>5. Joined(f, s) = << >>
  BY <1>4 DEF I
<1>6. [k \in DOMAIN s |-> f[s[k]]] = [k \in DOMAIN s |-> << >>]
  BY <1>0
<1>. QED BY <1>5, <1>6 DEF Joined

(* The NUL at the end of the format is a unit. *)
LEMMA NulUnit == Text(<< NUL >>) \in Unit
BY DEF Unit

(* An item is made of units, a text of one for each character. *)
LEMMA UnitsType ==
  /\ UnitsFn \in Fcns(Items, Seq(Unit))
  /\ \A it \in Items : it.kind = "text" =>
       /\ DOMAIN UnitsOf(it) = DOMAIN it.arg
       /\ \A k \in DOMAIN it.arg : it.arg[k] \in Characters /\ UnitsOf(it)[k] = Text(<< it.arg[k] >>)
<1>1. ASSUME NEW it \in Items, it.kind = "text"
      PROVE  /\ UnitsOf(it) \in Seq(Unit)
             /\ DOMAIN UnitsOf(it) = DOMAIN it.arg
             /\ \A k \in DOMAIN it.arg : it.arg[k] \in Characters /\ UnitsOf(it)[k] = Text(<< it.arg[k] >>)
  <2>1. it.arg \in Seq(Characters)
    BY <1>1, ItemKinds
  <2>. HIDE DEF Characters
  <2>2. PICK a \in Seq(Characters) : a = it.arg
    BY <2>1
  <2>3. UnitsOf(it) = [k \in DOMAIN a |-> Text(<< a[k] >>)]
    BY <1>1, <2>2 DEF UnitsOf
  <2>4. \A k \in DOMAIN a : a[k] \in Characters
    OBVIOUS
  <2>5. \A k \in DOMAIN a : Text(<< a[k] >>) \in Unit
    BY <2>4 DEF Unit
  <2>6. PICK g : g = [k \in DOMAIN a |-> Text(<< a[k] >>)]
    OBVIOUS
  <2>7. DOMAIN a = 1..Len(a) /\ Len(a) \in Nat
    OBVIOUS
  <2>8. g \in [1..Len(a) -> Unit]
    BY <2>5, <2>6, <2>7
  <2>9. g \in Seq(Unit)
    BY <2>7, <2>8, FunctionSeq
  <2>. QED BY <2>2, <2>3, <2>4, <2>6, <2>9
<1>2. ASSUME NEW it \in Items, it.kind # "text"
      PROVE  UnitsOf(it) \in Seq(Unit)
  <2>1. it \in Unit
    BY <1>2, ItemKinds
  <2>2. UnitsOf(it) = << it >>
    BY <1>2 DEF UnitsOf
  <2>. QED BY <2>1, <2>2, SeqOfOne
<1>3. \A it \in Items : UnitsOf(it) \in Seq(Unit)
  BY <1>1, <1>2
<1>4. UnitsFn \in Fcns(Items, Seq(Unit))
  BY <1>3 DEF UnitsFn, Fcns
<1>. QED BY <1>1, <1>4

(* What is joined over the units of the items is joined over the items. *)
LEMMA UnitsJoin ==
  ASSUME NEW S, NEW f \in Fcns(Unit, Seq(S)), NEW H,
         \A it \in Items : Joined(f, UnitsOf(it)) = H[it],
         NEW items \in Seq(Items)
  PROVE  Joined(f, Joined(UnitsFn, items)) = Joined(H, items)
<1>1. PICK ss : ss = [k \in DOMAIN items |-> UnitsFn[items[k]]]
  OBVIOUS
<1>2. ss \in Seq(Seq(Unit))
  BY <1>1, UnitsType, MapSeq
<1>3. Joined(f, FlattenSeq(ss)) = FlattenSeq([k \in DOMAIN ss |-> Joined(f, ss[k])])
  BY <1>2, JoinedFlatten
<1>4. Joined(UnitsFn, items) = FlattenSeq(ss)
  BY <1>1 DEF Joined
<1>5. \A k \in DOMAIN items : Joined(f, ss[k]) = H[items[k]]
  <2>1. SUFFICES ASSUME NEW k \in DOMAIN items PROVE Joined(f, ss[k]) = H[items[k]]
    OBVIOUS
  <2>2. items[k] \in Items
    OBVIOUS
  <2>3. ss[k] = UnitsOf(items[k])
    BY <1>1, <2>2 DEF UnitsFn
  <2>. QED BY <2>2, <2>3
<1>6. [k \in DOMAIN ss |-> Joined(f, ss[k])] = [k \in DOMAIN items |-> H[items[k]]]
  <2>1. DOMAIN ss = DOMAIN items
    BY <1>1
  <2>. QED BY <1>5, <2>1
<1>. QED BY <1>3, <1>4, <1>6 DEF Joined

(* The format of an item is that of its units. *)
LEMMA ItemFormat ==
  ASSUME NEW it \in Items
  PROVE  Joined(FormatFn, UnitsOf(it)) = FormatOf(it)
<1>1. CASE it.kind = "text"
  <2>1. PICK a \in Seq(Nat) : a = it.arg
    BY <1>1, ItemKinds, CharSeqNat
  <2>2. DOMAIN UnitsOf(it) = DOMAIN a /\ \A k \in DOMAIN a : a[k] \in Characters /\ UnitsOf(it)[k] = Text(<< a[k] >>)
    BY <1>1, <2>1, UnitsType
  <2>3. \A k \in DOMAIN a : FormatFn[UnitsOf(it)[k]] = EscapeFn[a[k]]
    <3>1. SUFFICES ASSUME NEW k \in DOMAIN a PROVE FormatFn[UnitsOf(it)[k]] = EscapeFn[a[k]]
      OBVIOUS
    <3>2. PICK c \in Characters \cup {NUL} : c = a[k]
      BY <2>2
    <3>3. c \in Nat /\ Text(<< c >>) \in Unit
      BY CharNat DEF Unit
    <3>4. FormatFn[Text(<< c >>)] = FormatOf(Text(<< c >>))
      BY <3>3 DEF FormatFn
    <3>5. EscapeFn[c] = IF c \in {PERCENT, BACKSLASH} THEN << BACKSLASH, c >> ELSE << c >>
      BY <3>3 DEF EscapeFn
    <3>. QED BY <2>2, <3>2, <3>4, <3>5, FormatOfText
  <2>4. [k \in DOMAIN UnitsOf(it) |-> FormatFn[UnitsOf(it)[k]]] = [k \in DOMAIN a |-> EscapeFn[a[k]]]
    BY <2>2, <2>3
  <2>5. Escaped(a) = Joined(EscapeFn, a)
    BY EscapedIs
  <2>. QED BY <1>1, <2>1, <2>4, <2>5 DEF Joined, FormatOf
<1>2. CASE it.kind # "text"
  <2>1. it \in Unit /\ UnitsOf(it) = << it >>
    BY <1>2, ItemKinds DEF UnitsOf
  <2>2. Joined(FormatFn, << it >>) = FormatFn[it]
    BY <2>1, FormatType, JoinedOne
  <2>. QED BY <2>1, <2>2 DEF FormatFn
<1>. QED BY <1>1, <1>2

(* The text of an item is that of its units. *)
LEMMA ItemText ==
  ASSUME NEW it \in Items
  PROVE  Joined(TextFn, UnitsOf(it)) = TextOf(it)
<1>1. CASE it.kind = "text"
  <2>1. PICK a \in Seq(Nat) : a = it.arg
    BY <1>1, ItemKinds, CharSeqNat
  <2>2. DOMAIN UnitsOf(it) = DOMAIN a /\ \A k \in DOMAIN a : a[k] \in Characters /\ UnitsOf(it)[k] = Text(<< a[k] >>)
    BY <1>1, <2>1, UnitsType
  <2>3. \A k \in DOMAIN a : TextFn[UnitsOf(it)[k]] = << a[k] >>
    <3>1. SUFFICES ASSUME NEW k \in DOMAIN a PROVE TextFn[UnitsOf(it)[k]] = << a[k] >>
      OBVIOUS
    <3>2. PICK c \in Characters \cup {NUL} : c = a[k]
      BY <2>2
    <3>3. Text(<< c >>) \in Unit
      BY DEF Unit
    <3>4. TextFn[Text(<< c >>)] = TextOf(Text(<< c >>))
      BY <3>3 DEF TextFn
    <3>. QED BY <2>2, <3>2, <3>4, FormatOfText
  <2>4. [k \in DOMAIN UnitsOf(it) |-> TextFn[UnitsOf(it)[k]]] = [k \in DOMAIN a |-> << a[k] >>]
    BY <2>2, <2>3
  <2>5. FlattenSeq([k \in DOMAIN a |-> << a[k] >>]) = a
    BY FlattenSingles
  <2>. QED BY <1>1, <2>1, <2>4, <2>5 DEF Joined, TextOf
<1>2. CASE it.kind # "text"
  <2>1. it \in Unit /\ UnitsOf(it) = << it >>
    BY <1>2, ItemKinds DEF UnitsOf
  <2>2. Joined(TextFn, << it >>) = TextFn[it]
    BY <2>1, TextType, JoinedOne
  <2>. QED BY <2>1, <2>2 DEF TextFn
<1>. QED BY <1>1, <1>2

(* The arguments of an item are those of its units. *)
LEMMA ItemArg ==
  ASSUME NEW it \in Items
  PROVE  Joined(ArgFn, UnitsOf(it)) = ArgOf(it)
<1>1. CASE it.kind = "text"
  <2>1. PICK a \in Seq(Nat) : a = it.arg
    BY <1>1, ItemKinds, CharSeqNat
  <2>2. DOMAIN UnitsOf(it) = DOMAIN a /\ \A k \in DOMAIN a : a[k] \in Characters /\ UnitsOf(it)[k] = Text(<< a[k] >>)
    BY <1>1, <2>1, UnitsType
  <2>3. \A k \in DOMAIN a : ArgFn[UnitsOf(it)[k]] = << >>
    <3>1. SUFFICES ASSUME NEW k \in DOMAIN a PROVE ArgFn[UnitsOf(it)[k]] = << >>
      OBVIOUS
    <3>2. PICK c \in Characters \cup {NUL} : c = a[k]
      BY <2>2
    <3>3. Text(<< c >>) \in Unit
      BY DEF Unit
    <3>4. ArgFn[Text(<< c >>)] = ArgOf(Text(<< c >>))
      BY <3>3 DEF ArgFn
    <3>. QED BY <2>2, <3>2, <3>4, FormatOfText
  <2>4. [k \in DOMAIN UnitsOf(it) |-> ArgFn[UnitsOf(it)[k]]] = [k \in DOMAIN a |-> << >>]
    BY <2>2, <2>3
  <2>5. FlattenSeq([k \in DOMAIN a |-> << >>]) = << >>
    BY FlattenEmpties
  <2>. QED BY <1>1, <2>4, <2>5 DEF Joined, ArgOf
<1>2. CASE it.kind # "text"
  <2>1. it \in Unit /\ UnitsOf(it) = << it >>
    BY <1>2, ItemKinds DEF UnitsOf
  <2>2. Joined(ArgFn, << it >>) = ArgFn[it]
    BY <2>1, ArgType, JoinedOne
  <2>. QED BY <2>1, <2>2 DEF ArgFn
<1>. QED BY <1>1, <1>2

(* What a message is. *)
LEMMA MessageType ==
  ASSUME NEW m \in Messages
  PROVE  /\ m.items \in Seq(Items)
         /\ m.register \in BOOLEAN
         /\ m.register => IsRegister(m.items)
         /\ Joined(UnitsFn, m.items) \in Seq(Unit)
         /\ << Text(<< NUL >>) >> \in Seq(Unit)
         /\ Units(m) \in Seq(Unit)
<1>1. m.items \in Seq(Items) /\ m.register \in BOOLEAN /\ (m.register => IsRegister(m.items))
  BY DEF Messages
<1>2. Joined(UnitsFn, m.items) \in Seq(Unit)
  <2>1. << >> \in Seq(Items)
    OBVIOUS
  <2>. QED BY <1>1, <2>1, UnitsType, JoinedConcat
<1>3. << Text(<< NUL >>) >> \in Seq(Unit)
  BY NulUnit, SeqOfOne
<1>. QED BY <1>1, <1>2, <1>3 DEF Units

(* what is joined over the units of a message                               *)
LEMMA UnitsSplit ==
  ASSUME NEW S, NEW f \in Fcns(Unit, Seq(S)), NEW m \in Messages
  PROVE  Joined(f, Units(m)) = Joined(f, Joined(UnitsFn, m.items)) \o f[Text(<< NUL >>)]
<1>1. PICK b \in Seq(Unit) : b = Joined(UnitsFn, m.items)
  BY MessageType
<1>2. PICK e \in Seq(Unit) : e = << Text(<< NUL >>) >>
  BY MessageType
<1>3. Joined(f, b \o e) = Joined(f, b) \o Joined(f, e)
  BY JoinedConcat
<1>4. Joined(f, << Text(<< NUL >>) >>) = f[Text(<< NUL >>)]
  BY NulUnit, JoinedOne
<1>. QED BY <1>1, <1>2, <1>3, <1>4 DEF Units

(* The format string vfblogf() gets is made of the formats of the units. *)
LEMMA MessageFormat ==
  ASSUME NEW m \in Messages
  PROVE  FlattenSeq([k \in DOMAIN m.items |-> FormatOf(m.items[k])]) \o << NUL >> = Joined(FormatFn, Units(m))
<1>1. PICK H : H = [it \in Items |-> FormatOf(it)]
  OBVIOUS
<1>2. \A it \in Items : Joined(FormatFn, UnitsOf(it)) = H[it]
  BY <1>1, ItemFormat
<1>3. Joined(FormatFn, Joined(UnitsFn, m.items)) = Joined(H, m.items)
  BY <1>2, FormatType, MessageType, UnitsJoin
<1>4. [k \in DOMAIN m.items |-> H[m.items[k]]] = [k \in DOMAIN m.items |-> FormatOf(m.items[k])]
  <2>1. \A k \in DOMAIN m.items : m.items[k] \in Items
    BY MessageType
  <2>. QED BY <1>1, <2>1
<1>5. FormatFn[Text(<< NUL >>)] = << NUL >>
  <2>1. FormatFn[Text(<< NUL >>)] = FormatOf(Text(<< NUL >>))
    BY NulUnit DEF FormatFn
  <2>2. NUL \notin {PERCENT, BACKSLASH}
    BY DEF NUL, PERCENT, BACKSLASH
  <2>. QED BY <2>1, <2>2, FormatOfText
<1>6. Joined(FormatFn, Units(m)) = Joined(FormatFn, Joined(UnitsFn, m.items)) \o FormatFn[Text(<< NUL >>)]
  BY FormatType, UnitsSplit
<1>. QED BY <1>3, <1>4, <1>5, <1>6 DEF Joined

(* And its arguments of those of the units. *)
LEMMA MessageArgs ==
  ASSUME NEW m \in Messages
  PROVE  FlattenSeq([k \in DOMAIN m.items |-> ArgOf(m.items[k])]) = Joined(ArgFn, Units(m))
<1>1. PICK H : H = [it \in Items |-> ArgOf(it)]
  OBVIOUS
<1>2. \A it \in Items : Joined(ArgFn, UnitsOf(it)) = H[it]
  BY <1>1, ItemArg
<1>3. Joined(ArgFn, Joined(UnitsFn, m.items)) = Joined(H, m.items)
  BY <1>2, ArgType, MessageType, UnitsJoin
<1>4. [k \in DOMAIN m.items |-> H[m.items[k]]] = [k \in DOMAIN m.items |-> ArgOf(m.items[k])]
  <2>1. \A k \in DOMAIN m.items : m.items[k] \in Items
    BY MessageType
  <2>. QED BY <1>1, <2>1
<1>5. ArgFn[Text(<< NUL >>)] = << >>
  BY NulUnit, FormatOfText DEF ArgFn
<1>6. Joined(ArgFn, Units(m)) = Joined(ArgFn, Joined(UnitsFn, m.items)) \o ArgFn[Text(<< NUL >>)]
  BY ArgType, UnitsSplit
<1>7. PICK a \in Seq(Items) : a = Joined(ArgFn, Joined(UnitsFn, m.items))
  <2>1. << >> \in Seq(Unit)
    OBVIOUS
  <2>. QED BY <2>1, ArgType, MessageType, JoinedConcat
<1>8. a \o << >> = a
  OBVIOUS
<1>. QED BY <1>3, <1>4, <1>5, <1>6, <1>7, <1>8 DEF Joined

(* The text of a message is that of its units, and a space after a register *)
(* with a short name.                                                       *)
LEMMA MessageTextIs ==
  ASSUME NEW m \in Messages
  PROVE  MessageText(m) = Joined(TextFn, Units(m))
                            \o (IF m.register /\ Len(m.items[1].arg) = 2 THEN << SPACE >> ELSE << >>)
<1>1. PICK H : H = [it \in Items |-> TextOf(it)]
  OBVIOUS
<1>2. \A it \in Items : Joined(TextFn, UnitsOf(it)) = H[it]
  BY <1>1, ItemText
<1>3. Joined(TextFn, Joined(UnitsFn, m.items)) = Joined(H, m.items)
  BY <1>2, TextType, MessageType, UnitsJoin
<1>4. [k \in DOMAIN m.items |-> H[m.items[k]]] = [k \in DOMAIN m.items |-> TextOf(m.items[k])]
  <2>1. \A k \in DOMAIN m.items : m.items[k] \in Items
    BY MessageType
  <2>. QED BY <1>1, <2>1
<1>5. TextFn[Text(<< NUL >>)] = << NUL >>
  BY NulUnit, FormatOfText DEF TextFn
<1>6. Joined(TextFn, Units(m)) = Joined(TextFn, Joined(UnitsFn, m.items)) \o TextFn[Text(<< NUL >>)]
  BY TextType, UnitsSplit
<1>7. FlattenSeq([k \in DOMAIN m.items |-> TextOf(m.items[k])]) \o << NUL >> = Joined(TextFn, Units(m))
  BY <1>3, <1>4, <1>5, <1>6 DEF Joined
<1>. QED BY <1>7 DEF MessageText

(* What vfblogf() counts of a register tells the length of its name:        *)
(* dump_print_register() compares with 25.                                  *)
LEMMA RegisterTally ==
  ASSUME NEW m \in Messages, m.register
  PROVE  /\ Len(m.items[1].arg) \in {2, 3}
         /\ Len(Joined(TallyFn, Units(m))) = Len(m.items[1].arg) + 23
<1>0. /\ Len(m.items) = 4
      /\ m.items[1].kind = "s" /\ Len(m.items[1].arg) \in {2, 3}
      /\ m.items[2] = Text(<< 61 >>)
      /\ m.items[3].kind = "x" /\ m.items[3].width = 16
      /\ m.items[4] = Text(<< SPACE >>)
  BY MessageType DEF IsRegister
<1>1. PICK s \in Seq(Items) : s = m.items
  BY MessageType
<1>2. \A k \in DOMAIN s : k \in {1, 2, 3, 4}
  BY <1>0, <1>1
<1>3. s[1] \in Items /\ s[2] \in Items /\ s[3] \in Items /\ s[4] \in Items
  <2>1. 1 \in DOMAIN s /\ 2 \in DOMAIN s /\ 3 \in DOMAIN s /\ 4 \in DOMAIN s
    BY <1>0, <1>1
  <2>. HIDE DEF Items
  <2>. QED BY <2>1
<1>4. s[1] \in Unit /\ s[3] \in Unit
  BY <1>0, <1>1, <1>3, ItemKinds
<1>5. 61 \in Characters \cup {NUL} /\ SPACE \in Characters \cup {NUL}
  BY DEF Characters, SPACE
<1>6. s[2] \in Unit /\ s[4] \in Unit
  BY <1>0, <1>1, <1>5 DEF Unit
<1>7. \A k \in DOMAIN s : UnitsFn[s[k]] = << s[k] >>
  <2>1. UnitsOf(s[1]) = << s[1] >> /\ UnitsOf(s[3]) = << s[3] >>
    BY <1>0, <1>1 DEF UnitsOf
  <2>2. ASSUME NEW c \in Nat PROVE UnitsOf(Text(<< c >>)) = << Text(<< c >>) >>
    <3>1. UnitsOf(Text(<< c >>)) = [k \in DOMAIN << c >> |-> Text(<< << c >>[k] >>)]
      BY DEF UnitsOf, Text
    <3>2. DOMAIN << c >> = 1..1 /\ << c >>[1] = c
      OBVIOUS
    <3>3. PICK v : v = Text(<< c >>)
      OBVIOUS
    <3>4. [k \in DOMAIN << c >> |-> Text(<< << c >>[k] >>)] = [k \in 1..1 |-> v]
      BY <3>2, <3>3
    <3>5. [k \in 1..1 |-> v] = << v >>
      <4>1. PICK g : g = [k \in 1..1 |-> v]
        OBVIOUS
      <4>2. g \in [1..1 -> {v}]
        BY <4>1
      <4>3. g \in Seq({v}) /\ Len(g) = 1 /\ g[1] = v
        BY <4>1, <4>2, FunctionSeq
      <4>4. << v >> \in Seq({v}) /\ Len(<< v >>) = 1 /\ << v >>[1] = v
        BY SeqOfOne
      <4>5. \A k \in 1..Len(g) : g[k] = << v >>[k]
        BY <4>3, <4>4
      <4>. QED BY <4>1, <4>3, <4>4, <4>5, SeqEqual
    <3>. QED BY <3>1, <3>3, <3>4, <3>5
  <2>3. 61 \in Nat /\ SPACE \in Nat
    BY DEF SPACE
  <2>4. UnitsOf(s[2]) = << s[2] >> /\ UnitsOf(s[4]) = << s[4] >>
    BY <1>0, <1>1, <2>2, <2>3
  <2>5. \A k \in {1, 2, 3, 4} : UnitsOf(s[k]) = << s[k] >>
    BY <2>1, <2>4
  <2>6. \A k \in {1, 2, 3, 4} : UnitsFn[s[k]] = UnitsOf(s[k])
    <3>1. \A k \in {1, 2, 3, 4} : s[k] \in Items
      BY <1>3
    <3>. QED BY <3>1 DEF UnitsFn
  <2>. QED BY <1>2, <2>5, <2>6
<1>8. Joined(UnitsFn, s) = s
  <2>1. [k \in DOMAIN s |-> UnitsFn[s[k]]] = [k \in DOMAIN s |-> << s[k] >>]
    BY <1>7
  <2>2. FlattenSeq([k \in DOMAIN s |-> << s[k] >>]) = s
    BY FlattenSingles
  <2>. QED BY <2>1, <2>2 DEF Joined
<1>9. PICK n : n = Text(<< NUL >>) /\ n \in Unit
  BY NulUnit
<1>10. s \in Seq(Unit)
  BY <1>1, <1>8, MessageType
<1>11. PICK a \in Unit, b \in Unit, c \in Unit, d \in Unit :
         a = s[1] /\ b = s[2] /\ c = s[3] /\ d = s[4]
  BY <1>4, <1>6
<1>12. s = Append(Append(Append(<< a >>, b), c), d)
  <2>1. << a >> \in Seq(Unit) /\ Len(<< a >>) = 1 /\ << a >>[1] = a
    BY SeqOfOne
  <2>2. PICK o \in Seq(Unit) : o = << a >> /\ Len(o) = 1 /\ o[1] = a
    BY <2>1
  <2>3. PICK p \in Seq(Unit) : p = Append(o, b) /\ Len(p) = 2 /\ p[1] = a /\ p[2] = b
    <3>1. /\ Append(o, b) \in Seq(Unit) /\ Len(Append(o, b)) = Len(o) + 1
          /\ \A k \in 1..Len(o) : Append(o, b)[k] = o[k]
          /\ Append(o, b)[Len(o) + 1] = b
      BY AppendOne
    <3>2. PICK z : z = Append(o, b)
      OBVIOUS
    <3>3. Len(o) = 1 /\ \A k \in 1..1 : z[k] = o[k]
      BY <2>2, <3>1, <3>2
    <3>4. 1 \in 1..1
      OBVIOUS
    <3>5. z[1] = a /\ z[2] = b
      BY <2>2, <3>1, <3>2, <3>3, <3>4
    <3>6. z \in Seq(Unit) /\ Len(z) = 2
      BY <3>1, <3>2, <3>3
    <3>. QED BY <3>2, <3>5, <3>6, Zenon
  <2>4. PICK q \in Seq(Unit) : q = Append(p, c) /\ Len(q) = 3 /\ q[1] = a /\ q[2] = b /\ q[3] = c
    <3>1. /\ Append(p, c) \in Seq(Unit) /\ Len(Append(p, c)) = Len(p) + 1
          /\ \A k \in 1..Len(p) : Append(p, c)[k] = p[k]
          /\ Append(p, c)[Len(p) + 1] = c
      BY AppendOne
    <3>2. PICK z : z = Append(p, c)
      OBVIOUS
    <3>3. Len(p) = 2 /\ \A k \in 1..2 : z[k] = p[k]
      BY <2>3, <3>1, <3>2
    <3>4. 1 \in 1..2 /\ 2 \in 1..2
      OBVIOUS
    <3>5. z[1] = a /\ z[2] = b /\ z[3] = c
      BY <2>3, <3>1, <3>2, <3>3, <3>4
    <3>6. z \in Seq(Unit) /\ Len(z) = 3
      BY <3>1, <3>2, <3>3
    <3>. QED BY <3>2, <3>5, <3>6, Zenon
  <2>5. PICK r \in Seq(Unit) : r = Append(q, d) /\ Len(r) = 4 /\ r[1] = a /\ r[2] = b /\ r[3] = c /\ r[4] = d
    <3>1. /\ Append(q, d) \in Seq(Unit) /\ Len(Append(q, d)) = Len(q) + 1
          /\ \A k \in 1..Len(q) : Append(q, d)[k] = q[k]
          /\ Append(q, d)[Len(q) + 1] = d
      BY AppendOne
    <3>2. PICK z : z = Append(q, d)
      OBVIOUS
    <3>3. Len(q) = 3 /\ \A k \in 1..3 : z[k] = q[k]
      BY <2>4, <3>1, <3>2
    <3>4. 1 \in 1..3 /\ 2 \in 1..3 /\ 3 \in 1..3
      OBVIOUS
    <3>5. z[1] = a /\ z[2] = b /\ z[3] = c /\ z[4] = d
      BY <2>4, <3>1, <3>2, <3>3, <3>4
    <3>6. z \in Seq(Unit) /\ Len(z) = 4
      BY <3>1, <3>2, <3>3
    <3>. QED BY <3>2, <3>5, <3>6, Zenon
  <2>6. Len(s) = 4
    BY <1>0, <1>1
  <2>7. \A k \in 1..4 : s[k] = r[k]
    <3>1. \A k \in 1..4 : k = 1 \/ k = 2 \/ k = 3 \/ k = 4
      OBVIOUS
    <3>. QED BY <1>11, <2>5, <3>1
  <2>8. s = r
    BY <1>10, <2>5, <2>6, <2>7, SeqEqual
  <2>. QED BY <2>2, <2>3, <2>4, <2>5, <2>8
<1>13. /\ Len(TallyFn[a]) = Len(m.items[1].arg) /\ Len(TallyFn[b]) = 1
       /\ Len(TallyFn[c]) = 20 /\ Len(TallyFn[d]) = 1 /\ Len(TallyFn[n]) = 1
  <2>1. Count(a) = Len(m.items[1].arg)
    BY <1>0, <1>1, <1>11 DEF Count
  <2>2. Count(c) = 20
    BY <1>0, <1>1, <1>11 DEF Count
  <2>3. ASSUME NEW x \in Nat, x \notin {PERCENT, BACKSLASH} PROVE Count(Text(<< x >>)) = 1
    <3>1. << x >>[1] = x
      OBVIOUS
    <3>. QED BY <2>3, <3>1 DEF Count, Text
  <2>4. Count(b) = 1 /\ Count(d) = 1 /\ Count(n) = 1
    <3>1. /\ 61 \in Nat /\ 61 \notin {PERCENT, BACKSLASH}
          /\ SPACE \in Nat /\ SPACE \notin {PERCENT, BACKSLASH}
          /\ NUL \in Nat /\ NUL \notin {PERCENT, BACKSLASH}
      BY DEF PERCENT, BACKSLASH, SPACE, NUL
    <3>. QED BY <1>0, <1>1, <1>9, <1>11, <2>3, <3>1
  <2>5. /\ Len(TallyFn[a]) = Count(a) /\ Len(TallyFn[b]) = Count(b) /\ Len(TallyFn[c]) = Count(c)
        /\ Len(TallyFn[d]) = Count(d) /\ Len(TallyFn[n]) = Count(n)
    BY <1>9, TallyType
  <2>. QED BY <2>1, <2>2, <2>4, <2>5
<1>14. PICK ta, tb, tc, td, tn \in Seq({0}) :
         ta = TallyFn[a] /\ tb = TallyFn[b] /\ tc = TallyFn[c] /\ td = TallyFn[d] /\ tn = TallyFn[n]
  BY <1>9, TallyType DEF Fcns
<1>15. Joined(TallyFn, Units(m)) = Joined(TallyFn, s) \o tn
  BY <1>1, <1>8, <1>9, <1>14, TallyType, UnitsSplit
<1>16. Joined(TallyFn, s) = ta \o tb \o tc \o td
  <2>1. PICK o \in Seq(Unit) : o = << a >>
    BY SeqOfOne
  <2>2. Joined(TallyFn, o) = ta
    <3>1. Joined(TallyFn, << a >>) = TallyFn[a]
      BY TallyType, JoinedOne
    <3>. QED BY <1>14, <2>1, <3>1
  <2>3. PICK p \in Seq(Unit) : p = Append(o, b)
    BY AppendOne
  <2>4. Joined(TallyFn, p) = ta \o tb
    BY <1>14, <2>2, <2>3, TallyType, JoinedAppend
  <2>5. PICK q \in Seq(Unit) : q = Append(p, c)
    BY AppendOne
  <2>6. Joined(TallyFn, q) = ta \o tb \o tc
    BY <1>14, <2>4, <2>5, TallyType, JoinedAppend
  <2>7. Joined(TallyFn, Append(q, d)) = ta \o tb \o tc \o td
    BY <1>14, <2>6, TallyType, JoinedAppend
  <2>. QED BY <1>12, <2>1, <2>3, <2>5, <2>7
<1>17. Len(ta \o tb \o tc \o td \o tn) = Len(ta) + Len(tb) + Len(tc) + Len(td) + Len(tn)
  <2>1. PICK x \in Seq({0}) : x = ta \o tb /\ Len(x) = Len(ta) + Len(tb)
    BY ConcatNat
  <2>2. PICK y \in Seq({0}) : y = x \o tc /\ Len(y) = Len(x) + Len(tc)
    BY ConcatNat
  <2>3. PICK z \in Seq({0}) : z = y \o td /\ Len(z) = Len(y) + Len(td)
    BY ConcatNat
  <2>4. Len(z \o tn) = Len(z) + Len(tn)
    BY ConcatNat
  <2>. QED BY <2>1, <2>2, <2>3, <2>4
<1>18. Len(ta) = Len(m.items[1].arg) /\ Len(tb) = 1 /\ Len(tc) = 20 /\ Len(td) = 1 /\ Len(tn) = 1
  BY <1>13, <1>14
<1>19. Len(Joined(TallyFn, Units(m))) = Len(m.items[1].arg) + 1 + 20 + 1 + 1
  BY <1>15, <1>16, <1>17, <1>18
<1>. QED BY <1>0, <1>19

-----------------------------------------------------------------------------
(* Reading the format: what is at a place, and the width of a conversion    *)

(* the place of a member in what is joined                                  *)
LEMMA AppendLength ==
  ASSUME NEW D, NEW S, NEW f \in Fcns(D, Seq(S)), NEW done \in Seq(D), NEW u \in D
  PROVE  /\ Joined(f, done) \in Seq(S) /\ f[u] \in Seq(S) /\ Joined(f, Append(done, u)) \in Seq(S)
         /\ Append(done, u) \in Seq(D)
         /\ Len(Joined(f, Append(done, u))) = Len(Joined(f, done)) + Len(f[u])
<1>1. Joined(f, Append(done, u)) = Joined(f, done) \o f[u]
  BY JoinedAppend
<1>2. PICK a \in Seq(S) : a = Joined(f, done)
  <2>1. << >> \in Seq(D)
    OBVIOUS
  <2>. QED BY <2>1, JoinedConcat
<1>3. PICK b \in Seq(S) : b = f[u]
  BY DEF Fcns
<1>4. a \o b \in Seq(S) /\ Len(a \o b) = Len(a) + Len(b)
  BY ConcatNat
<1>. QED BY <1>1, <1>2, <1>3, <1>4, AppendOne

(* us is what is done, u, and the rest                                      *)
Split(us, done, u, rest) == us = Append(done, u) \o rest

(* What is joined around a unit. *)
LEMMA JoinedSplit ==
  ASSUME NEW D, NEW S, NEW f \in Fcns(D, Seq(S)), NEW done \in Seq(D), NEW u \in D, NEW rest \in Seq(D),
         NEW us, Split(us, done, u, rest)
  PROVE  /\ Joined(f, us) = (Joined(f, done) \o f[u]) \o Joined(f, rest)
         /\ Joined(f, rest) \in Seq(S)
<1>1. PICK d \in Seq(D) : d = Append(done, u)
  BY AppendOne
<1>2. Joined(f, d) = Joined(f, done) \o f[u]
  BY <1>1, JoinedAppend
<1>3. Joined(f, d \o rest) = Joined(f, d) \o Joined(f, rest)
  BY JoinedConcat
<1>4. Joined(f, rest) \in Seq(S)
  BY JoinedConcat
<1>5. us = d \o rest
  BY <1>1 DEF Split
<1>. QED BY <1>2, <1>3, <1>4, <1>5

(* The one in the middle of three sequences. *)
LEMMA Middle ==
  ASSUME NEW S, NEW a \in Seq(S), NEW b \in Seq(S), NEW c \in Seq(S), NEW j, j = (a \o b) \o c
  PROVE  /\ j \in Seq(S)
         /\ Len(j) = Len(a) + Len(b) + Len(c)
         /\ \A k \in 1..Len(b) : j[Len(a) + k] = b[k]
<1>7. PICK ab \in Seq(S) : /\ ab = a \o b /\ Len(ab) = Len(a) + Len(b)
                          /\ \A k \in 1..(Len(a) + Len(b)) : ab[k] = IF k <= Len(a) THEN a[k] ELSE b[k - Len(a)]
  <2>1. /\ a \o b \in Seq(S) /\ Len(a \o b) = Len(a) + Len(b)
        /\ \A k \in 1..(Len(a) + Len(b)) : (a \o b)[k] = IF k <= Len(a) THEN a[k] ELSE b[k - Len(a)]
    BY ConcatNat
  <2>. QED BY <2>1
<1>8. /\ ab \o c \in Seq(S) /\ Len(ab \o c) = Len(ab) + Len(c)
      /\ \A k \in 1..(Len(ab) + Len(c)) : (ab \o c)[k] = IF k <= Len(ab) THEN ab[k] ELSE c[k - Len(ab)]
  BY ConcatNat
<1>9. j = ab \o c
  BY <1>7
<1>11. Len(a) \in Nat /\ Len(b) \in Nat /\ Len(c) \in Nat
  OBVIOUS
<1>12. ASSUME NEW k \in 1..Len(b) PROVE j[Len(a) + k] = b[k]
  <2>1. /\ Len(a) + k \in 1..(Len(ab) + Len(c)) /\ Len(a) + k <= Len(ab)
        /\ Len(a) + k \in 1..(Len(a) + Len(b)) /\ ~(Len(a) + k <= Len(a)) /\ (Len(a) + k) - Len(a) = k
    BY <1>7, <1>11
  <2>. QED BY <1>7, <1>8, <1>9, <2>1
<1>13. Len(j) = Len(a) + Len(b) + Len(c) /\ j \in Seq(S)
  BY <1>7, <1>8, <1>9
<1>. QED BY <1>12, <1>13

(* where the member u is in what is joined                                  *)
LEMMA MemberAt ==
  ASSUME NEW D, NEW S, NEW f \in Fcns(D, Seq(S)), NEW done \in Seq(D), NEW u \in D, NEW rest \in Seq(D),
         NEW us, Split(us, done, u, rest)
  PROVE  /\ Joined(f, us) \in Seq(S)
         /\ Len(Joined(f, us)) = Len(Joined(f, done)) + Len(f[u]) + Len(Joined(f, rest))
         /\ Len(Joined(f, done)) \in Nat /\ Len(f[u]) \in Nat /\ Len(Joined(f, rest)) \in Nat
         /\ \A k \in 1..Len(f[u]) : Joined(f, us)[Len(Joined(f, done)) + k] = f[u][k]
<1>1. PICK a \in Seq(S) : a = Joined(f, done)
  BY AppendLength
<1>2. PICK b \in Seq(S) : b = f[u]
  BY AppendLength
<1>3. PICK c \in Seq(S) : c = Joined(f, rest)
  BY JoinedSplit
<1>. DEFINE j == Joined(f, us)
<1>4. j = (a \o b) \o c
  <2>1. Joined(f, us) = (Joined(f, done) \o f[u]) \o Joined(f, rest)
    BY JoinedSplit
  <2>. QED BY <1>1, <1>2, <1>3, <2>1
<1>. HIDE DEF j
<1>5. /\ j \in Seq(S)
      /\ Len(j) = Len(a) + Len(b) + Len(c)
      /\ \A k \in 1..Len(b) : j[Len(a) + k] = b[k]
  BY <1>4, Middle
<1>6. Len(a) \in Nat /\ Len(b) \in Nat /\ Len(c) \in Nat
  OBVIOUS
<1>. QED BY <1>1, <1>2, <1>3, <1>5, <1>6 DEF j

-----------------------------------------------------------------------------
(* A conversion in the format string *)

(* LeadingZeros adds up one digit or two. *)
LEMMA LcUnfold ==
  ASSUME NEW p, Format[p] = ZERO, NEW q, q = ConversionAt(p) - p - 1, q = 1 \/ q = 2
  PROVE  LeadingZeros(p) = IF q = 1 THEN 0 + Weight(p + 1) ELSE (0 + Weight(p + 1)) + Weight(p + 2)
<1>. DEFINE digits == ConversionAt(p) - p - 1
            lc[k \in 0..digits] == IF k = 0 THEN 0 ELSE lc[k - 1] + Weight(p + k)
<1>1. LeadingZeros(p) = lc[digits]
  BY DEF LeadingZeros
<1>2. PICK g : g = [k \in 0..q |-> IF k = 0 THEN 0 ELSE IF k = 1 THEN 0 + Weight(p + 1)
                                  ELSE (0 + Weight(p + 1)) + Weight(p + 2)]
  OBVIOUS
<1>3. ASSUME NEW k \in 0..q PROVE g[k] = IF k = 0 THEN 0 ELSE g[k - 1] + Weight(p + k)
  <2>1. k = 0 \/ k = 1 \/ (k = 2 /\ q = 2)
    OBVIOUS
  <2>2. 0 \in 0..q /\ 1 \in 0..q
    OBVIOUS
  <2>3. CASE k = 0
    BY <1>2, <2>3
  <2>4. CASE k = 1
    <3>1. g[1] = 0 + Weight(p + 1) /\ g[0] = 0
      BY <1>2, <2>2
    <3>2. 1 - 1 = 0
      OBVIOUS
    <3>. QED BY <2>4, <3>1, <3>2
  <2>5. CASE k = 2 /\ q = 2
    <3>1. g[1] = 0 + Weight(p + 1) /\ g[2] = (0 + Weight(p + 1)) + Weight(p + 2)
      BY <1>2, <2>2, <2>5
    <3>2. 2 - 1 = 1 /\ 2 # 0
      OBVIOUS
    <3>. QED BY <2>5, <3>1, <3>2
  <2>. QED BY <2>1, <2>3, <2>4, <2>5
<1>4. g = [k \in 0..digits |-> IF k = 0 THEN 0 ELSE g[k - 1] + Weight(p + k)]
  BY <1>2, <1>3, Zenon
<1>5. lc = [k \in 0..digits |-> IF k = 0 THEN 0 ELSE lc[k - 1] + Weight(p + k)]
  <2>1. \E x : x = [k \in 0..digits |-> IF k = 0 THEN 0 ELSE x[k - 1] + Weight(p + k)]
    BY <1>4, Zenon
  <2>. QED BY <2>1, Zenon
<1>. HIDE DEF lc
<1>6. ASSUME NEW k \in 0..q PROVE lc[k] = IF k = 0 THEN 0 ELSE lc[k - 1] + Weight(p + k)
  BY <1>5
<1>7. lc[0] = 0 /\ lc[1] = lc[0] + Weight(p + 1)
  <2>1. 0 \in 0..q /\ 1 \in 0..q /\ 1 # 0 /\ 1 - 1 = 0
    OBVIOUS
  <2>. QED BY <1>6, <2>1
<1>8. q = 2 => lc[2] = lc[1] + Weight(p + 2)
  <2>1. q = 2 => 2 \in 0..q /\ 2 # 0 /\ 2 - 1 = 1
    OBVIOUS
  <2>. QED BY <1>6, <2>1
<1>9. lc[q] = IF q = 1 THEN 0 + Weight(p + 1) ELSE (0 + Weight(p + 1)) + Weight(p + 2)
  BY <1>7, <1>8
<1>. QED BY <1>1, <1>9

(* The value of a digit. *)
LEMMA ModDigit ==
  ASSUME NEW v \in Nat, v < 16
  PROVE  (48 + v) % 16 = v
OBVIOUS

(* The letter of a conversion is the first character that is not a digit. *)
LEMMA LetterAfter ==
  ASSUME NEW fm \in Seq(Nat), Format = fm, NEW p \in Nat, fm[p] = ZERO, NEW q \in Nat, p < q, q <= Len(fm),
         fm[q] > NINE, \A k \in (p + 1)..(q - 1) : ~(fm[k] > NINE)
  PROVE  ConversionAt(p) = q
<1>. DEFINE I == {k \in (p + 1)..Len(fm) : fm[k] > NINE}
<1>1. ConversionAt(p) = IF I # {} THEN Min(I) ELSE 0
  BY DEF ConversionAt, SelectInSubSeq
<1>2. q \in I
  OBVIOUS
<1>3. \A k \in I : q <= k
  <2>1. SUFFICES ASSUME NEW k \in I, k < q PROVE FALSE
    OBVIOUS
  <2>2. k \in (p + 1)..(q - 1) /\ fm[k] > NINE
    BY <2>1
  <2>. QED BY <2>2
<1>4. I \subseteq Nat
  <2>1. \A k \in I : k \in Nat
    OBVIOUS
  <2>. HIDE DEF I
  <2>. QED BY <2>1
<1>. HIDE DEF I
<1>5. Min(I) = q
  BY <1>2, <1>3, <1>4, LeastIsMin
<1>. QED BY <1>1, <1>2, <1>5

(* the conversion at place n + 1 of the format string, with width w         *)
LEMMA ConversionIs ==
  ASSUME NEW fm \in Seq(Nat), Format = fm, NEW n \in Nat, NEW w \in Widths,
         NEW x \in Seq(Nat), x = WidthText(w), n + Len(x) + 2 <= Len(fm),
         \A k \in 1..Len(x) : fm[n + 1 + k] = x[k],
         fm[n + Len(x) + 2] > NINE, fm[n + Len(x) + 2] # ZERO
  PROVE  ConversionAt(n + 2) = n + Len(x) + 2 /\ LeadingZeros(n + 2) = w
<1>0. w \in 0..16
  BY DEF Widths
<1>1. CASE w = 0
  <2>1. x = << >>
    BY <1>1, WidthTextType
  <2>2. Len(x) = 0
    BY <2>1
  <2>3. n + Len(x) + 2 = n + 2
    BY <2>2
  <2>4. Format[n + 2] # ZERO
    BY <2>3
  <2>. QED BY <1>1, <2>3, <2>4 DEF ConversionAt, LeadingZeros
<1>2. PICK z \in Nat : z = ZERO /\ z = 48 /\ NINE = 57
  BY DEF ZERO, NINE
<1>3. PICK p \in Nat : p = n + 2
  OBVIOUS
<1>4. CASE w # 0 /\ w < 10
  <2>0. z + w \in Nat
    BY <1>0
  <2>1. x = << z, z + w >>
    BY <1>2, <1>4, WidthTextType
  <2>2. Len(x) = 2 /\ x[1] = z /\ x[2] = z + w
    BY <2>0, <2>1, TwoNat
  <2>3. fm[p] = z /\ fm[p + 1] = z + w /\ fm[p + 2] > NINE /\ p + 2 <= Len(fm)
    <3>1. 1 \in 1..Len(x) /\ 2 \in 1..Len(x) /\ n + 1 + 1 = p /\ n + 1 + 2 = p + 1 /\ n + Len(x) + 2 = p + 2
      BY <1>3, <2>2
    <3>. QED BY <2>2, <3>1
  <2>4. ConversionAt(p) = p + 2
    <3>1. \A k \in (p + 1)..((p + 2) - 1) : ~(fm[k] > NINE)
      <4>1. \A k \in (p + 1)..((p + 2) - 1) : k = p + 1
        OBVIOUS
      <4>2. ~(z + w > NINE)
        BY <1>0, <1>2, <1>4
      <4>. QED BY <2>3, <4>1, <4>2
    <3>2. p + 2 \in Nat /\ p < p + 2
      OBVIOUS
    <3>3. PICK q \in Nat : q = p + 2
      BY <3>2
    <3>4. p < q /\ q <= Len(fm) /\ fm[q] > NINE /\ fm[p] = ZERO /\ \A k \in (p + 1)..(q - 1) : ~(fm[k] > NINE)
      BY <1>2, <2>3, <3>1, <3>2, <3>3
    <3>5. ConversionAt(p) = q
      BY <3>4, LetterAfter
    <3>. QED BY <3>3, <3>5
  <2>5. Weight(p + 1) = w
    <3>1. (p + 1) + 1 = p + 2
      OBVIOUS
    <3>2. ~(fm[p + 2] <= NINE)
      <4>1. fm[p + 2] \in Nat
        BY <2>3
      <4>. QED BY <1>2, <2>3, <4>1
    <3>3. (z + w) % 16 = w
      <4>1. w \in Nat /\ w < 16
        BY <1>0, <1>4
      <4>2. (48 + w) % 16 = w
        BY <4>1, ModDigit
      <4>. QED BY <1>2, <4>2
    <3>4. Weight(p + 1) = 1 * ((z + w) % 16)
      BY <2>3, <3>1, <3>2 DEF Weight
    <3>. QED BY <1>0, <3>3, <3>4
  <2>6. LeadingZeros(p) = w
    <3>1. (p + 2) - p - 1 = 1
      OBVIOUS
    <3>2. Format[p] = ZERO
      BY <1>2, <2>3
    <3>3. LeadingZeros(p) = 0 + Weight(p + 1)
      BY <2>4, <3>1, <3>2, LcUnfold
    <3>. QED BY <1>0, <2>5, <3>3
  <2>. QED BY <1>3, <2>2, <2>4, <2>6
<1>5. CASE w >= 10
  <2>0. z + 1 \in Nat /\ z + (w - 10) \in Nat
    BY <1>0, <1>5
  <2>1. x = << z, z + 1, z + (w - 10) >>
    BY <1>2, <1>5, WidthTextType
  <2>2. Len(x) = 3 /\ x[1] = z /\ x[2] = z + 1 /\ x[3] = z + (w - 10)
    BY <2>0, <2>1, ThreeNat
  <2>3. /\ fm[p] = z /\ fm[p + 1] = z + 1 /\ fm[p + 2] = z + (w - 10)
        /\ fm[p + 3] > NINE /\ p + 3 <= Len(fm)
    <3>1. 1 \in 1..Len(x) /\ 2 \in 1..Len(x) /\ 3 \in 1..Len(x) /\ n + 1 + 1 = p /\ n + 1 + 2 = p + 1
          /\ n + 1 + 3 = p + 2 /\ n + Len(x) + 2 = p + 3
      BY <1>3, <2>2
    <3>. QED BY <2>2, <3>1
  <2>4. ConversionAt(p) = p + 3
    <3>1. \A k \in (p + 1)..((p + 3) - 1) : ~(fm[k] > NINE)
      <4>1. \A k \in (p + 1)..((p + 3) - 1) : k = p + 1 \/ k = p + 2
        OBVIOUS
      <4>2. ~(z + 1 > NINE) /\ ~(z + (w - 10) > NINE)
        BY <1>0, <1>2, <1>5
      <4>. QED BY <2>3, <4>1, <4>2
    <3>2. p + 3 \in Nat /\ p < p + 3
      OBVIOUS
    <3>3. PICK q \in Nat : q = p + 3
      BY <3>2
    <3>4. p < q /\ q <= Len(fm) /\ fm[q] > NINE /\ fm[p] = ZERO /\ \A k \in (p + 1)..(q - 1) : ~(fm[k] > NINE)
      BY <1>2, <2>3, <3>1, <3>2, <3>3
    <3>5. ConversionAt(p) = q
      BY <3>4, LetterAfter
    <3>. QED BY <3>3, <3>5
  <2>5. Weight(p + 1) = 10
    <3>1. (p + 1) + 1 = p + 2
      OBVIOUS
    <3>2. fm[p + 2] <= NINE
      BY <1>0, <1>2, <1>5, <2>3
    <3>3. (z + 1) % 16 = 1
      BY <1>2
    <3>4. Weight(p + 1) = 10 * ((z + 1) % 16)
      BY <2>3, <3>1, <3>2 DEF Weight
    <3>. QED BY <3>3, <3>4
  <2>6. Weight(p + 2) = w - 10
    <3>1. (p + 2) + 1 = p + 3
      OBVIOUS
    <3>2. ~(fm[p + 3] <= NINE)
      <4>1. fm[p + 3] \in Nat
        <5>1. p + 3 \in 1..Len(fm)
          BY <2>3
        <5>. QED BY <5>1
      <4>. QED BY <1>2, <2>3, <4>1
    <3>3. (z + (w - 10)) % 16 = w - 10
      <4>1. PICK v \in Nat : v = w - 10 /\ v < 16
        BY <1>0, <1>5
      <4>2. (48 + v) % 16 = v
        BY <4>1, ModDigit
      <4>. QED BY <1>2, <4>1, <4>2
    <3>4. Weight(p + 2) = 1 * ((z + (w - 10)) % 16)
      BY <2>3, <3>1, <3>2 DEF Weight
    <3>. QED BY <1>0, <3>3, <3>4
  <2>7. LeadingZeros(p) = w
    <3>1. (p + 3) - p - 1 = 2
      OBVIOUS
    <3>2. Format[p] = ZERO
      BY <1>2, <2>3
    <3>3. LeadingZeros(p) = (0 + Weight(p + 1)) + Weight(p + 2)
      <4>1. PICK q : q = ConversionAt(p) - p - 1
        OBVIOUS
      <4>2. q = 2 /\ q # 1
        BY <2>4, <3>1, <4>1
      <4>. QED BY <3>2, <4>1, <4>2, LcUnfold
    <3>. QED BY <1>0, <2>5, <2>6, <3>3
  <2>. QED BY <1>3, <2>2, <2>4, <2>7
<1>. QED BY <1>0, <1>1, <1>4, <1>5

-----------------------------------------------------------------------------
(* The turns of vfblogf()                                                   *)

(* vfblogf() is between the units it has done and the rest                  *)
At(us, done, rest, f, a, w) ==
  /\ done \in Seq(Unit) /\ rest \in Seq(Unit) /\ us = done \o rest
  /\ f = Len(Joined(FormatFn, done)) + 1
  /\ a = Len(Joined(ArgFn, done))
  /\ w = Len(Joined(TallyFn, done))

(* Three sequences. *)
LEMMA Associative ==
  ASSUME NEW S, NEW s \in Seq(S), NEW t \in Seq(S), NEW r \in Seq(S)
  PROVE  s \o (t \o r) = (s \o t) \o r
BY ConcatAssociative

(* If something is left there is a next unit. *)
LEMMA NextUnit ==
  ASSUME NEW done \in Seq(Unit), NEW rest \in Seq(Unit), rest # << >>
  PROVE  \E u \in Unit, r \in Seq(Unit) : done \o rest = Append(done, u) \o r
<1>1. rest = << Head(rest) >> \o Tail(rest) /\ Head(rest) \in Unit /\ Tail(rest) \in Seq(Unit)
  BY HeadTailProperties
<1>2. PICK u \in Unit, r \in Seq(Unit) : rest = << u >> \o r
  BY <1>1
<1>3. PICK o \in Seq(Unit) : o = << u >>
  BY SeqOfOne
<1>4. done \o (o \o r) = (done \o o) \o r
  BY Associative
<1>5. Append(done, u) = done \o << u >>
  BY AppendIsConcat
<1>. QED BY <1>2, <1>3, <1>4, <1>5

(* After a unit the loop is behind its format, its arguments are used up,   *)
(* and it is counted.                                                       *)
LEMMA AtAfter ==
  ASSUME NEW us, NEW done, NEW rest, NEW f, NEW a, NEW w, At(us, done, rest, f, a, w),
         NEW u \in Unit, NEW r \in Seq(Unit), Split(us, done, u, r)
  PROVE  At(us, Append(done, u), r, f + Len(FormatFn[u]), a + Len(ArgFn[u]), w + Count(u))
<1>1. done \in Seq(Unit)
  BY DEF At
<1>2. /\ Len(Joined(FormatFn, done)) \in Nat /\ Len(FormatFn[u]) \in Nat
      /\ Len(Joined(FormatFn, Append(done, u))) = Len(Joined(FormatFn, done)) + Len(FormatFn[u])
  BY <1>1, FormatType, AppendLength
<1>3. Len(Joined(ArgFn, Append(done, u))) = Len(Joined(ArgFn, done)) + Len(ArgFn[u])
  BY <1>1, ArgType, AppendLength
<1>4. Len(Joined(TallyFn, Append(done, u))) = Len(Joined(TallyFn, done)) + Len(TallyFn[u])
  BY <1>1, TallyType, AppendLength
<1>5. Len(TallyFn[u]) = Count(u)
  BY TallyType
<1>6. Append(done, u) \in Seq(Unit)
  BY <1>1, AppendOne
<1>7. f + Len(FormatFn[u]) = Len(Joined(FormatFn, Append(done, u))) + 1
  <2>1. PICK n \in Nat : n = Len(Joined(FormatFn, done))
    BY <1>2
  <2>2. PICK m \in Nat : m = Len(FormatFn[u])
    BY <1>2
  <2>3. f = n + 1
    BY <2>1 DEF At
  <2>4. (n + 1) + m = (n + m) + 1
    OBVIOUS
  <2>. QED BY <1>2, <2>1, <2>2, <2>3, <2>4
<1>8. a + Len(ArgFn[u]) = Len(Joined(ArgFn, Append(done, u)))
  BY <1>3 DEF At
<1>9. w + Count(u) = Len(Joined(TallyFn, Append(done, u)))
  BY <1>4, <1>5 DEF At
<1>. QED BY <1>6, <1>7, <1>8, <1>9 DEF At, Split

(* the format of a conversion *)
LEMMA ConversionFormat ==
  ASSUME NEW u \in Unit, u.kind # "text"
  PROVE  \E x \in Seq(Nat) :
           /\ x = WidthText(u.width)
           /\ Len(FormatFn[u]) = Len(x) + 2
           /\ FormatFn[u][1] = PERCENT
           /\ \A k \in 1..Len(x) : FormatFn[u][1 + k] = x[k]
           /\ FormatFn[u][Len(x) + 2] = CONVERSION[u.kind]
<1>1. FormatFn[u] = << PERCENT >> \o WidthText(u.width) \o << CONVERSION[u.kind] >>
  BY DEF FormatFn, FormatOf
<1>2. PICK c \in Nat : c = CONVERSION[u.kind]
  BY ConversionType
<1>3. PICK p \in Nat : p = PERCENT
  BY DEF PERCENT
<1>4. PICK x \in Seq(Nat) : x = WidthText(u.width)
  BY ConversionType, WidthTextType
<1>5. PICK o \in Seq(Nat) : o = << p >> /\ Len(o) = 1 /\ o[1] = p
  BY SeqOfOne
<1>6. PICK ox : ox = o \o x
  OBVIOUS
<1>7. /\ ox \in Seq(Nat) /\ Len(ox) = 1 + Len(x)
      /\ \A k \in 1..(1 + Len(x)) : ox[k] = IF k <= 1 THEN o[k] ELSE x[k - 1]
  <2>1. /\ o \o x \in Seq(Nat) /\ Len(o \o x) = Len(o) + Len(x)
        /\ \A k \in 1..(Len(o) + Len(x)) : (o \o x)[k] = IF k <= Len(o) THEN o[k] ELSE x[k - Len(o)]
    BY ConcatNat
  <2>. QED BY <1>5, <1>6, <2>1
<1>8. /\ Len(Append(ox, c)) = Len(ox) + 1
      /\ \A k \in 1..Len(ox) : Append(ox, c)[k] = ox[k]
      /\ Append(ox, c)[Len(ox) + 1] = c
  BY <1>7, AppendNat
<1>9. PICK y : y = Append(ox, c)
  OBVIOUS
<1>10. y = FormatFn[u]
  <2>1. Append(ox, c) = ox \o << c >>
    BY <1>7, AppendIsConcat
  <2>. QED BY <1>1, <1>2, <1>3, <1>4, <1>5, <1>6, <1>9, <2>1
<1>11. Len(x) \in Nat
  OBVIOUS
<1>12. Len(y) = Len(x) + 2 /\ y[Len(x) + 2] = c
  <2>1. Len(ox) + 1 = Len(x) + 2
    BY <1>7, <1>11
  <2>. QED BY <1>8, <1>9, <2>1
<1>13. y[1] = p
  <2>1. 1 \in 1..Len(ox) /\ 1 \in 1..(1 + Len(x)) /\ 1 <= 1
    BY <1>7, <1>11
  <2>. QED BY <1>5, <1>7, <1>8, <1>9, <2>1
<1>14. ASSUME NEW k \in 1..Len(x) PROVE y[1 + k] = x[k]
  <2>1. 1 + k \in 1..Len(ox) /\ 1 + k \in 1..(1 + Len(x)) /\ ~(1 + k <= 1) /\ (1 + k) - 1 = k
    BY <1>7, <1>11
  <2>. QED BY <1>7, <1>8, <1>9, <2>1
<1>. QED BY <1>2, <1>3, <1>4, <1>10, <1>12, <1>13, <1>14

(* The format of a unit is where the loop is. *)
LEMMA FormatAt ==
  ASSUME NEW us, NEW done \in Seq(Unit), NEW u \in Unit, NEW r \in Seq(Unit), Split(us, done, u, r)
  PROVE  /\ Joined(FormatFn, us) \in Seq(Nat)
         /\ Len(Joined(FormatFn, us))
              = Len(Joined(FormatFn, done)) + Len(FormatFn[u]) + Len(Joined(FormatFn, r))
         /\ Len(Joined(FormatFn, done)) \in Nat /\ Len(FormatFn[u]) \in Nat
         /\ Len(Joined(FormatFn, r)) \in Nat
         /\ \A k \in 1..Len(FormatFn[u]) :
              Joined(FormatFn, us)[Len(Joined(FormatFn, done)) + k] = FormatFn[u][k]
BY FormatType, MemberAt

(* what a turn does that hands the text of u to serial_tx()                 *)
Hands(u) ==
  /\ escaped' = FALSE /\ pc' = "tx" /\ text' = TextFn[u] /\ i' = 1 /\ returned' = FALSE
  /\ format' = (format - (IF escaped THEN 1 ELSE 0)) + Len(FormatFn[u])
  /\ arg' = arg + Len(ArgFn[u]) /\ written' = written + Count(u)

(* A conversion: the turn hands its text to serial_tx() and goes on behind  *)
(* its letter.                                                              *)
LEMMA TurnConversion ==
  ASSUME Turn, ~escaped, NEW us, Format = Joined(FormatFn, us), Args = Joined(ArgFn, us),
         NEW done, NEW rest, At(us, done, rest, format, arg, written),
         NEW u \in Unit, NEW r \in Seq(Unit), Split(us, done, u, r), u.kind # "text"
  PROVE  Hands(u)
<1>. DEFINE n == Len(Joined(FormatFn, done))
<1>0. done \in Seq(Unit) /\ format = n + 1 /\ arg = Len(Joined(ArgFn, done))
  BY DEF At
<1>1. /\ Format \in Seq(Nat)
      /\ Len(Format) = n + Len(FormatFn[u]) + Len(Joined(FormatFn, r))
      /\ n \in Nat /\ Len(FormatFn[u]) \in Nat /\ Len(Joined(FormatFn, r)) \in Nat
      /\ \A k \in 1..Len(FormatFn[u]) : Format[n + k] = FormatFn[u][k]
  BY <1>0, FormatAt, Zenon
<1>. HIDE DEF n
<1>2. PICK x \in Seq(Nat) :
        /\ x = WidthText(u.width)
        /\ Len(FormatFn[u]) = Len(x) + 2
        /\ FormatFn[u][1] = PERCENT
        /\ \A k \in 1..Len(x) : FormatFn[u][1 + k] = x[k]
        /\ FormatFn[u][Len(x) + 2] = CONVERSION[u.kind]
  BY ConversionFormat
<1>3. PICK fm \in Seq(Nat) : fm = Format
  BY <1>1
<1>4. Len(x) \in Nat
  OBVIOUS
<1>5. fm[n + 1] = PERCENT
  <2>1. 1 \in 1..Len(FormatFn[u])
    BY <1>2, <1>4
  <2>. QED BY <1>1, <1>2, <1>3, <2>1
<1>6. \A k \in 1..Len(x) : fm[n + 1 + k] = x[k]
  <2>1. SUFFICES ASSUME NEW k \in 1..Len(x) PROVE fm[n + 1 + k] = x[k]
    OBVIOUS
  <2>2. 1 + k \in 1..Len(FormatFn[u]) /\ n + (1 + k) = n + 1 + k
    BY <1>1, <1>2, <1>4
  <2>. QED BY <1>1, <1>2, <1>3, <2>2
<1>7. fm[n + Len(x) + 2] = CONVERSION[u.kind]
  <2>1. Len(x) + 2 \in 1..Len(FormatFn[u]) /\ n + (Len(x) + 2) = n + Len(x) + 2
    BY <1>1, <1>2, <1>4
  <2>. QED BY <1>1, <1>2, <1>3, <2>1
<1>8. n + Len(x) + 2 <= Len(fm)
  BY <1>1, <1>2, <1>3, <1>4
<1>9. u.width \in Widths /\ CONVERSION[u.kind] > NINE /\ CONVERSION[u.kind] # ZERO
  BY ConversionType
<1>10. ConversionAt(n + 2) = n + Len(x) + 2 /\ LeadingZeros(n + 2) = u.width
  BY <1>1, <1>2, <1>3, <1>6, <1>7, <1>8, <1>9, ConversionIs
<1>11. format + 1 = n + 2 /\ (n + Len(x) + 2) + 1 = format + Len(FormatFn[u])
  BY <1>0, <1>1, <1>2, <1>4
<1>12. Args[arg + 1] = u /\ Len(ArgFn[u]) = 1
  <2>1. ArgFn[u] = << u >>
    BY ConversionType DEF ArgFn
  <2>2. Len(<< u >>) = 1 /\ << u >>[1] = u /\ 1 \in 1..1
    OBVIOUS
  <2>3. \A k \in 1..Len(ArgFn[u]) : Joined(ArgFn, us)[Len(Joined(ArgFn, done)) + k] = ArgFn[u][k]
    BY <1>0, ArgType, MemberAt
  <2>. QED BY <1>0, <2>1, <2>2, <2>3
<1>13. /\ PrintArgument(ConversionAt(format + 1)) /\ pc' = "tx" /\ UNCHANGED escaped
  <2>1. Format[format] = PERCENT
    BY <1>0, <1>3, <1>5
  <2>2. PERCENT # BACKSLASH /\ PERCENT \in {BACKSLASH, PERCENT}
    BY DEF PERCENT, BACKSLASH
  <2>. QED BY <2>1, <2>2 DEF Turn
<1>14. /\ arg' = arg + 1 /\ format' = (n + Len(x) + 2) + 1
       /\ \/ u.kind = "s" /\ Transmit(u.arg) /\ written' = written + Len(u.arg)
          \/ u.kind = "c" /\ Transmit(<< u.arg >>) /\ written' = written + 1
          \/ u.kind = "x" /\ Transmit(bputint(u.width, itoah(u.arg))) /\ written' = written + 4 + u.width
          \/ u.kind = "d" /\ Transmit(bputint(u.width, itoa(u.arg))) /\ written' = written + 4 + u.width
  BY <1>10, <1>11, <1>12, <1>13 DEF PrintArgument
<1>15. i' = 1 /\ returned' = FALSE
  BY <1>14 DEF Transmit
<1>16. TextFn[u] = TextOf(u)
  BY DEF TextFn
<1>17. written \in Nat /\ u.width \in Nat
  <2>1. u.width \in Nat
    BY <1>9 DEF Widths
  <2>2. Len(Joined(TallyFn, done)) \in Nat
    BY <1>0, TallyType, AppendLength
  <2>. QED BY <2>1, <2>2 DEF At
<1>18. text' = TextOf(u) /\ written' = written + Count(u)
  <2>1. CASE u.kind = "s"
    <3>1. Transmit(u.arg) /\ written' = written + Len(u.arg)
      BY <1>14, <2>1
    <3>. QED BY <2>1, <3>1 DEF Transmit, TextOf, Count
  <2>2. CASE u.kind = "c"
    <3>1. Transmit(<< u.arg >>) /\ written' = written + 1
      BY <1>14, <2>2
    <3>. QED BY <2>2, <3>1 DEF Transmit, TextOf, Count
  <2>3. CASE u.kind = "x"
    <3>1. Transmit(bputint(u.width, itoah(u.arg))) /\ written' = written + 4 + u.width
      BY <1>14, <2>3
    <3>2. u.width \in 0..16 /\ u.arg \in 0..MAX_INT
      BY <2>3, UnitKinds DEF Widths
    <3>3. bputint(u.width, itoah(u.arg)) = NumberText(u.arg, 16, u.width)
      BY <3>2, HexIsNumber
    <3>4. TextOf(u) = NumberText(u.arg, 16, u.width)
      BY <2>3 DEF TextOf
    <3>5. Count(u) = 4 + u.width
      BY <2>3 DEF Count
    <3>6. text' = bputint(u.width, itoah(u.arg))
      BY <3>1 DEF Transmit
    <3>7. written + 4 + u.width = written + (4 + u.width)
      <4>1. PICK v \in Nat : v = u.width
        BY <1>17
      <4>2. PICK wr \in Nat : wr = written
        BY <1>17
      <4>3. wr + 4 + v = wr + (4 + v)
        OBVIOUS
      <4>. QED BY <4>1, <4>2, <4>3
    <3>. QED BY <3>1, <3>3, <3>4, <3>5, <3>6, <3>7
  <2>4. CASE u.kind = "d"
    <3>1. Transmit(bputint(u.width, itoa(u.arg))) /\ written' = written + 4 + u.width
      BY <1>14, <2>4
    <3>2. u.width \in 0..16 /\ u.arg \in 0..15
      BY <2>4, UnitKinds DEF Widths
    <3>3. bputint(u.width, itoa(u.arg)) = NumberText(u.arg, 10, u.width)
      BY <3>2, DecIsNumber
    <3>4. TextOf(u) = NumberText(u.arg, 10, u.width)
      BY <2>4 DEF TextOf
    <3>5. Count(u) = 4 + u.width
      BY <2>4 DEF Count
    <3>6. text' = bputint(u.width, itoa(u.arg))
      BY <3>1 DEF Transmit
    <3>7. written + 4 + u.width = written + (4 + u.width)
      <4>1. PICK v \in Nat : v = u.width
        BY <1>17
      <4>2. PICK wr \in Nat : wr = written
        BY <1>17
      <4>3. wr + 4 + v = wr + (4 + v)
        OBVIOUS
      <4>. QED BY <4>1, <4>2, <4>3
    <3>. QED BY <3>1, <3>3, <3>4, <3>5, <3>6, <3>7
  <2>. QED BY <1>14, <2>1, <2>2, <2>3, <2>4
<1>19. format' = (format - (IF escaped THEN 1 ELSE 0)) + Len(FormatFn[u])
  BY <1>0, <1>1, <1>11, <1>14
<1>. QED BY <1>12, <1>13, <1>14, <1>15, <1>16, <1>18, <1>19 DEF Hands

(* A character: it is printed in one turn, or in two if it is escaped.      *)
LEMMA TurnCharacter ==
  ASSUME Turn, NEW us, Format = Joined(FormatFn, us), escaped \in BOOLEAN,
         NEW done, NEW rest, At(us, done, rest, IF escaped THEN format - 1 ELSE format, arg, written),
         format \in Int,
         NEW u \in Unit, NEW r \in Seq(Unit), Split(us, done, u, r), u.kind = "text",
         escaped => u.arg[1] \in {PERCENT, BACKSLASH}
  PROVE  \/ Hands(u)
         \/ /\ ~escaped /\ escaped' = TRUE /\ u.arg[1] \in {PERCENT, BACKSLASH}
            /\ format' = format + 1 /\ UNCHANGED <<arg, written, pc, tx>>
<1>. DEFINE n == Len(Joined(FormatFn, done))
<1>0. done \in Seq(Unit) /\ (IF escaped THEN format - 1 ELSE format) = n + 1
  BY DEF At
<1>10. done \in Seq(Unit)
  BY DEF At
<1>1. /\ n \in Nat
      /\ \A k \in 1..Len(FormatFn[u]) : Format[n + k] = FormatFn[u][k]
  <2>1. /\ Len(Joined(FormatFn, done)) \in Nat
        /\ \A k \in 1..Len(FormatFn[u]) :
             Joined(FormatFn, us)[Len(Joined(FormatFn, done)) + k] = FormatFn[u][k]
    BY <1>10, FormatAt
  <2>. QED BY <2>1
<1>. HIDE DEF n
<1>2. PICK c \in Nat : c \in Characters \cup {NUL} /\ u = Text(<< c >>) /\ u.arg = << c >>
  BY UnitKinds, CharNat
<1>3. /\ FormatFn[u] = IF c \in {PERCENT, BACKSLASH} THEN << BACKSLASH, c >> ELSE << c >>
      /\ TextFn[u] = << c >> /\ ArgFn[u] = << >>
  <2>1. FormatFn[u] = FormatOf(u) /\ TextFn[u] = TextOf(u) /\ ArgFn[u] = ArgOf(u)
    BY DEF FormatFn, TextFn, ArgFn
  <2>. QED BY <1>2, <2>1, FormatOfText
<1>4. u.arg[1] = c /\ Len(ArgFn[u]) = 0
  BY <1>2, <1>3
<1>5. Count(u) = IF c \in {PERCENT, BACKSLASH} THEN 0 ELSE 1
  BY <1>4 DEF Count
<1>6. written \in Nat /\ arg \in Nat
  <2>1. Len(Joined(TallyFn, done)) \in Nat
    BY <1>0, TallyType, AppendLength
  <2>2. Len(Joined(ArgFn, done)) \in Nat
    BY <1>0, ArgType, AppendLength
  <2>. QED BY <2>1, <2>2 DEF At
<1>7. PICK b \in Nat : b = BACKSLASH /\ b # PERCENT
  BY DEF BACKSLASH, PERCENT
<1>8. CASE c \notin {PERCENT, BACKSLASH}
  <2>1. ~escaped /\ format = n + 1
    BY <1>0, <1>4, <1>8
  <2>2. Len(FormatFn[u]) = 1 /\ FormatFn[u][1] = c
    <3>1. FormatFn[u] = << c >>
      BY <1>3, <1>8
    <3>. QED BY <3>1, SeqOfOne
  <2>3. Format[format] = c
    <3>1. 1 \in 1..1
      OBVIOUS
    <3>. QED BY <1>1, <2>1, <2>2, <3>1
  <2>4. /\ Transmit(<< c >>) /\ written' = written + 1 /\ format' = format + 1 /\ pc' = "tx"
        /\ UNCHANGED <<arg, escaped>>
    BY <1>8, <2>1, <2>3 DEF Turn
  <2>5. Count(u) = 1
    BY <1>5, <1>8
  <2>6. arg' = arg + Len(ArgFn[u])
    BY <1>4, <1>6, <2>4
  <2>7. format' = (format - (IF escaped THEN 1 ELSE 0)) + Len(FormatFn[u])
    BY <2>1, <2>2, <2>4
  <2>. QED BY <1>3, <2>1, <2>4, <2>5, <2>6, <2>7 DEF Hands, Transmit
<1>9. CASE c \in {PERCENT, BACKSLASH}
  <2>1. Len(FormatFn[u]) = 2 /\ FormatFn[u][1] = b /\ FormatFn[u][2] = c
    <3>1. FormatFn[u] = << b, c >>
      BY <1>3, <1>7, <1>9
    <3>. QED BY <3>1, TwoNat
  <2>2. Format[n + 1] = b /\ Format[n + 2] = c
    <3>1. 1 \in 1..2 /\ 2 \in 1..2
      OBVIOUS
    <3>. QED BY <1>1, <2>1, <3>1
  <2>3. CASE ~escaped
    <3>1. Format[format] = BACKSLASH /\ Format[format] # PERCENT /\ format = n + 1
      BY <1>0, <1>7, <2>2, <2>3
    <3>2. escaped' = TRUE /\ format' = format + 1 /\ UNCHANGED <<arg, written, pc, tx>>
      BY <2>3, <3>1 DEF Turn
    <3>. QED BY <1>4, <1>9, <2>3, <3>2
  <2>4. CASE escaped
    <3>1. format = n + 2
      BY <1>0, <1>1, <2>4
    <3>2. Format[format] = c
      BY <2>2, <3>1
    <3>3. /\ escaped' = FALSE /\ Transmit(<< c >>) /\ format' = format + 1 /\ pc' = "tx"
          /\ UNCHANGED <<arg, written>>
      BY <2>4, <3>2 DEF Turn
    <3>4. Count(u) = 0
      BY <1>5, <1>9
    <3>5. arg' = arg + Len(ArgFn[u]) /\ written' = written + Count(u)
      BY <1>4, <1>6, <3>3, <3>4
    <3>6. format' = (format - (IF escaped THEN 1 ELSE 0)) + Len(FormatFn[u])
      BY <1>1, <2>1, <2>4, <3>1, <3>3
    <3>. QED BY <1>3, <3>3, <3>5, <3>6 DEF Hands, Transmit
  <2>. QED BY <2>3, <2>4
<1>. QED BY <1>8, <1>9
==============================================================================
