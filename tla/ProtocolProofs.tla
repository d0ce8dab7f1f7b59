--------------------------- MODULE ProtocolProofs ---------------------------
(***************************************************************************)
(* Theorems about Protocol: what a decoder accepts has no unknown field,   *)
(* for any frame that changes make of one that was sent, and what was sent *)
(* is read as it was meant, for any seed and any width of seeds and        *)
(* doubles.                                                                *)
(***************************************************************************)
EXTENDS Protocol, DataLemmas, SequenceTheorems

\* The names in frames, and the positions they make.
Name ==
    {"protocol_version", "type", "generation_id", "prompt", "seed", "bounds", "min", "max",
     "total_assets", "categories", "rock", "assets", "0", "1", "category", "transform",
     "location", "x", "y", "yaw", "scale", "ground_snap", "tags", "stats", "elapsed_ms",
     "llm_ms", "code", "message", "recoverable", "manifest", "footprint_radius",
     "instanceable", "display_name", "z"}
Names == Seq(Name)

-----------------------------------------------------------------------------
(* Positions.                                                              *)

\* A prefix, by its elements.
LEMMA PrefixFacts ==
  ASSUME NEW p \in Names, NEW k \in 0..Len(p)
  PROVE  /\ Prefix(p, k) \in Names /\ Len(Prefix(p, k)) = k
         /\ \A i \in 1..k : Prefix(p, k)[i] = p[i]
<1>1. Len(p) \in Nat /\ \A i \in 1..Len(p) : p[i] \in Name
  BY ElementIn DEF Names
<1>2. \A i \in 1..k : p[i] \in Name
  BY <1>1
<1>3. /\ SubSeq(p, 1, k) \in Seq(Name)
      /\ Len(SubSeq(p, 1, k)) = IF 1 <= k THEN k - 1 + 1 ELSE 0
      /\ \A i \in 1..k - 1 + 1 : SubSeq(p, 1, k)[i] = p[1 + i - 1]
  BY <1>1, <1>2, SubSeqProperties
<1>4. k \in Nat /\ \A i \in 1..k : i \in 1..k - 1 + 1 /\ 1 + i - 1 = i
  BY <1>1
<1> QED BY <1>3, <1>4 DEF Prefix, Names

\* Positions with the same elements are the same.
LEMMA SameNames ==
  ASSUME NEW p \in Names, NEW q \in Names, Len(p) = Len(q), \A i \in 1..Len(p) : p[i] = q[i]
  PROVE  p = q
BY SeqEqual DEF Names

\* The whole position, the empty one, and a prefix of a prefix.
LEMMA PrefixOfPrefix ==
  ASSUME NEW p \in Names
  PROVE  /\ Len(p) \in Nat
         /\ Prefix(p, Len(p)) = p /\ Prefix(p, 0) = << >>
         /\ \A k \in 0..Len(p), j \in Nat : j <= k => Prefix(Prefix(p, k), j) = Prefix(p, j)
<1>1. Len(p) \in Nat
  BY ElementIn DEF Names
<1>2. Prefix(p, Len(p)) = p
  <2>1. Len(p) \in 0..Len(p)
    BY <1>1
  <2> QED BY <2>1, PrefixFacts, SameNames
<1>3. Prefix(p, 0) = << >>
  <2>1. 0 \in 0..Len(p) /\ << >> \in Names /\ Len(<< >>) = 0
    BY <1>1 DEF Names
  <2> QED BY <2>1, PrefixFacts, SameNames
<1>4. ASSUME NEW k \in 0..Len(p), NEW j \in Nat, j <= k
      PROVE  Prefix(Prefix(p, k), j) = Prefix(p, j)
  <2> DEFINE q == Prefix(p, k)
  <2>1. q \in Names /\ Len(q) = k /\ \A i \in 1..k : q[i] = p[i]
    BY PrefixFacts
  <2>2. j \in 0..Len(q) /\ j \in 0..Len(p)
    BY <1>1, <1>4, <2>1
  <2> HIDE DEF q
  <2>3. /\ Prefix(q, j) \in Names /\ Len(Prefix(q, j)) = j
        /\ \A i \in 1..j : Prefix(q, j)[i] = q[i]
    BY <2>1, <2>2, PrefixFacts
  <2>4. /\ Prefix(p, j) \in Names /\ Len(Prefix(p, j)) = j
        /\ \A i \in 1..j : Prefix(p, j)[i] = p[i]
    BY <2>2, PrefixFacts
  <2>5. \A i \in 1..j : i \in 1..k
    BY <1>1, <1>4
  <2>6. Prefix(q, j) = Prefix(p, j)
    BY <2>1, <2>3, <2>4, <2>5, SameNames
  <2> QED BY <2>6 DEF q
<1> QED BY <1>1, <1>2, <1>3, <1>4

\* Positions put together.
LEMMA ConcatFacts ==
  ASSUME NEW p \in Names, NEW r \in Names
  PROVE  /\ p \o r \in Names /\ Len(p \o r) = Len(p) + Len(r)
         /\ Len(p) \in Nat /\ Len(r) \in Nat
         /\ \A k \in 0..Len(p) : Prefix(p \o r, k) = Prefix(p, k)
         /\ \A k \in 0..Len(r) : Prefix(p \o r, Len(p) + k) = p \o Prefix(r, k)
         /\ SubSeq(p \o r, Len(p) + 1, Len(p \o r)) = r
<1> DEFINE c == p \o r
           m == Len(p)
           n == Len(r)
<1>1. m \in Nat /\ n \in Nat
  BY ElementIn DEF Names
<1>2. /\ c \in Names /\ Len(c) = m + n
      /\ \A i \in 1..m + n : c[i] = IF i <= m THEN p[i] ELSE r[i - m]
  BY ConcatProperties DEF Names
<1> HIDE DEF c, m, n
<1>3. ASSUME NEW k \in 0..m PROVE Prefix(c, k) = Prefix(p, k)
  <2>1. k \in 0..Len(c) /\ k \in 0..Len(p) /\ \A i \in 1..k : c[i] = p[i]
    BY <1>1, <1>2 DEF m
  <2> QED BY <1>2, <2>1, PrefixFacts, SameNames
<1>4. ASSUME NEW k \in 0..n PROVE Prefix(c, m + k) = p \o Prefix(r, k)
  <2> DEFINE q == Prefix(r, k)
  <2>1. q \in Names /\ Len(q) = k /\ \A i \in 1..k : q[i] = r[i]
    BY PrefixFacts DEF n
  <2> HIDE DEF q
  <2>2. /\ p \o q \in Names /\ Len(p \o q) = m + k
        /\ \A i \in 1..m + k : (p \o q)[i] = IF i <= m THEN p[i] ELSE q[i - m]
    BY <2>1, ConcatProperties DEF Names, m
  <2>3. m + k \in 0..Len(c)
    BY <1>1, <1>2
  <2>4. /\ Prefix(c, m + k) \in Names /\ Len(Prefix(c, m + k)) = m + k
        /\ \A i \in 1..m + k : Prefix(c, m + k)[i] = c[i]
    BY <1>2, <2>3, PrefixFacts
  <2>5. \A i \in 1..m + k : c[i] = (p \o q)[i]
    <3> SUFFICES ASSUME NEW i \in 1..m + k PROVE c[i] = (p \o q)[i]
      OBVIOUS
    <3>1. i \in 1..m + n
      BY <1>1
    <3>2. i \in Int /\ (~(i <= m) => i - m \in 1..k)
      BY <1>1
    <3> QED BY <1>2, <2>1, <2>2, <3>1, <3>2
  <2>6. Prefix(c, m + k) = p \o q
    BY <2>2, <2>4, <2>5, SameNames
  <2> QED BY <2>6 DEF q
<1>5. SubSeq(c, m + 1, Len(c)) = r
  <2>1. \A i \in m + 1..m + n : c[i] \in Name
    BY <1>1, <1>2, ElementIn DEF Names
  <2>2. /\ SubSeq(c, m + 1, m + n) \in Seq(Name)
        /\ Len(SubSeq(c, m + 1, m + n)) = IF m + 1 <= m + n THEN m + n - (m + 1) + 1 ELSE 0
        /\ \A i \in 1..m + n - (m + 1) + 1 : SubSeq(c, m + 1, m + n)[i] = c[m + 1 + i - 1]
    BY <1>1, <2>1, SubSeqProperties
  <2>3. Len(SubSeq(c, m + 1, m + n)) = n
    BY <1>1, <2>2
  <2>4. \A i \in 1..n : SubSeq(c, m + 1, m + n)[i] = r[i]
    <3> SUFFICES ASSUME NEW i \in 1..n PROVE SubSeq(c, m + 1, m + n)[i] = r[i]
      OBVIOUS
    <3>1. /\ i \in 1..m + n - (m + 1) + 1 /\ m + 1 + i - 1 = m + i
          /\ m + i \in 1..m + n /\ ~(m + i <= m) /\ m + i - m = i
      BY <1>1
    <3>2. c[m + i] = r[i]
      <4> DEFINE j == m + i
      <4>1. j \in 1..m + n /\ ~(j <= m) /\ j - m = i
        BY <1>1, <3>1
      <4> HIDE DEF j
      <4>2. c[j] = r[j - m]
        BY <1>2, <4>1
      <4> QED BY <4>1, <4>2 DEF j
    <3>3. SubSeq(c, m + 1, m + n)[i] = c[m + i]
      BY <2>2, <3>1
    <3> QED BY <3>2, <3>3
  <2>5. SubSeq(c, m + 1, m + n) \in Names
    BY <2>2 DEF Names
  <2>6. SubSeq(c, m + 1, m + n) = r
    BY <2>3, <2>4, <2>5, SameNames DEF n
  <2> QED BY <1>2, <2>6
<1> QED BY <1>1, <1>2, <1>3, <1>4, <1>5 DEF c, m, n

-----------------------------------------------------------------------------
(* Types.                                                                  *)

\* The types along a position.
Types(S, T, p) ==
    CHOOSE type : type = [k \in 0..Len(p) |-> IF k = 0 THEN T ELSE Member(S, type[k - 1], p[k])]

\* There are such types.
LEMMA TypesExist ==
  ASSUME NEW S, NEW T, NEW p \in Names
  PROVE  /\ Types(S, T, p)[0] = T
         /\ \A k \in 1..Len(p) : Types(S, T, p)[k] = Member(S, Types(S, T, p)[k - 1], p[k])
<1> DEFINE n == Len(p)
           Body(f, i) == IF i = 0 THEN T ELSE Member(S, f[i - 1], p[i])
           IsLoop(f, k) == f = [i \in 0..k |-> Body(f, i)]
           N == {k \in Nat : \E f : IsLoop(f, k)}
           type == CHOOSE f : IsLoop(f, n)
<1>1. n \in Nat
  BY ElementIn DEF Names
<1>2. 0 \in N
  <2> DEFINE f == [i \in 0..0 |-> T]
  <2>1. IsLoop(f, 0)
    OBVIOUS
  <2> QED BY <2>1
<1>3. ASSUME NEW k \in N PROVE k + 1 \in N
  <2>1. PICK f : IsLoop(f, k)
    BY <1>3
  <2> DEFINE g == [i \in 0..(k + 1) |-> Body(f, i)]
  <2>2. \A i \in 0..k : g[i] = f[i]
    <3>1. k \in Nat /\ \A i \in 0..k : f[i] = Body(f, i)
      BY <1>3, <2>1
    <3> QED BY <3>1
  <2>3. \A i \in 0..(k + 1) : i # 0 => g[i - 1] = f[i - 1]
    <3>1. k \in Nat
      BY <1>3
    <3> HIDE DEF g
    <3> QED BY <2>2, <3>1
  <2>4. IsLoop(g, k + 1)
    BY <2>3
  <2>5. \E h : IsLoop(h, k + 1)
    BY <2>4
  <2> HIDE DEF IsLoop
  <2> QED BY <1>3, <2>5
<1>4. N = Nat
  <2> HIDE DEF N
  <2>1. N \in SUBSET Nat
    BY DEF N
  <2> QED BY <1>2, <1>3, <2>1, NatSetInduction
<1>5. IsLoop(type, n)
  BY <1>1, <1>4
<1>6. Types(S, T, p) = type
  BY DEF Types
<1> HIDE DEF type
<1>7. \A i \in 0..n : type[i] = Body(type, i)
  BY <1>5
<1> QED BY <1>1, <1>6, <1>7

\* The types along a position are those of its prefixes.
LEMMA TypeSteps ==
  ASSUME NEW S, NEW T, NEW p \in Names
  PROVE  /\ TypeAt(S, T, Prefix(p, 0)) = T
         /\ \A k \in Nat : k + 1 <= Len(p) =>
               TypeAt(S, T, Prefix(p, k + 1)) = Member(S, TypeAt(S, T, Prefix(p, k)), p[k + 1])
<1> DEFINE n == Len(p)
           t == Types(S, T, p)
<1>1. n \in Nat
  BY ElementIn DEF Names
<1>2. t[0] = T /\ \A k \in 1..n : t[k] = Member(S, t[k - 1], p[k])
  BY TypesExist
<1>3. ASSUME NEW k \in 0..n PROVE TypeAt(S, T, Prefix(p, k)) = t[k]
  <2> DEFINE q == Prefix(p, k)
             u == Types(S, T, q)
             G == {j \in Nat : j <= k => u[j] = t[j]}
  <2>1. q \in Names /\ Len(q) = k /\ \A i \in 1..k : q[i] = p[i]
    BY PrefixFacts
  <2>2. u[0] = T /\ \A j \in 1..k : u[j] = Member(S, u[j - 1], p[j])
    <3> HIDE DEF q
    <3>1. u[0] = T /\ \A j \in 1..Len(q) : u[j] = Member(S, u[j - 1], q[j])
      BY <2>1, TypesExist
    <3> HIDE DEF u
    <3> QED BY <2>1, <3>1
  <2>3. TypeAt(S, T, q) = u[k]
    <3> HIDE DEF q
    <3> QED BY <2>1 DEF TypeAt, Types
  <2> HIDE DEF q, u, t
  <2>4. 0 \in G
    BY <1>2, <2>2
  <2>5. ASSUME NEW j \in G PROVE j + 1 \in G
    <3>1. SUFFICES ASSUME j + 1 <= k PROVE u[j + 1] = t[j + 1]
      BY <2>5
    <3>2. j + 1 \in 1..k /\ j + 1 \in 1..n /\ j + 1 - 1 = j /\ u[j] = t[j]
      BY <1>1, <2>5, <3>1
    <3>3. u[j + 1] = Member(S, u[j], p[j + 1])
      BY <2>2, <3>2
    <3>4. t[j + 1] = Member(S, t[j], p[j + 1])
      BY <1>2, <3>2
    <3> QED BY <3>2, <3>3, <3>4
  <2>6. G = Nat
    <3> HIDE DEF G
    <3>1. G \in SUBSET Nat
      BY DEF G
    <3> QED BY <2>4, <2>5, <3>1, NatSetInduction
  <2>7. u[k] = t[k]
    BY <1>1, <2>6
  <2> QED BY <2>3, <2>7 DEF q
<1>4. 0 \in 0..n
  BY <1>1
<1> HIDE DEF n, t
<1>5. ASSUME NEW k \in Nat, k + 1 <= n
      PROVE  TypeAt(S, T, Prefix(p, k + 1)) = Member(S, TypeAt(S, T, Prefix(p, k)), p[k + 1])
  <2>1. k \in 0..n /\ k + 1 \in 0..n /\ k + 1 \in 1..n /\ k + 1 - 1 = k
    BY <1>1, <1>5
  <2>2. t[k + 1] = Member(S, t[k], p[k + 1])
    BY <1>2, <2>1
  <2> QED BY <1>3, <2>1, <2>2
<1> QED BY <1>2, <1>3, <1>4, <1>5 DEF n

\* The type at the beginning of a position, and the next one along it.
LEMMA TypeRoot == ASSUME NEW S, NEW T, NEW p \in Names PROVE TypeAt(S, T, Prefix(p, 0)) = T
BY TypeSteps

LEMMA TypeStep ==
  ASSUME NEW S, NEW T, NEW p \in Names, NEW k \in Nat, k + 1 <= Len(p)
  PROVE  TypeAt(S, T, Prefix(p, k + 1)) = Member(S, TypeAt(S, T, Prefix(p, k)), p[k + 1])
<1>1. TypeAt(S, T, Prefix(p, 0)) = T
  BY TypeRoot
<1> QED BY <1>1, TypeSteps

\* The position of a member.
LEMMA OneName ==
  ASSUME NEW n \in Name
  PROVE  << >> \in Names /\ <<n>> \in Names /\ Len(<<n>>) = 1 /\ <<n>>[1] = n
<1>1. << >> \in Seq(Name)
  OBVIOUS
<1>4. <<n>> \in Seq(Name)
  OBVIOUS
<1>2. Len(<<n>>) = 1
  OBVIOUS
<1>3. <<n>>[1] = n
  OBVIOUS
<1> QED BY <1>1, <1>2, <1>3, <1>4 DEF Names

\* The type at two positions put together.
LEMMA TypeAlong ==
  ASSUME NEW S, NEW T, NEW p \in Names, NEW r \in Names
  PROVE  TypeAt(S, T, p \o r) = TypeAt(S, TypeAt(S, T, p), r)
<1> DEFINE c == p \o r
           M == TypeAt(S, T, p)
<1>0. c \in Names
  BY ConcatFacts
<1> DEFINE G == {k \in Nat : k <= Len(r) =>
                    TypeAt(S, T, Prefix(c, Len(p) + k)) = TypeAt(S, M, Prefix(r, k))}
<1>1. /\ Len(c) = Len(p) + Len(r) /\ Len(p) \in Nat /\ Len(r) \in Nat
      /\ Prefix(c, Len(p)) = p
  <2>1. /\ Len(p \o r) = Len(p) + Len(r) /\ Len(p) \in Nat /\ Len(r) \in Nat
        /\ \A k \in 0..Len(p) : Prefix(p \o r, k) = Prefix(p, k)
    BY ConcatFacts
  <2>2. Len(p) \in 0..Len(p)
    BY <2>1
  <2> QED BY <2>1, <2>2, PrefixOfPrefix
<1>2. \A i \in 1..Len(p) + Len(r) : c[i] = IF i <= Len(p) THEN p[i] ELSE r[i - Len(p)]
  BY ConcatProperties DEF Names
<1>7. M = TypeAt(S, T, p)
  OBVIOUS
<1> HIDE DEF c, M
<1>3. 0 \in G
  <2>1. TypeAt(S, M, Prefix(r, 0)) = M
    BY TypeRoot
  <2>2. Len(p) + 0 = Len(p)
    BY <1>1
  <2>3. TypeAt(S, T, Prefix(c, Len(p) + 0)) = M
    BY <1>1, <1>7, <2>2
  <2> QED BY <2>1, <2>3
<1>4. ASSUME NEW k \in Nat, k \in G PROVE k + 1 \in G
  <2>1. SUFFICES ASSUME k + 1 <= Len(r)
                 PROVE  TypeAt(S, T, Prefix(c, Len(p) + (k + 1))) = TypeAt(S, M, Prefix(r, k + 1))
    OBVIOUS
  <2>2. PICK i \in Nat : i = Len(p) + k
    BY <1>1
  <2>3. /\ Len(p) + (k + 1) = i + 1 /\ i + 1 <= Len(c)
        /\ i + 1 \in 1..Len(p) + Len(r) /\ ~(i + 1 <= Len(p)) /\ i + 1 - Len(p) = k + 1
    BY <1>1, <2>1, <2>2
  <2>4. TypeAt(S, T, Prefix(c, i)) = TypeAt(S, M, Prefix(r, k))
    BY <1>1, <1>4, <2>1, <2>2
  <2> HIDE DEF G
  <2>5. c[i + 1] = r[k + 1]
    <3>1. c[i + 1] = r[i + 1 - Len(p)]
      BY <1>2, <2>3
    <3> QED BY <2>3, <3>1
  <2>6. TypeAt(S, T, Prefix(c, i + 1)) = Member(S, TypeAt(S, T, Prefix(c, i)), c[i + 1])
    BY <1>0, <2>3, TypeStep
  <2>7. TypeAt(S, M, Prefix(r, k + 1)) = Member(S, TypeAt(S, M, Prefix(r, k)), r[k + 1])
    BY <2>1, TypeStep
  <2> QED BY <2>3, <2>4, <2>5, <2>6, <2>7
<1>5. G = Nat
  <2> HIDE DEF G
  <2>1. G \in SUBSET Nat
    BY DEF G
  <2> QED BY <1>3, <1>4, <2>1, NatSetInduction
<1>6. TypeAt(S, T, Prefix(c, Len(p) + Len(r))) = TypeAt(S, M, Prefix(r, Len(r)))
  <2>1. Len(r) \in G
    BY <1>1, <1>5
  <2> QED BY <1>1, <2>1
<1> QED BY <1>0, <1>1, <1>6, PrefixOfPrefix DEF c, M

\* The type of a T itself, of a member of it, of a member of what is in it,
\* and of what is in a member.
LEMMA TypeOfAll == ASSUME NEW S, NEW T PROVE TypeAt(S, T, << >>) = T
<1>1. << >> \in Names
  BY DEF Names
<1>2. Prefix(<< >>, 0) = << >>
  BY <1>1, PrefixOfPrefix
<1> QED BY <1>1, <1>2, TypeRoot

LEMMA TypeOfMember ==
  ASSUME NEW S, NEW T, NEW n \in Name
  PROVE  TypeAt(S, T, <<n>>) = Member(S, T, n)
<1> DEFINE s == <<n>>
<1>1. s \in Names /\ Len(s) = 1 /\ s[1] = n
  BY OneName
<1> HIDE DEF s
<1>2. 0 + 1 = 1 /\ 0 + 1 <= Len(s)
  BY <1>1
<1>3. Prefix(s, 1) = s /\ Prefix(s, 0) = << >>
  BY <1>1, PrefixOfPrefix
<1>4. TypeAt(S, T, Prefix(s, 0)) = T
  BY <1>1, TypeRoot
<1>5. TypeAt(S, T, Prefix(s, 0 + 1)) = Member(S, TypeAt(S, T, Prefix(s, 0)), s[0 + 1])
  BY <1>1, <1>2, TypeStep
<1> QED BY <1>1, <1>2, <1>3, <1>4, <1>5 DEF s

LEMMA TypeOfLast ==
  ASSUME NEW S, NEW T, NEW p \in Names, NEW n \in Name
  PROVE  /\ p \o <<n>> \in Names
         /\ TypeAt(S, T, p \o <<n>>) = Member(S, TypeAt(S, T, p), n)
<1>1. <<n>> \in Names
  BY OneName
<1>2. TypeAt(S, T, p \o <<n>>) = TypeAt(S, TypeAt(S, T, p), <<n>>)
  BY <1>1, TypeAlong
<1> QED BY <1>1, <1>2, TypeOfMember, ConcatFacts

LEMMA TypeOfInner ==
  ASSUME NEW S, NEW T, NEW n \in Name, NEW r \in Names
  PROVE  /\ <<n>> \o r \in Names
         /\ TypeAt(S, T, <<n>> \o r) = TypeAt(S, Member(S, T, n), r)
<1>1. <<n>> \in Names
  BY OneName
<1>2. TypeAt(S, T, <<n>> \o r) = TypeAt(S, TypeAt(S, T, <<n>>), r)
  BY <1>1, TypeAlong
<1> QED BY <1>1, <1>2, TypeOfMember, ConcatFacts

-----------------------------------------------------------------------------
(* The tables.                                                             *)

\* The types that a frame of the server can come to, and those that are
\* objects or arrays.
ServerTypes == DOMAIN UStruct \cup DOMAIN KindOf \cup {"strings", "assets", "counts"}
                 \cup {"nothing", "below a scalar"}
Proper == DOMAIN ListOf \cup DOMAIN MapOf \cup DOMAIN UStruct

\* Both ends have the same structs for the server's messages.
LEMMA SameStructs ==
  /\ DOMAIN UStruct = {"Vec2", "Transform", "AssetEntry", "Stats", "plan", "chunk", "complete", "error"}
  /\ DOMAIN UStruct \subseteq DOMAIN GoStruct
  /\ \A T \in DOMAIN UStruct : UStruct[T] = GoStruct[T]
<1>1. DOMAIN UParts = {"Vec2", "Transform", "AssetEntry"}
  BY DEF UParts
<1>2. DOMAIN UMessages = {"Stats", "plan", "chunk", "complete", "error"}
  BY DEF UMessages
<1>3. DOMAIN UStruct = DOMAIN UParts \cup DOMAIN UMessages
  BY DEF UStruct
<1>4. /\ DOMAIN GoStruct = {"Vec2", "Bounds", "Transform", "AssetEntry", "ManifestEntry", "Stats",
                            "hello", "generate", "plan", "chunk", "complete", "error", "cancel"}
  BY DEF GoStruct
<1>5. \A T \in DOMAIN UParts : UParts[T] = GoStruct[T]
  BY <1>1 DEF UParts, GoStruct
<1>6. \A T \in DOMAIN UMessages : UMessages[T] = GoStruct[T]
  BY <1>2 DEF UMessages, GoStruct
<1>7. \A T \in DOMAIN UStruct : UStruct[T] = GoStruct[T]
  BY <1>5, <1>6 DEF UStruct
<1> QED BY <1>1, <1>2, <1>3, <1>4, <1>7

\* The fields of those structs.
LEMMA ServerFields ==
  \A T \in DOMAIN UStruct : \A n \in DOMAIN GoStruct[T] :
      GoStruct[T][n] \in ServerTypes \ {"nothing", "below a scalar"}
<1>1. ServerTypes \ {"nothing", "below a scalar"} =
        {"Vec2", "Transform", "AssetEntry", "Stats", "plan", "chunk", "complete", "error",
         "string", "bool", "int", "float", "strings", "assets", "counts"}
  BY SameStructs DEF ServerTypes, KindOf
<1>2. \A n \in DOMAIN GoStruct["Vec2"] : GoStruct["Vec2"][n] = "float"
  BY DEF GoStruct
<1>3. \A n \in DOMAIN GoStruct["Transform"] : GoStruct["Transform"][n] \in {"Vec2", "float"}
  BY DEF GoStruct
<1>4. \A n \in DOMAIN GoStruct["AssetEntry"] :
         GoStruct["AssetEntry"][n] \in {"string", "Transform", "bool", "strings"}
  BY DEF GoStruct
<1>5. \A n \in DOMAIN GoStruct["Stats"] : GoStruct["Stats"][n] = "int"
  BY DEF GoStruct
<1>6. \A n \in DOMAIN GoStruct["plan"] : GoStruct["plan"][n] \in {"int", "string", "counts"}
  BY DEF GoStruct
<1>7. \A n \in DOMAIN GoStruct["chunk"] : GoStruct["chunk"][n] \in {"int", "string", "assets"}
  BY DEF GoStruct
<1>8. \A n \in DOMAIN GoStruct["complete"] : GoStruct["complete"][n] \in {"int", "string", "Stats"}
  BY DEF GoStruct
<1>9. \A n \in DOMAIN GoStruct["error"] : GoStruct["error"][n] \in {"int", "string", "bool"}
  BY DEF GoStruct
<1> SUFFICES ASSUME NEW T \in DOMAIN UStruct, NEW n \in DOMAIN GoStruct[T]
             PROVE  GoStruct[T][n] \in {"Vec2", "Transform", "AssetEntry", "Stats", "plan", "chunk",
                       "complete", "error", "string", "bool", "int", "float", "strings", "assets", "counts"}
  BY <1>1
<1>10. CASE T \in {"Vec2", "Transform", "AssetEntry", "Stats"}
  BY <1>2, <1>3, <1>4, <1>5, <1>10
<1>11. CASE T \in {"plan", "chunk", "complete", "error"}
  BY <1>6, <1>7, <1>8, <1>9, <1>11
<1> QED BY <1>10, <1>11, SameStructs

\* Which types have which kinds, and which types have members.
LEMMA Kinds ==
  /\ DOMAIN KindOf = {"string", "bool", "int", "float"}
  /\ DOMAIN ListOf = {"strings", "assets"} /\ DOMAIN MapOf = {"manifest", "counts"}
  /\ ListOf["strings"] = "string" /\ ListOf["assets"] = "AssetEntry"
  /\ MapOf["manifest"] = "ManifestEntry" /\ MapOf["counts"] = "int"
  /\ {"nothing", "below a scalar"} \cap (DOMAIN KindOf \cup DOMAIN GoStruct) = {}
  /\ (DOMAIN KindOf \cup DOMAIN ListOf \cup DOMAIN MapOf) \cap DOMAIN GoStruct = {}
  /\ KindOf["string"] = "string" /\ KindOf["bool"] = "bool"
  /\ KindOf["int"] = "number" /\ KindOf["float"] = "number"
BY DEF KindOf, ListOf, MapOf, GoStruct

\* The kind of JSON of each of the server's types.
LEMMA KindOfType ==
  /\ \A T \in {"nothing", "below a scalar"} :
        JsonKind(UStruct, T) = "none" /\ JsonKind(GoStruct, T) = "none"
  /\ \A T \in DOMAIN ListOf : JsonKind(UStruct, T) = "array" /\ JsonKind(GoStruct, T) = "array"
  /\ \A T \in DOMAIN MapOf \cup DOMAIN UStruct :
        JsonKind(UStruct, T) = "object" /\ JsonKind(GoStruct, T) = "object"
  /\ \A T \in DOMAIN KindOf : /\ JsonKind(UStruct, T) = KindOf[T] /\ JsonKind(GoStruct, T) = KindOf[T]
                              /\ KindOf[T] \in {"string", "bool", "number"}
  /\ \A T \in DOMAIN GoStruct : JsonKind(GoStruct, T) = "object"
BY Kinds, SameStructs DEF JsonKind

\* A member of one of the server's types is the same at both ends, and one of
\* them again.
LEMMA SameMember ==
  ASSUME NEW T \in ServerTypes, NEW n
  PROVE  /\ Member(UStruct, T, n) = Member(GoStruct, T, n)
         /\ Member(UStruct, T, n) \in ServerTypes
<1>1. CASE T \in DOMAIN ListOf \cup DOMAIN MapOf
  <2>1. T \in {"strings", "assets", "counts"}
    BY <1>1, Kinds, SameStructs DEF ServerTypes
  <2> QED BY <2>1, Kinds, SameStructs DEF Member, ServerTypes
<1>2. CASE T \in DOMAIN UStruct
  <2>1. /\ T \notin DOMAIN ListOf /\ T \notin DOMAIN MapOf /\ T # "nothing"
        /\ T \in DOMAIN GoStruct /\ UStruct[T] = GoStruct[T]
    BY <1>2, Kinds, SameStructs
  <2>2. Member(UStruct, T, n) = IF n \in DOMAIN GoStruct[T] THEN GoStruct[T][n] ELSE "nothing"
    BY <1>2, <2>1 DEF Member
  <2>3. Member(GoStruct, T, n) = IF n \in DOMAIN GoStruct[T] THEN GoStruct[T][n] ELSE "nothing"
    BY <1>2, <2>1 DEF Member
  <2>4. "nothing" \in ServerTypes
    BY DEF ServerTypes
  <2>5. n \in DOMAIN GoStruct[T] => GoStruct[T][n] \in ServerTypes
    BY <1>2, ServerFields
  <2> QED BY <2>2, <2>3, <2>4, <2>5
<1>3. CASE T \notin DOMAIN ListOf \cup DOMAIN MapOf \cup DOMAIN UStruct
  <2>1. T \in {"nothing", "below a scalar"} \cup DOMAIN KindOf
    BY <1>3, Kinds DEF ServerTypes
  <2>2. T \notin DOMAIN GoStruct
    BY <2>1, Kinds
  <2> QED BY <1>3, <2>2 DEF Member, ServerTypes
<1> QED BY <1>1, <1>2, <1>3

\* What has members of a type that has some, has members.
LEMMA ProperMember ==
  ASSUME NEW T \in ServerTypes, NEW n
  PROVE  /\ Member(UStruct, T, n) \in Proper => T \in Proper
         /\ Member(UStruct, T, n) \in DOMAIN ListOf => T \in DOMAIN UStruct
         /\ T # "nothing" /\ Member(UStruct, T, n) = "nothing" => T \in DOMAIN UStruct
<1>1. CASE T \in DOMAIN ListOf \cup DOMAIN MapOf
  <2>1. T \in {"strings", "assets", "counts"}
    BY <1>1, Kinds, SameStructs DEF ServerTypes
  <2>2. Member(UStruct, T, n) \in {"string", "AssetEntry", "int"}
    <3>1. /\ Member(UStruct, "strings", n) = "string" /\ Member(UStruct, "assets", n) = "AssetEntry"
          /\ Member(UStruct, "counts", n) = "int"
      BY Kinds, SameStructs DEF Member
    <3> QED BY <2>1, <3>1
  <2> QED BY <1>1, <2>2, Kinds DEF Proper
<1>2. CASE T \in DOMAIN UStruct
  BY <1>2 DEF Proper
<1>3. CASE T \notin Proper
  <2>1. Member(UStruct, T, n) = IF T = "nothing" THEN "nothing" ELSE "below a scalar"
    BY <1>3 DEF Member, Proper
  <2> QED BY <2>1, Kinds, SameStructs DEF Proper
<1> QED BY <1>1, <1>2, <1>3 DEF Proper

\* The types of a frame of the server are the same at both ends.
LEMMA SameTypes ==
  ASSUME NEW T \in ServerKinds, NEW p \in Names
  PROVE  TypeAt(UStruct, T, p) = TypeAt(GoStruct, T, p) /\ TypeAt(UStruct, T, p) \in ServerTypes
<1> DEFINE G == {k \in Nat : k <= Len(p) =>
                    /\ TypeAt(UStruct, T, Prefix(p, k)) = TypeAt(GoStruct, T, Prefix(p, k))
                    /\ TypeAt(UStruct, T, Prefix(p, k)) \in ServerTypes}
<1>1. 0 \in G
  <2>1. T \in ServerTypes
    BY SameStructs DEF ServerKinds, ServerTypes
  <2> QED BY <2>1, TypeRoot
<1>2. ASSUME NEW k \in Nat, k \in G PROVE k + 1 \in G
  <2>1. SUFFICES ASSUME k + 1 <= Len(p)
                 PROVE  /\ TypeAt(UStruct, T, Prefix(p, k + 1)) = TypeAt(GoStruct, T, Prefix(p, k + 1))
                        /\ TypeAt(UStruct, T, Prefix(p, k + 1)) \in ServerTypes
    OBVIOUS
  <2>2. k <= Len(p)
    BY <2>1, PrefixOfPrefix
  <2>3. /\ TypeAt(UStruct, T, Prefix(p, k)) = TypeAt(GoStruct, T, Prefix(p, k))
        /\ TypeAt(UStruct, T, Prefix(p, k)) \in ServerTypes
    BY <1>2, <2>2
  <2>4. /\ TypeAt(UStruct, T, Prefix(p, k + 1)) = Member(UStruct, TypeAt(UStruct, T, Prefix(p, k)), p[k + 1])
        /\ TypeAt(GoStruct, T, Prefix(p, k + 1)) = Member(GoStruct, TypeAt(GoStruct, T, Prefix(p, k)), p[k + 1])
    BY <2>1, TypeStep
  <2> HIDE DEF G
  <2> QED BY <2>3, <2>4, SameMember
<1>3. G = Nat
  <2> HIDE DEF G
  <2>1. G \in SUBSET Nat
    BY DEF G
  <2> QED BY <1>1, <1>2, <2>1, NatSetInduction
<1>4. Len(p) \in G /\ Len(p) <= Len(p)
  <2> HIDE DEF G
  <2> QED BY <1>3, PrefixOfPrefix
<1>5. TypeAt(UStruct, T, Prefix(p, Len(p))) = TypeAt(GoStruct, T, Prefix(p, Len(p)))
      /\ TypeAt(UStruct, T, Prefix(p, Len(p))) \in ServerTypes
  BY <1>4
<1> QED BY <1>5, PrefixOfPrefix

-----------------------------------------------------------------------------
(* What the decoders accept.                                               *)

\* The shape of a value: what is on the way to a position is an object or an
\* array of it.
IsValue(v) ==
    /\ DOMAIN v \subseteq Names /\ << >> \in DOMAIN v
    /\ \A p \in DOMAIN v : \A k \in Nat : k < Len(p) =>
          Prefix(p, k) \in DOMAIN v /\ v[Prefix(p, k)].kind \in {"object", "array"}

LEMMA OnTheWay ==
  ASSUME NEW v, IsValue(v), NEW p \in DOMAIN v, NEW k \in Nat, k <= Len(p)
  PROVE  Prefix(p, k) \in DOMAIN v
<1>1. p \in Names /\ Len(p) \in Nat /\ Prefix(p, Len(p)) = p
  BY PrefixOfPrefix DEF IsValue
<1>2. k < Len(p) \/ k = Len(p)
  BY <1>1
<1> QED BY <1>1, <1>2 DEF IsValue

\* The types on the way to what has members, have members.
LEMMA ProperOnTheWay ==
  ASSUME NEW T \in ServerKinds, NEW p \in Names, NEW j \in Nat, j <= Len(p),
         TypeAt(UStruct, T, Prefix(p, j)) \in Proper
  PROVE  \A k \in Nat : k <= j => TypeAt(UStruct, T, Prefix(p, k)) \in Proper
<1> DEFINE G == {d \in Nat : \A k \in Nat : k + d = j => TypeAt(UStruct, T, Prefix(p, k)) \in Proper}
<1>0. Len(p) \in Nat
  BY PrefixOfPrefix
<1>1. 0 \in G
  OBVIOUS
<1>2. ASSUME NEW d \in Nat, d \in G PROVE d + 1 \in G
  <2>1. SUFFICES ASSUME NEW k \in Nat, k + (d + 1) = j PROVE TypeAt(UStruct, T, Prefix(p, k)) \in Proper
    OBVIOUS
  <2>2. k + 1 \in Nat /\ (k + 1) + d = j /\ k + 1 <= Len(p) /\ k \in 0..Len(p)
    BY <1>0, <2>1
  <2>3. TypeAt(UStruct, T, Prefix(p, k + 1)) \in Proper
    BY <1>2, <2>2
  <2> HIDE DEF G
  <2>4. TypeAt(UStruct, T, Prefix(p, k + 1)) = Member(UStruct, TypeAt(UStruct, T, Prefix(p, k)), p[k + 1])
    BY <2>2, TypeStep
  <2>5. TypeAt(UStruct, T, Prefix(p, k)) \in ServerTypes
    <3>1. Prefix(p, k) \in Names
      BY <2>2, PrefixFacts
    <3> QED BY <3>1, SameTypes
  <2> QED BY <2>3, <2>4, <2>5, ProperMember
<1>3. G = Nat
  <2> HIDE DEF G
  <2>1. G \in SUBSET Nat
    BY DEF G
  <2> QED BY <1>1, <1>2, <2>1, NatSetInduction
<1> QED
  <2> SUFFICES ASSUME NEW k \in Nat, k <= j PROVE TypeAt(UStruct, T, Prefix(p, k)) \in Proper
    OBVIOUS
  <2>1. j - k \in Nat /\ k + (j - k) = j
    OBVIOUS
  <2>2. j - k \in G
    <3> HIDE DEF G
    <3> QED BY <1>3, <2>1
  <2> QED BY <2>1, <2>2

\* What an import makes of an object or an array on the way.
LEMMA ImportedProper ==
  ASSUME NEW T \in ServerKinds, NEW v, IsValue(v), Imports(T, v),
         NEW q \in DOMAIN v, TypeAt(UStruct, T, q) \in Proper, v[q].kind \in {"object", "array"}
  PROVE  /\ v[q].kind = JsonKind(UStruct, TypeAt(UStruct, T, q))
         /\ q \in DOMAIN Imported(T, v) /\ Imported(T, v)[q].kind = v[q].kind
         /\ v[q].kind = "array" <=> TypeAt(UStruct, T, q) \in DOMAIN ListOf
<1> DEFINE U == TypeAt(UStruct, T, q)
<1>1. U \in Proper /\ U \in DOMAIN ListOf \cup DOMAIN MapOf \cup DOMAIN UStruct
  BY DEF Proper
<1>2. v[q].kind = JsonKind(UStruct, U)
  BY <1>1 DEF Imports
<1> HIDE DEF U
<1>3. JsonKind(UStruct, U) # "none" /\ (JsonKind(UStruct, U) = "array" <=> U \in DOMAIN ListOf)
  BY <1>1, KindOfType, Kinds, SameStructs
<1>4. U # "int"
  BY <1>1, Kinds, SameStructs
<1>5. Kept(T, v, q)
  BY <1>2, <1>3 DEF Kept, U
<1>6. q \in DOMAIN Imported(T, v) /\ Imported(T, v)[q] = v[q]
  <2>1. Imported(T, v)[q] = CASE v[q].kind # JsonKind(UStruct, U) -> Zero(UStruct, U)
                              [] U = "int" /\ v[q].kind = "number" -> [v[q] EXCEPT !.num = Round(@)]
                              [] OTHER -> v[q]
    BY <1>5 DEF Imported, U
  <2>2. q \in DOMAIN Imported(T, v)
    BY <1>5 DEF Imported
  <2> QED BY <1>2, <1>4, <2>1, <2>2
<1> QED BY <1>2, <1>3, <1>6 DEF U

\* What the plugin accepts has no field that the message lacks.
LEMMA StrictImport ==
  ASSUME NEW T \in ServerKinds, NEW v, IsValue(v), StrictDeserialize(T, v), NEW p \in DOMAIN v
  PROVE  TypeAt(UStruct, T, p) # "nothing"
<1> DEFINE n == Len(p)
           Type(k) == TypeAt(UStruct, T, Prefix(p, k))
           N == {k \in Nat : k <= n /\ Type(k) = "nothing"}
<1>1. p \in Names /\ n \in Nat /\ Prefix(p, n) = p
  BY PrefixOfPrefix DEF IsValue
<1>2. SUFFICES ASSUME TypeAt(UStruct, T, p) = "nothing" PROVE FALSE
  OBVIOUS
<1>3. PICK m \in N : \A k \in N : m <= k
  <2>1. n \in N
    BY <1>1, <1>2
  <2> HIDE DEF N
  <2> QED BY <2>1, LeastNat DEF N
<1>4. m # 0
  <2>1. Type(0) = T
    BY <1>1, TypeRoot
  <2> QED BY <1>3, <2>1 DEF ServerKinds
<1>5. PICK j \in Nat : m = j + 1
  <2>1. m - 1 \in Nat /\ m = m - 1 + 1
    BY <1>3, <1>4
  <2> QED BY <2>1
<1>6. /\ j + 1 <= n /\ j <= n /\ Type(j + 1) = "nothing" /\ Type(j) # "nothing"
      /\ j + 1 \in 0..n /\ j \in 0..n
  <2>1. j + 1 <= n /\ j <= n /\ ~(j + 1 <= j)
    BY <1>1, <1>3, <1>5
  <2> QED BY <1>1, <1>3, <1>5, <2>1
<1> DEFINE q == Prefix(p, j + 1)
           d == Prefix(p, j)
<1>7. q \in DOMAIN v /\ q \in Names /\ Len(q) = j + 1 /\ Parent(q) = d /\ q # << >>
  <2>1. q \in DOMAIN v
    BY <1>6, OnTheWay
  <2>2. q \in Names /\ Len(q) = j + 1
    BY <1>1, <1>6, PrefixFacts
  <2>3. Prefix(q, j) = d
    <3>1. j <= j + 1
      OBVIOUS
    <3> QED BY <1>1, <1>6, <3>1, PrefixOfPrefix
  <2>4. Len(q) - 1 = j /\ Len(q) # 0
    BY <2>2
  <2> HIDE DEF q
  <2> QED BY <2>1, <2>2, <2>3, <2>4 DEF Parent
<1>8. Type(j) \in DOMAIN UStruct
  <2>1. Type(j + 1) = Member(UStruct, Type(j), p[j + 1])
    BY <1>1, <1>6, TypeStep
  <2>2. Type(j) \in ServerTypes
    <3>1. d \in Names
      BY <1>1, <1>6, PrefixFacts
    <3> QED BY <3>1, SameTypes
  <2> HIDE DEF Type
  <2> QED BY <1>6, <2>1, <2>2, ProperMember
<1>9. \A k \in Nat : k <= j => Type(k) \in Proper
  <2>1. Type(j) \in Proper
    BY <1>8 DEF Proper
  <2> QED BY <1>1, <1>6, <2>1, ProperOnTheWay
<1>10. \A k \in Nat : k <= j =>
          /\ Prefix(p, k) \in DOMAIN v /\ v[Prefix(p, k)].kind \in {"object", "array"}
  BY <1>1, <1>6 DEF IsValue
<1>11. \A k \in Nat : k <= j =>
          /\ Prefix(p, k) \in DOMAIN Imported(T, v)
          /\ Imported(T, v)[Prefix(p, k)].kind = v[Prefix(p, k)].kind
          /\ v[Prefix(p, k)].kind = "array" <=> Type(k) \in DOMAIN ListOf
  <2> SUFFICES ASSUME NEW k \in Nat, k <= j
               PROVE  /\ Prefix(p, k) \in DOMAIN Imported(T, v)
                      /\ Imported(T, v)[Prefix(p, k)].kind = v[Prefix(p, k)].kind
                      /\ v[Prefix(p, k)].kind = "array" <=> Type(k) \in DOMAIN ListOf
    OBVIOUS
  <2> QED BY <1>9, <1>10, ImportedProper DEF StrictDeserialize
<1>12. \A k \in Nat : (k <= j /\ v[Prefix(p, k)].kind = "array")
                         => k > 0 /\ Type(k - 1) \in DOMAIN UStruct
  <2> SUFFICES ASSUME NEW k \in Nat, k <= j, v[Prefix(p, k)].kind = "array"
               PROVE  k > 0 /\ Type(k - 1) \in DOMAIN UStruct
    OBVIOUS
  <2>1. Type(k) \in DOMAIN ListOf
    BY <1>11
  <2>2. k # 0
    <3>1. Type(0) = T
      BY <1>1, TypeRoot
    <3> QED BY <2>1, <3>1, Kinds DEF ServerKinds
  <2>3. PICK i \in Nat : k = i + 1
    <3>1. k - 1 \in Nat /\ k = k - 1 + 1
      BY <2>2
    <3> QED BY <3>1
  <2>4. i + 1 <= n /\ i \in 0..n
    BY <1>1, <1>6, <2>3
  <2>5. Type(i + 1) = Member(UStruct, Type(i), p[i + 1])
    BY <1>1, <2>4, TypeStep
  <2>6. Type(i) \in ServerTypes
    <3>1. Prefix(p, i) \in Names
      BY <1>1, <2>4, PrefixFacts
    <3> QED BY <3>1, SameTypes
  <2> HIDE DEF Type
  <2>7. Type(i) \in DOMAIN UStruct
    BY <2>1, <2>3, <2>5, <2>6, ProperMember
  <2> QED BY <2>2, <2>3, <2>7
<1>13. \A k \in Nat : k <= j /\ Type(k) \in DOMAIN UStruct => v[Prefix(p, k)].kind = "object"
  <2> SUFFICES ASSUME NEW k \in Nat, k <= j, Type(k) \in DOMAIN UStruct
               PROVE  v[Prefix(p, k)].kind = "object"
    OBVIOUS
  <2>1. Type(k) \notin DOMAIN ListOf
    BY Kinds, SameStructs
  <2> QED BY <1>10, <1>11, <2>1
<1>14. Compared(v, Imported(T, v), d)
  <2>1. d \in Names /\ Len(d) = j
    BY <1>1, <1>6, PrefixFacts
  <2>2. \A k \in Nat : k <= j => Prefix(d, k) = Prefix(p, k)
    BY <1>1, <1>6, PrefixOfPrefix
  <2> HIDE DEF d
  <2> SUFFICES ASSUME NEW k \in 0..Len(d)
               PROVE  /\ Prefix(d, k) \in DOMAIN Imported(T, v)
                      /\ Imported(T, v)[Prefix(d, k)].kind = v[Prefix(d, k)].kind
                      /\ \/ v[Prefix(d, k)].kind = "object"
                         \/ /\ v[Prefix(d, k)].kind = "array" /\ k > 0
                            /\ v[Prefix(d, k - 1)].kind = "object"
    BY DEF Compared
  <2>3. k \in Nat /\ k <= j
    BY <2>1
  <2>4. Prefix(d, k) = Prefix(p, k)
    BY <2>2, <2>3
  <2>5. CASE v[Prefix(p, k)].kind = "array"
    <3>1. k > 0 /\ Type(k - 1) \in DOMAIN UStruct
      BY <1>12, <2>3, <2>5
    <3>2. k - 1 \in Nat /\ k - 1 <= j
      BY <2>3, <3>1
    <3>3. v[Prefix(p, k - 1)].kind = "object"
      BY <1>13, <3>1, <3>2
    <3>4. Prefix(d, k - 1) = Prefix(p, k - 1)
      BY <2>2, <3>2
    <3> QED BY <1>11, <2>3, <2>4, <2>5, <3>1, <3>3, <3>4
  <2>6. CASE v[Prefix(p, k)].kind # "array"
    BY <1>10, <1>11, <2>3, <2>4, <2>6
  <2> QED BY <2>5, <2>6
<1>15. q \notin DOMAIN Imported(T, v)
  <2>1. ~Kept(T, v, q)
    BY <1>6, KindOfType DEF Kept
  <2> QED BY <2>1 DEF Imported
<1>16. v[Parent(q)].kind = "object"
  BY <1>7, <1>8, <1>13
<1> HIDE DEF q, d
<1>17. HasUnknownField(v, Imported(T, v))
  BY <1>7, <1>14, <1>15, <1>16 DEF HasUnknownField
<1> QED BY <1>17 DEF StrictDeserialize

\* What the server accepts has neither such a field nor anything in a scalar.
LEMMA StrictDecode ==
  ASSUME NEW T, NEW v, GoFits(T, v), NEW p \in DOMAIN v
  PROVE  TypeAt(GoStruct, T, p) \notin {"nothing", "below a scalar"}
BY KindOfType DEF GoFits

-----------------------------------------------------------------------------
(* How values are built and changed.                                       *)

\* A name in front of a position.
LEMMA HeadTail ==
  ASSUME NEW n \in Name, NEW r \in Names
  PROVE  /\ <<n>> \o r \in Names /\ <<n>> \o r # << >>
         /\ Head(<<n>> \o r) = n /\ Tail(<<n>> \o r) = r
<1> DEFINE s == <<n>>
           c == s \o r
<1>1. s \in Names /\ Len(s) = 1 /\ s[1] = n
  BY OneName
<1> HIDE DEF s
<1>2. /\ c \in Names /\ Len(c) = 1 + Len(r) /\ Len(r) \in Nat
      /\ SubSeq(c, 1 + 1, Len(c)) = r
  BY <1>1, ConcatFacts
<1>3. c[1] = n
  <2>1. \A i \in 1..Len(s) + Len(r) : c[i] = IF i <= Len(s) THEN s[i] ELSE r[i - Len(s)]
    BY <1>1, ConcatProperties DEF Names
  <2>2. 1 \in 1..Len(s) + Len(r) /\ 1 <= Len(s)
    BY <1>1, <1>2
  <2> HIDE DEF c
  <2> QED BY <1>1, <2>1, <2>2
<1> HIDE DEF c
<1>4. c # << >>
  <2>1. Len(c) # 0
    BY <1>2
  <2> QED BY <2>1
<1>5. Head(c) = n
  BY <1>3
<1>6. Tail(c) = r
  <2>1. Tail(c) = SubSeq(c, 2, Len(c))
    BY <1>2, <1>4, TailIsSubSeq DEF Names
  <2> QED BY <1>2, <2>1
<1> QED BY <1>2, <1>4, <1>5, <1>6 DEF c, s

\* A record.
LEMMA NodeFacts ==
  ASSUME NEW k, NEW t, NEW n
  PROVE  Node(k, t, n).kind = k /\ Node(k, t, n).text = t /\ Node(k, t, n).num = n
BY DEF Node

\* The members of an object or an array, by name.
Members(f) == DOMAIN f \subseteq Name /\ \A n \in DOMAIN f : DOMAIN f[n] \subseteq Names

\* The positions of an object or an array, and what stands there.
LEMMA TreeRoot ==
  ASSUME NEW kind, NEW f
  PROVE  << >> \in DOMAIN Tree(kind, f) /\ Tree(kind, f)[<< >>] = Node(kind, NoText, 0)
BY DEF Tree

LEMMA TreeMember ==
  ASSUME NEW kind, NEW f, Members(f), NEW n \in DOMAIN f, NEW q \in DOMAIN f[n]
  PROVE  <<n>> \o q \in DOMAIN Tree(kind, f) /\ Tree(kind, f)[<<n>> \o q] = f[n][q]
<1> DEFINE D == {<< >>} \cup UNION {{<<m>> \o r : r \in DOMAIN f[m]} : m \in DOMAIN f}
           c == <<n>> \o q
<1>1. DOMAIN Tree(kind, f) = D
  BY DEF Tree
<1>2. \A p \in D : Tree(kind, f)[p] = IF p = << >> THEN Node(kind, NoText, 0) ELSE f[Head(p)][Tail(p)]
  BY DEF Tree
<1>3. c \in D
  OBVIOUS
<1>4. n \in Name /\ q \in Names
  BY DEF Members
<1>5. c # << >> /\ Head(c) = n /\ Tail(c) = q
  BY <1>4, HeadTail
<1> HIDE DEF c, D
<1>6. Tree(kind, f)[c] = f[n][q]
  BY <1>2, <1>3, <1>5
<1> QED BY <1>1, <1>3, <1>6 DEF c

LEMMA TreePositions ==
  ASSUME NEW kind, NEW f, NEW G, << >> \in G,
         \A n \in DOMAIN f : \A q \in DOMAIN f[n] : <<n>> \o q \in G
  PROVE  DOMAIN Tree(kind, f) \subseteq G
<1> SUFFICES ASSUME NEW p \in DOMAIN Tree(kind, f), p # << >> PROVE p \in G
  OBVIOUS
<1>1. \E n \in DOMAIN f : \E q \in DOMAIN f[n] : p = <<n>> \o q
  BY DEF Tree
<1>2. PICK n \in DOMAIN f : \E q \in DOMAIN f[n] : p = <<n>> \o q
  BY <1>1
<1>3. PICK q \in DOMAIN f[n] : p = <<n>> \o q
  BY <1>2
<1> QED BY <1>3

\* The shortest position of a member.
LEMMA MemberAt ==
  ASSUME NEW kind, NEW f, Members(f), NEW n \in DOMAIN f, << >> \in DOMAIN f[n]
  PROVE  <<n>> \in DOMAIN Tree(kind, f) /\ Tree(kind, f)[<<n>>] = f[n][<< >>]
<1> DEFINE e == << >>
<1>1. <<n>> \o e = <<n>>
  <2>1. <<n>> \in Seq(Name)
    BY OneName DEF Names, Members
  <2> QED BY <2>1, ConcatEmptySeq
<1>2. e \in DOMAIN f[n]
  OBVIOUS
<1> HIDE DEF e
<1>3. <<n>> \o e \in DOMAIN Tree(kind, f) /\ Tree(kind, f)[<<n>> \o e] = f[n][e]
  BY <1>2, TreeMember
<1> QED BY <1>1, <1>3 DEF e

\* Scalars, objects and arrays are values.
LEMMA LeafValue ==
  ASSUME NEW node
  PROVE  IsValue(Leaf(node)) /\ DOMAIN Leaf(node) = {<< >>} /\ Leaf(node)[<< >>] = node
<1>1. DOMAIN Leaf(node) = {<< >>} /\ Leaf(node)[<< >>] = node
  BY DEF Leaf
<1>2. << >> \in Names /\ Len(<< >>) = 0
  BY DEF Names
<1> QED BY <1>1, <1>2 DEF IsValue

LEMMA TreeValue ==
  ASSUME NEW kind \in {"object", "array"}, NEW f, DOMAIN f \subseteq Name, \A n \in DOMAIN f : IsValue(f[n])
  PROVE  IsValue(Tree(kind, f))
<1> DEFINE t == Tree(kind, f)
<1>1. /\ << >> \in DOMAIN t /\ t[<< >>] = Node(kind, NoText, 0)
      /\ \A n \in DOMAIN f : \A q \in DOMAIN f[n] : <<n>> \o q \in DOMAIN t /\ t[<<n>> \o q] = f[n][q]
      /\ \A p \in DOMAIN t : p # << >> => \E n \in DOMAIN f : \E q \in DOMAIN f[n] : p = <<n>> \o q
  <2>1. Members(f)
    BY DEF IsValue, Members
  <2>2. << >> \in DOMAIN t /\ t[<< >>] = Node(kind, NoText, 0)
    BY TreeRoot
  <2>3. ASSUME NEW n \in DOMAIN f, NEW q \in DOMAIN f[n]
        PROVE  <<n>> \o q \in DOMAIN t /\ t[<<n>> \o q] = f[n][q]
    BY <2>1, TreeMember
  <2>4. ASSUME NEW p \in DOMAIN t, p # << >> PROVE \E n \in DOMAIN f : \E q \in DOMAIN f[n] : p = <<n>> \o q
    BY <2>4 DEF Tree
  <2> QED BY <2>2, <2>3, <2>4
<1> HIDE DEF t
<1>2. << >> \in Names /\ Len(<< >>) = 0
  BY DEF Names
<1>3. DOMAIN t \subseteq Names
  <2> SUFFICES ASSUME NEW p \in DOMAIN t, p # << >> PROVE p \in Names
    BY <1>2
  <2>1. PICK n \in DOMAIN f : \E q \in DOMAIN f[n] : p = <<n>> \o q
    BY <1>1
  <2>2. PICK q \in DOMAIN f[n] : p = <<n>> \o q
    BY <2>1
  <2>3. n \in Name /\ q \in Names
    BY DEF IsValue
  <2> QED BY <2>2, <2>3, HeadTail
<1>4. ASSUME NEW p \in DOMAIN t, NEW k \in Nat, k < Len(p)
      PROVE  Prefix(p, k) \in DOMAIN t /\ t[Prefix(p, k)].kind \in {"object", "array"}
  <2>1. p # << >>
    BY <1>2, <1>4
  <2>2. PICK n \in DOMAIN f : \E q \in DOMAIN f[n] : p = <<n>> \o q
    BY <1>1, <2>1
  <2>3. PICK q \in DOMAIN f[n] : p = <<n>> \o q
    BY <2>2
  <2>4. n \in Name /\ q \in Names
    BY DEF IsValue
  <2>5. <<n>> \in Names /\ Len(<<n>>) = 1
    BY <2>4, OneName
  <2>6. CASE k = 0
    <3>1. Prefix(p, k) = << >>
      BY <1>3, <2>6, PrefixOfPrefix
    <3>2. t[<< >>].kind = kind
      <4>1. t[<< >>] = Node(kind, NoText, 0)
        BY <1>1
      <4> QED BY <4>1, NodeFacts
    <3> QED BY <1>1, <3>1, <3>2
  <2>7. CASE k # 0
    <3>1. PICK i \in Nat : k = 1 + i
      <4>1. k - 1 \in Nat /\ k = 1 + (k - 1)
        BY <2>7
      <4> QED BY <4>1
    <3>2. Len(p) = 1 + Len(q) /\ Len(q) \in Nat /\ \A j \in 0..Len(q) : Prefix(p, 1 + j) = <<n>> \o Prefix(q, j)
      <4>1. /\ Len(<<n>> \o q) = Len(<<n>>) + Len(q) /\ Len(q) \in Nat
            /\ \A j \in 0..Len(q) : Prefix(<<n>> \o q, Len(<<n>>) + j) = <<n>> \o Prefix(q, j)
        BY <2>4, <2>5, ConcatFacts
      <4> QED BY <2>3, <2>5, <4>1
    <3>3. i < Len(q) /\ i \in 0..Len(q)
      BY <1>4, <3>1, <3>2
    <3>4. Prefix(p, k) = <<n>> \o Prefix(q, i)
      BY <3>1, <3>2, <3>3
    <3>5. Prefix(q, i) \in DOMAIN f[n] /\ f[n][Prefix(q, i)].kind \in {"object", "array"}
      BY <3>3 DEF IsValue
    <3> QED BY <1>1, <3>4, <3>5
  <2> QED BY <2>6, <2>7
<1> QED BY <1>1, <1>3, <1>4 DEF IsValue, t

\* Cutting something out of a value, but not all of it.
LEMMA CutValue ==
  ASSUME NEW v, IsValue(v), NEW p \in DOMAIN v, p # << >>
  PROVE  IsValue(Cut(v, p))
<1>1. /\ DOMAIN Cut(v, p) = DOMAIN v \ Below(v, p)
      /\ \A q \in DOMAIN Cut(v, p) : Cut(v, p)[q] = v[q]
  BY DEF Cut
<1>2. p \in Names /\ Len(p) \in Nat /\ Len(<< >>) = 0 /\ << >> \in DOMAIN v
  BY PrefixOfPrefix DEF IsValue
<1>3. << >> \notin Below(v, p)
  <2>1. Len(p) # 0
    BY <1>2, SameNames DEF Names
  <2> QED BY <1>2, <2>1 DEF Below
<1>4. ASSUME NEW q \in DOMAIN v \ Below(v, p), NEW k \in Nat, k < Len(q)
      PROVE  Prefix(q, k) \in DOMAIN v \ Below(v, p) /\ v[Prefix(q, k)].kind \in {"object", "array"}
  <2>1. q \in Names /\ Len(q) \in Nat /\ k \in 0..Len(q)
    BY <1>4, PrefixOfPrefix DEF IsValue
  <2>2. Prefix(q, k) \in DOMAIN v /\ v[Prefix(q, k)].kind \in {"object", "array"}
    BY <1>4 DEF IsValue
  <2>3. Len(Prefix(q, k)) = k
    BY <2>1, PrefixFacts
  <2>4. ASSUME Prefix(q, k) \in Below(v, p) PROVE FALSE
    <3>1. k >= Len(p) /\ Prefix(Prefix(q, k), Len(p)) = p
      BY <2>3, <2>4 DEF Below
    <3>2. Prefix(q, Len(p)) = p
      BY <1>2, <2>1, <3>1, PrefixOfPrefix
    <3>3. Len(q) >= Len(p)
      BY <1>2, <1>4, <2>1, <3>1
    <3> QED BY <3>2, <3>3 DEF Below
  <2> QED BY <2>2, <2>4
<1>5. DOMAIN Cut(v, p) \subseteq Names /\ << >> \in DOMAIN Cut(v, p)
  BY <1>1, <1>2, <1>3 DEF IsValue
<1>6. ASSUME NEW q \in DOMAIN Cut(v, p), NEW k \in Nat, k < Len(q)
      PROVE  Prefix(q, k) \in DOMAIN Cut(v, p) /\ Cut(v, p)[Prefix(q, k)].kind \in {"object", "array"}
  BY <1>1, <1>4, <1>6
<1> QED BY <1>5, <1>6 DEF IsValue

\* A position is on the way to what is below it.
Open(v, p) == \A k \in Nat : k < Len(p) => Prefix(p, k) \in DOMAIN v /\ v[Prefix(p, k)].kind \in {"object", "array"}

\* Putting a value where there is one, or into an object.
LEMMA PutValue ==
  ASSUME NEW v, IsValue(v), NEW w, IsValue(w), NEW p \in Names, Open(v, p)
  PROVE  IsValue(Put(v, p, w))
<1> DEFINE t == Put(v, p, w)
           rest == DOMAIN v \ Below(v, p)
           Inner(q) == \E r \in DOMAIN w : q = p \o r
<1>1. Len(p) \in Nat /\ Len(<< >>) = 0 /\ << >> \in Names /\ DOMAIN v \subseteq Names /\ DOMAIN w \subseteq Names
  BY PrefixOfPrefix DEF IsValue
<1>2. DOMAIN Cut(v, p) = rest /\ \A q \in rest : Cut(v, p)[q] = v[q]
  BY DEF Cut
<1>3. DOMAIN t = rest \cup {p \o r : r \in DOMAIN w}
  BY <1>2 DEF Put
<1>4. \A q \in DOMAIN t : q \in rest \/ Inner(q)
  BY <1>3
<1>5. \A q \in rest : q \in DOMAIN t /\ t[q] = v[q]
  BY <1>2 DEF Put
<1>6. ASSUME NEW r \in DOMAIN w PROVE p \o r \in DOMAIN t /\ t[p \o r] = w[r]
  <2> DEFINE q == p \o r
  <2>1. q \in DOMAIN t
    BY <1>3
  <2>2. r \in Names
    BY <1>1
  <2>3. /\ Len(q) = Len(p) + Len(r) /\ Len(r) \in Nat /\ Prefix(q, Len(p)) = p
        /\ SubSeq(q, Len(p) + 1, Len(q)) = r
    <3>1. /\ Len(p \o r) = Len(p) + Len(r) /\ Len(r) \in Nat
          /\ \A k \in 0..Len(p) : Prefix(p \o r, k) = Prefix(p, k)
          /\ SubSeq(p \o r, Len(p) + 1, Len(p \o r)) = r
      BY <2>2, ConcatFacts
    <3>2. Len(p) \in 0..Len(p) /\ Prefix(p, Len(p)) = p
      BY <1>1, PrefixOfPrefix
    <3> HIDE DEF rest
    <3> QED BY <3>1, <3>2
  <2> HIDE DEF q
  <2>4. q \notin rest
    <3> SUFFICES ASSUME q \in DOMAIN v PROVE q \in Below(v, p)
      OBVIOUS
    <3>1. Len(q) >= Len(p)
      BY <1>1, <2>3
    <3> QED BY <2>3, <3>1 DEF Below
  <2>5. q \in rest \cup {p \o x : x \in DOMAIN w}
    BY <1>3, <2>1
  <2>6. t[q] = IF q \in rest THEN v[q] ELSE w[SubSeq(q, Len(p) + 1, Len(q))]
    BY <1>2, <2>5 DEF Put
  <2> QED BY <2>1, <2>3, <2>4, <2>6 DEF q
<1> HIDE DEF t, Inner
<1>7. \A q \in rest : \A k \in Nat : k < Len(q) =>
         Prefix(q, k) \in rest /\ v[Prefix(q, k)].kind \in {"object", "array"}
  <2> SUFFICES ASSUME NEW q \in rest, NEW k \in Nat, k < Len(q)
               PROVE  Prefix(q, k) \in rest /\ v[Prefix(q, k)].kind \in {"object", "array"}
    OBVIOUS
  <2>1. q \in Names /\ Len(q) \in Nat /\ k \in 0..Len(q)
    BY <1>1, PrefixOfPrefix
  <2>2. Prefix(q, k) \in DOMAIN v /\ v[Prefix(q, k)].kind \in {"object", "array"}
    BY DEF IsValue
  <2>3. ASSUME Prefix(q, k) \in Below(v, p) PROVE FALSE
    <3>1. Len(Prefix(q, k)) = k
      BY <2>1, PrefixFacts
    <3>2. k >= Len(p) /\ Prefix(Prefix(q, k), Len(p)) = p
      BY <2>3, <3>1 DEF Below
    <3>3. Prefix(q, Len(p)) = p
      BY <1>1, <2>1, <3>2, PrefixOfPrefix
    <3>4. Len(q) >= Len(p)
      BY <1>1, <2>1, <3>2
    <3> QED BY <3>3, <3>4 DEF Below
  <2> QED BY <2>2, <2>3
<1>8. \A k \in Nat : k < Len(p) => Prefix(p, k) \in rest /\ v[Prefix(p, k)].kind \in {"object", "array"}
  <2> SUFFICES ASSUME NEW k \in Nat, k < Len(p)
               PROVE  Prefix(p, k) \in rest /\ v[Prefix(p, k)].kind \in {"object", "array"}
    OBVIOUS
  <2>1. Prefix(p, k) \in DOMAIN v /\ v[Prefix(p, k)].kind \in {"object", "array"}
    BY DEF Open
  <2>2. k \in 0..Len(p)
    BY <1>1
  <2>3. Len(Prefix(p, k)) = k /\ ~(k >= Len(p))
    BY <1>1, <2>2, PrefixFacts
  <2>4. Prefix(p, k) \notin Below(v, p)
    BY <2>3 DEF Below
  <2> QED BY <2>1, <2>4
<1> HIDE DEF rest
<1>9. << >> \in DOMAIN t
  <2>1. CASE Len(p) = 0
    <3>1. p = << >>
      BY <1>1, <2>1, SameNames
    <3>2. << >> \in DOMAIN w
      BY DEF IsValue
    <3> DEFINE e == << >>
    <3>3. p \o e = << >>
      BY <3>1, ConcatEmptySeq, <1>1 DEF Names
    <3>4. e \in DOMAIN w
      BY <3>2
    <3> HIDE DEF e
    <3>5. p \o e \in DOMAIN t
      BY <1>6, <3>4
    <3> QED BY <3>3, <3>5
  <2>2. CASE Len(p) # 0
    <3>1. 0 < Len(p) /\ Prefix(p, 0) = << >>
      BY <1>1, <2>2, PrefixOfPrefix
    <3>2. Prefix(p, 0) \in rest
      BY <1>8, <3>1
    <3> QED BY <1>5, <3>1, <3>2
  <2> QED BY <2>1, <2>2
<1>10. DOMAIN t \subseteq Names
  <2> SUFFICES ASSUME NEW q \in DOMAIN t PROVE q \in Names
    OBVIOUS
  <2>1. CASE q \in rest
    BY <1>1, <2>1 DEF rest
  <2>2. CASE Inner(q)
    <3>1. PICK r \in DOMAIN w : q = p \o r
      BY <2>2 DEF Inner
    <3>2. r \in Names
      BY <1>1
    <3> QED BY <3>1, <3>2, ConcatFacts
  <2> QED BY <1>4, <2>1, <2>2
<1>11. ASSUME NEW q \in DOMAIN t, NEW k \in Nat, k < Len(q)
       PROVE  Prefix(q, k) \in DOMAIN t /\ t[Prefix(q, k)].kind \in {"object", "array"}
  <2>1. CASE q \in rest
    BY <1>5, <1>7, <1>11, <2>1
  <2>2. CASE Inner(q)
    <3>1. PICK r \in DOMAIN w : q = p \o r
      BY <2>2 DEF Inner
    <3>2. r \in Names
      BY <1>1
    <3>3. /\ Len(q) = Len(p) + Len(r) /\ Len(r) \in Nat
          /\ \A i \in 0..Len(p) : Prefix(q, i) = Prefix(p, i)
          /\ \A i \in 0..Len(r) : Prefix(q, Len(p) + i) = p \o Prefix(r, i)
      <4>1. /\ Len(p \o r) = Len(p) + Len(r) /\ Len(r) \in Nat
            /\ \A i \in 0..Len(p) : Prefix(p \o r, i) = Prefix(p, i)
            /\ \A i \in 0..Len(r) : Prefix(p \o r, Len(p) + i) = p \o Prefix(r, i)
        BY <3>2, ConcatFacts
      <4> QED BY <3>1, <4>1
    <3>4. CASE k < Len(p)
      <4>1. k \in 0..Len(p)
        BY <1>1, <3>4
      <4>2. Prefix(q, k) = Prefix(p, k)
        BY <3>3, <4>1
      <4> QED BY <1>5, <1>8, <3>4, <4>2
    <3>5. CASE ~(k < Len(p))
      <4>1. PICK i \in Nat : k = Len(p) + i
        <5>1. k - Len(p) \in Nat /\ k = Len(p) + (k - Len(p))
          BY <1>1, <3>5
        <5> QED BY <5>1
      <4>2. i < Len(r) /\ i \in 0..Len(r)
        BY <1>1, <1>11, <3>3, <4>1
      <4>3. Prefix(q, k) = p \o Prefix(r, i)
        BY <3>3, <4>1, <4>2
      <4>4. Prefix(r, i) \in DOMAIN w /\ w[Prefix(r, i)].kind \in {"object", "array"}
        BY <4>2 DEF IsValue
      <4> QED BY <1>6, <4>3, <4>4
    <3> QED BY <3>4, <3>5
  <2> QED BY <1>4, <2>1, <2>2
<1> QED BY <1>9, <1>10, <1>11 DEF IsValue, t

\* A change makes a value of a value.
LEMMA ChangedValue ==
  ASSUME NEW v, IsValue(v), NEW w \in Changed(v)
  PROVE  IsValue(w)
<1>1. ASSUME NEW p \in DOMAIN v PROVE p \in Names /\ Open(v, p)
  BY DEF IsValue, Open
<1>2. ASSUME NEW p \in DOMAIN v, v[p].kind = "object"
      PROVE  p \o <<"z">> \in Names /\ Open(v, p \o <<"z">>)
  <2> DEFINE s == <<"z">>
             q == p \o s
  <2>0. "z" \in Name
    BY DEF Name
  <2>1. s \in Names /\ Len(s) = 1
    BY <2>0, OneName
  <2> HIDE DEF s
  <2>2. /\ q \in Names /\ Len(q) = Len(p) + 1 /\ Len(p) \in Nat
        /\ \A k \in 0..Len(p) : Prefix(q, k) = Prefix(p, k)
    BY <1>1, <2>1, ConcatFacts
  <2> HIDE DEF q
  <2>3. ASSUME NEW k \in Nat, k < Len(q)
        PROVE  Prefix(q, k) \in DOMAIN v /\ v[Prefix(q, k)].kind \in {"object", "array"}
    <3>1. k \in 0..Len(p) /\ (k < Len(p) \/ k = Len(p))
      BY <2>2, <2>3
    <3>2. Prefix(q, k) = Prefix(p, k)
      BY <2>2, <3>1
    <3>3. Prefix(p, Len(p)) = p
      BY <1>1, PrefixOfPrefix
    <3> QED BY <1>1, <1>2, <3>1, <3>2, <3>3 DEF Open
  <2>4. Open(v, q)
    BY <2>3 DEF Open
  <2> QED BY <2>2, <2>4 DEF q, s
<1>3. /\ IsValue(Num(1)) /\ IsValue(Num(-1)) /\ IsValue(Num(2)) /\ IsValue(Null) /\ IsValue(Str(NoText))
  BY LeafValue DEF Num, Null, Str
<1>4. IsValue(Obj([x |-> Num(1)]))
  <2> DEFINE f == [x |-> Num(1)]
  <2>1. DOMAIN f \subseteq Name /\ \A n \in DOMAIN f : IsValue(f[n])
    BY <1>3 DEF Name
  <2> HIDE DEF f
  <2>2. IsValue(Tree("object", f))
    BY <2>1, TreeValue
  <2> QED BY <2>2 DEF Obj, f
<1> DEFINE At(kind) == {p \in DOMAIN v : v[p].kind = kind}
           members  == {p \in DOMAIN v \ {<< >>} : v[Parent(p)].kind = "object"}
           other    == Obj([x |-> Num(1)])
<1>5. \/ \E p \in At("object") : w = Put(v, p \o <<"z">>, Num(1))
      \/ \E p \in members : w = Cut(v, p) \/ w = Put(v, p, Null)
      \/ \E p \in At("number") : \E x \in {Num(-1), Num(2), other} : w = Put(v, p, x)
      \/ \E p \in At("string") : \E x \in {Str(NoText), other} : w = Put(v, p, x)
  BY DEF Changed
<1>6. CASE \E p \in At("object") : w = Put(v, p \o <<"z">>, Num(1))
  <2>1. PICK p \in DOMAIN v : v[p].kind = "object" /\ w = Put(v, p \o <<"z">>, Num(1))
    BY <1>6
  <2>2. p \o <<"z">> \in Names /\ Open(v, p \o <<"z">>)
    BY <1>2, <2>1
  <2> QED BY <1>3, <2>1, <2>2, PutValue
<1>7. CASE \E p \in members : w = Cut(v, p) \/ w = Put(v, p, Null)
  <2>1. PICK p \in DOMAIN v : p # << >> /\ (w = Cut(v, p) \/ w = Put(v, p, Null))
    BY <1>7
  <2> QED BY <1>1, <1>3, <2>1, CutValue, PutValue
<1>8. CASE \E p \in At("number") : \E x \in {Num(-1), Num(2), other} : w = Put(v, p, x)
  <2>1. PICK p \in DOMAIN v : \E x \in {Num(-1), Num(2), other} : w = Put(v, p, x)
    BY <1>8
  <2>2. PICK x \in {Num(-1), Num(2), other} : w = Put(v, p, x)
    BY <2>1
  <2>3. IsValue(x)
    BY <1>3, <1>4
  <2> QED BY <1>1, <2>2, <2>3, PutValue
<1>9. CASE \E p \in At("string") : \E x \in {Str(NoText), other} : w = Put(v, p, x)
  <2>1. PICK p \in DOMAIN v : \E x \in {Str(NoText), other} : w = Put(v, p, x)
    BY <1>9
  <2>2. PICK x \in {Str(NoText), other} : w = Put(v, p, x)
    BY <2>1
  <2>3. IsValue(x)
    BY <1>3, <1>4
  <2> QED BY <1>1, <2>2, <2>3, PutValue
<1> HIDE DEF At, members, other
<1> QED BY <1>5, <1>6, <1>7, <1>8, <1>9

-----------------------------------------------------------------------------
(* Numbers.                                                                *)

\* The powers of two.
LEMMA Powers ==
  /\ Pow2[0] = 1
  /\ \A n \in 0..SeedBits : Pow2[n + 1] = 2 * Pow2[n]
  /\ \A n \in 0..SeedBits + 1 : Pow2[n] \in Nat \ {0}
<1> DEFINE top == SeedBits + 1
           Body(f, i) == IF i = 0 THEN 1 ELSE 2 * f[i - 1]
           IsPow(f, k) == f = [i \in 0..k |-> Body(f, i)]
           N == {k \in Nat : \E f : IsPow(f, k)}
           G == {k \in Nat : k <= top => Pow2[k] \in Nat \ {0}}
<1>1. SeedBits \in Nat /\ top \in Nat
  BY ProtocolAssumption
<1>2. 0 \in N
  <2> DEFINE f == [i \in 0..0 |-> 1]
  <2>1. IsPow(f, 0)
    OBVIOUS
  <2> QED BY <2>1
<1>3. ASSUME NEW k \in N PROVE k + 1 \in N
  <2>1. PICK f : IsPow(f, k)
    BY <1>3
  <2> DEFINE g == [i \in 0..(k + 1) |-> Body(f, i)]
  <2>2. \A i \in 0..k : g[i] = f[i]
    <3>1. k \in Nat /\ \A i \in 0..k : f[i] = Body(f, i)
      BY <1>3, <2>1
    <3> QED BY <3>1
  <2>3. \A i \in 0..(k + 1) : i # 0 => g[i - 1] = f[i - 1]
    <3>1. k \in Nat
      BY <1>3
    <3> HIDE DEF g
    <3> QED BY <2>2, <3>1
  <2>4. IsPow(g, k + 1)
    BY <2>3
  <2>5. \E h : IsPow(h, k + 1)
    BY <2>4
  <2> HIDE DEF IsPow
  <2> QED BY <1>3, <2>5
<1>4. N = Nat
  <2> HIDE DEF N
  <2>1. N \in SUBSET Nat
    BY DEF N
  <2> QED BY <1>2, <1>3, <2>1, NatSetInduction
<1>5. IsPow(Pow2, top)
  <2>1. \E f : IsPow(f, top)
    BY <1>1, <1>4
  <2>2. Pow2 = CHOOSE f : IsPow(f, top)
    BY DEF Pow2
  <2> HIDE DEF IsPow
  <2> QED BY <2>1, <2>2
<1> HIDE DEF N
<1>6. \A i \in 0..top : Pow2[i] = Body(Pow2, i)
  BY <1>5
<1> HIDE DEF IsPow
<1>7. Pow2[0] = 1
  BY <1>1, <1>6
<1>8. ASSUME NEW n \in 0..SeedBits PROVE Pow2[n + 1] = 2 * Pow2[n]
  <2>1. n + 1 \in 0..top /\ n + 1 # 0 /\ n + 1 - 1 = n
    BY <1>1
  <2> HIDE DEF top
  <2> QED BY <1>6, <2>1
<1>9. 0 \in G
  BY <1>7
<1>10. ASSUME NEW k \in Nat, k \in G PROVE k + 1 \in G
  <2>1. SUFFICES ASSUME k + 1 <= top PROVE Pow2[k + 1] \in Nat \ {0}
    OBVIOUS
  <2>2. k \in 0..SeedBits /\ k <= top
    BY <1>1, <2>1
  <2>3. Pow2[k + 1] = 2 * Pow2[k] /\ Pow2[k] \in Nat \ {0}
    BY <1>8, <1>10, <2>2
  <2> QED BY <2>3
<1>11. G = Nat
  <2> HIDE DEF G
  <2>1. G \in SUBSET Nat
    BY DEF G
  <2> QED BY <1>9, <1>10, <2>1, NatSetInduction
<1>12. ASSUME NEW n \in 0..SeedBits + 1 PROVE Pow2[n] \in Nat \ {0}
  <2>1. n \in G /\ n <= top
    BY <1>1, <1>11
  <2> QED BY <2>1
<1> QED BY <1>7, <1>8, <1>12

\* Powers of sums.
LEMMA PowerOfSum ==
  ASSUME NEW a \in Nat, NEW b \in Nat, a + b <= SeedBits + 1
  PROVE  Pow2[a + b] = Pow2[a] * Pow2[b]
<1> DEFINE G == {k \in Nat : a + k <= SeedBits + 1 => Pow2[a + k] = Pow2[a] * Pow2[k]}
<1>1. SeedBits \in Nat /\ a \in 0..SeedBits + 1 /\ Pow2[a] \in Nat
  BY ProtocolAssumption, Powers
<1>2. 0 \in G
  <2>1. Pow2[0] = 1 /\ a + 0 = a /\ Pow2[a] * 1 = Pow2[a]
    BY <1>1, Powers
  <2> QED BY <2>1
<1>3. ASSUME NEW k \in Nat, k \in G PROVE k + 1 \in G
  <2>1. SUFFICES ASSUME a + (k + 1) <= SeedBits + 1 PROVE Pow2[a + (k + 1)] = Pow2[a] * Pow2[k + 1]
    OBVIOUS
  <2>2. /\ a + k <= SeedBits + 1 /\ a + (k + 1) = a + k + 1
        /\ k \in 0..SeedBits /\ k \in 0..SeedBits + 1 /\ a + k \in 0..SeedBits
    BY <1>1, <2>1
  <2>3. Pow2[a + k] = Pow2[a] * Pow2[k]
    BY <1>3, <2>2
  <2>4. Pow2[k + 1] = 2 * Pow2[k] /\ Pow2[a + k + 1] = 2 * Pow2[a + k] /\ Pow2[k] \in Nat
    BY <2>2, Powers
  <2> DEFINE x == Pow2[a]
             y == Pow2[k]
  <2>5. x \in Nat /\ y \in Nat
    BY <1>1, <2>4
  <2> HIDE DEF x, y
  <2>6. 2 * (x * y) = x * (2 * y)
    BY <2>5
  <2> QED BY <2>2, <2>3, <2>4, <2>6 DEF x, y
<1>4. G = Nat
  <2> HIDE DEF G
  <2>1. G \in SUBSET Nat
    BY DEF G
  <2> QED BY <1>2, <1>3, <2>1, NatSetInduction
<1>5. b \in G
  BY <1>4
<1> QED BY <1>5

\* What a double holds.
LEMMA MantissaFacts ==
  /\ MantissaBits \in Nat /\ MantissaBits \in 0..SeedBits + 1
  /\ Pow2[MantissaBits] \in Nat /\ Pow2[MantissaBits] >= 4
<1>1. SeedBits \in Nat /\ MantissaBits \in 2..SeedBits
  BY ProtocolAssumption
<1>2. PICK b \in Nat : MantissaBits = 2 + b
  <2>1. MantissaBits - 2 \in Nat /\ MantissaBits = 2 + (MantissaBits - 2)
    BY <1>1
  <2> QED BY <2>1
<1>3. MantissaBits \in 0..SeedBits + 1 /\ b \in 0..SeedBits + 1 /\ 2 + b <= SeedBits + 1
  BY <1>1, <1>2
<1>4. Pow2[2] = 4
  <2>1. 0 \in 0..SeedBits /\ 1 \in 0..SeedBits /\ 0 + 1 = 1 /\ 1 + 1 = 2
    BY <1>1
  <2>2. Pow2[0 + 1] = 2 * Pow2[0] /\ Pow2[1 + 1] = 2 * Pow2[1]
    BY <2>1, Powers
  <2> QED BY <2>1, <2>2, Powers
<1>5. Pow2[b] \in Nat \ {0} /\ Pow2[MantissaBits] \in Nat
  BY <1>3, Powers
<1>6. Pow2[2 + b] = Pow2[2] * Pow2[b]
  BY <1>3, PowerOfSum
<1> QED BY <1>2, <1>3, <1>4, <1>5, <1>6

\* A number that a double holds is not rounded.
LEMMA RoundExact ==
  ASSUME NEW n \in Int, Magnitude(n) <= Pow2[MantissaBits]
  PROVE  Round(n) = n
<1> DEFINE m == Magnitude(n)
           P == Pow2[MantissaBits]
           Fits(u) == m <= u * P /\ (u = 1 \/ m > (u \div 2) * P)
           Units == {Pow2[k] : k \in 0..SeedBits}
           unit == CHOOSE u \in Units : Fits(u)
<1>1. m \in Nat /\ (n < 0 => -m = n) /\ (~(n < 0) => m = n)
  BY DEF Magnitude
<1>2. P \in Nat /\ m <= P
  BY MantissaFacts
<1>3. 1 \in Units
  <2>1. 0 \in 0..SeedBits
    BY ProtocolAssumption
  <2> QED BY <2>1, Powers
<1> HIDE DEF m, P
<1>4. Fits(1)
  BY <1>1, <1>2
<1>5. ASSUME NEW u \in Units, Fits(u) PROVE u = 1
  <2>1. PICK k \in 0..SeedBits : u = Pow2[k]
    BY <1>5
  <2>2. CASE k = 0
    BY <2>1, <2>2, Powers
  <2>3. CASE k # 0
    <3>1. PICK j \in Nat : k = j + 1
      <4>1. k - 1 \in Nat /\ k = k - 1 + 1
        BY <2>3, ProtocolAssumption
      <4> QED BY <4>1
    <3>2. j \in 0..SeedBits /\ j \in 0..SeedBits + 1
      BY <3>1, ProtocolAssumption
    <3>3. u = 2 * Pow2[j] /\ Pow2[j] \in Nat \ {0}
      BY <2>1, <3>1, <3>2, Powers
    <3>4. PICK w \in Nat \ {0} : u = 2 * w
      BY <3>3
    <3>5. u \div 2 = w
      BY <3>4
    <3>6. u # 1
      BY <3>4
    <3>7. m > w * P
      BY <1>5, <3>5, <3>6
    <3>8. w * P >= P
      <4>1. w - 1 \in Nat
        BY <3>4
      <4>2. P * 1 <= P * w
        BY <1>2, <4>1, TimesMonotonic
      <4> QED BY <1>2, <3>4, <4>2
    <3>9. w * P \in Int
      BY <1>2, <3>4
    <3> QED BY <1>1, <1>2, <3>7, <3>8, <3>9
  <2> QED BY <2>2, <2>3
<1>6. unit = 1
  <2> HIDE DEF Fits, Units
  <2> QED BY <1>3, <1>4, <1>5
<1>7. Round(n) =
         LET low  == (m \div unit) * unit
             rest == m - low
             up   == 2 * rest > unit \/ (2 * rest = unit /\ (low \div unit) % 2 = 1)
             r    == IF up THEN low + unit ELSE low
         IN  IF n < 0 THEN -r ELSE r
  BY DEF Round, m, P
<1> HIDE DEF unit
<1>8. (m \div 1) * 1 = m /\ m - m = 0 /\ ~(2 * 0 > 1) /\ 2 * 0 # 1
  BY <1>1
<1> QED BY <1>1, <1>6, <1>7, <1>8

\* The seeds the server picks, and the small numbers of its frames, fit.
LEMMA SmallNumbers ==
  /\ \A s \in ServerSeeds : s \in Int /\ Magnitude(s) <= Pow2[MantissaBits]
  /\ \A n \in {0, 1, 2, 3} : Magnitude(n) <= Pow2[MantissaBits]
<1>1. ASSUME NEW s \in ServerSeeds PROVE s \in Int /\ Magnitude(s) <= Pow2[MantissaBits]
  <2> DEFINE a == SeedBits + 1 - MantissaBits
             c == Pow2[a]
             P == Pow2[MantissaBits]
  <2>1. /\ a \in Nat /\ a + MantissaBits = SeedBits + 1 /\ a \in 0..SeedBits + 1
        /\ SeedBits + 1 \in 0..SeedBits + 1
    BY ProtocolAssumption
  <2>2. Pow2[a + MantissaBits] = c * P
    BY <2>1, MantissaFacts, PowerOfSum
  <2>3. c \in Nat \ {0} /\ P \in Nat
    BY <2>1, MantissaFacts, Powers
  <2>4. PICK x \in 0..Pow2[SeedBits + 1] - 1 : s = x \div c
    BY DEF ServerSeeds
  <2> HIDE DEF a, c, P
  <2>5. x \in Nat /\ x < c * P
    <3>1. c * P \in Nat /\ Pow2[SeedBits + 1] = c * P
      BY <2>1, <2>2, <2>3
    <3> QED BY <2>4, <3>1
  <2>6. s \in Int /\ c * s <= x /\ x < c * (s + 1)
    BY <2>3, <2>4, <2>5, Floor
  <2>7. s >= 0
    <3> SUFFICES ASSUME s + 1 <= 0 PROVE FALSE
      BY <2>6
    <3>1. c * (s + 1) <= c * 0
      BY <2>3, <2>6, TimesMonotonic
    <3> QED BY <2>3, <2>5, <2>6, <3>1
  <2>8. s <= P
    <3> SUFFICES ASSUME P <= s PROVE s <= P
      BY <2>3, <2>6
    <3>1. c * P <= c * s
      BY <2>3, <2>6, TimesMonotonic
    <3>2. c * P \in Int /\ c * s \in Int
      BY <2>3, <2>6
    <3> QED BY <2>5, <2>6, <3>1, <3>2
  <2> QED BY <2>6, <2>7, <2>8 DEF Magnitude, P
<1>2. \A n \in {0, 1, 2, 3} : Magnitude(n) <= Pow2[MantissaBits]
  BY MantissaFacts DEF Magnitude
<1> QED BY <1>1, <1>2

-----------------------------------------------------------------------------
(* Values that are meant as a type.                                        *)

\* What is at p is of the kind that its type asks, fits a double where the
\* type is an integer, and has every field of its struct.
MeantAt(T, v, p) ==
    LET U == TypeAt(GoStruct, T, p) IN
    /\ JsonKind(GoStruct, U) # "none"
    /\ \E t : \E n \in Int : /\ v[p] = Node(JsonKind(GoStruct, U), t, n)
                             /\ U = "int" => Magnitude(n) <= Pow2[MantissaBits]
    /\ U \in DOMAIN GoStruct => \A n \in DOMAIN GoStruct[U] : p \o <<n>> \in DOMAIN v

Meant(T, v) == IsValue(v) /\ \A p \in DOMAIN v : MeantAt(T, v, p)

\* The names of the structs' fields.
LEMMA FieldNames == \A T \in DOMAIN GoStruct : DOMAIN GoStruct[T] \subseteq Name
<1>1. /\ DOMAIN GoStruct["Vec2"] \subseteq Name /\ DOMAIN GoStruct["Bounds"] \subseteq Name
      /\ DOMAIN GoStruct["Transform"] \subseteq Name /\ DOMAIN GoStruct["AssetEntry"] \subseteq Name
      /\ DOMAIN GoStruct["ManifestEntry"] \subseteq Name /\ DOMAIN GoStruct["Stats"] \subseteq Name
  BY DEF GoStruct, Name
<1>2. /\ DOMAIN GoStruct["hello"] \subseteq Name /\ DOMAIN GoStruct["generate"] \subseteq Name
      /\ DOMAIN GoStruct["plan"] \subseteq Name /\ DOMAIN GoStruct["chunk"] \subseteq Name
      /\ DOMAIN GoStruct["complete"] \subseteq Name /\ DOMAIN GoStruct["error"] \subseteq Name
      /\ DOMAIN GoStruct["cancel"] \subseteq Name
  BY DEF GoStruct, Name
<1>3. DOMAIN GoStruct = {"Vec2", "Bounds", "Transform", "AssetEntry", "ManifestEntry", "Stats",
                         "hello", "generate", "plan", "chunk", "complete", "error", "cancel"}
  BY DEF GoStruct
<1> QED BY <1>1, <1>2, <1>3

\* What is in a member of an object or an array, is meant there as in the member.
LEMMA MeantInside ==
  ASSUME NEW T, NEW kind, NEW f, Members(f), NEW n \in DOMAIN f, NEW q \in DOMAIN f[n],
         MeantAt(Member(GoStruct, T, n), f[n], q)
  PROVE  MeantAt(T, Tree(kind, f), <<n>> \o q)
<1> DEFINE M == Member(GoStruct, T, n)
           c == <<n>> \o q
           t == Tree(kind, f)
           U == TypeAt(GoStruct, T, c)
<1>1. n \in Name /\ q \in Names /\ <<n>> \in Names
  BY OneName DEF Members
<1>2. U = TypeAt(GoStruct, M, q)
  BY <1>1, TypeOfInner
<1>3. t[c] = f[n][q]
  BY TreeMember
<1>4. ASSUME U \in DOMAIN GoStruct, NEW m \in DOMAIN GoStruct[U] PROVE c \o <<m>> \in DOMAIN t
  <2> DEFINE s == <<n>>
             x == <<m>>
  <2>1. x \in Names /\ s \in Names
    BY <1>1, <1>4, OneName, FieldNames
  <2>2. q \o x \in DOMAIN f[n]
    BY <1>2, <1>4 DEF MeantAt
  <2>3. s \o (q \o x) \in DOMAIN t
    BY <2>2, TreeMember
  <2> HIDE DEF s, x
  <2>4. (s \o q) \o x = s \o (q \o x)
    BY <1>1, <2>1, ConcatAssociative DEF Names
  <2> QED BY <2>3, <2>4 DEF s, x
<1>5. /\ JsonKind(GoStruct, U) # "none"
      /\ \E y : \E k \in Int : /\ f[n][q] = Node(JsonKind(GoStruct, U), y, k)
                               /\ U = "int" => Magnitude(k) <= Pow2[MantissaBits]
  BY <1>2 DEF MeantAt
<1> HIDE DEF c, t, U
<1>6. MeantAt(T, t, c)
  BY <1>3, <1>4, <1>5 DEF MeantAt, U
<1> QED BY <1>6 DEF c, t

\* An object or an array of values that are meant as the type's members, with
\* every field of a struct.
LEMMA MeantTree ==
  ASSUME NEW T, NEW kind \in {"object", "array"}, JsonKind(GoStruct, T) = kind, NEW f, DOMAIN f \subseteq Name,
         \A n \in DOMAIN f : Meant(Member(GoStruct, T, n), f[n]),
         T \in DOMAIN GoStruct => DOMAIN GoStruct[T] \subseteq DOMAIN f
  PROVE  Meant(T, Tree(kind, f))
<1> DEFINE t == Tree(kind, f)
<1>1. Members(f) /\ \A n \in DOMAIN f : IsValue(f[n])
  BY DEF Meant, IsValue, Members
<1>2. IsValue(t)
  BY <1>1, TreeValue
<1>3. << >> \in DOMAIN t /\ t[<< >>] = Node(kind, NoText, 0)
  BY TreeRoot
<1>4. MeantAt(T, t, << >>)
  <2>1. TypeAt(GoStruct, T, << >>) = T
    BY TypeOfAll
  <2>2. T # "int"
    BY KindOfType, Kinds
  <2>3. ASSUME T \in DOMAIN GoStruct, NEW n \in DOMAIN GoStruct[T] PROVE << >> \o <<n>> \in DOMAIN t
    <3>1. n \in DOMAIN f /\ << >> \in DOMAIN f[n]
      BY <1>1, <2>3 DEF IsValue
    <3>2. <<n>> \in DOMAIN t
      BY <1>1, <3>1, MemberAt
    <3>3. <<n>> \in Seq(Name)
      BY <3>1, OneName DEF Names
    <3>4. << >> \o <<n>> = <<n>>
      BY <3>3, ConcatEmptySeq
    <3> QED BY <3>2, <3>4
  <2>4. \E y : \E k \in Int : t[<< >>] = Node(kind, y, k)
    BY <1>3
  <2> HIDE DEF t
  <2> QED BY <2>1, <2>2, <2>3, <2>4 DEF MeantAt
<1> DEFINE G == {p \in DOMAIN t : MeantAt(T, t, p)}
<1>5. \A n \in DOMAIN f : \A q \in DOMAIN f[n] : <<n>> \o q \in G
  <2> SUFFICES ASSUME NEW n \in DOMAIN f, NEW q \in DOMAIN f[n] PROVE <<n>> \o q \in G
    OBVIOUS
  <2>1. MeantAt(Member(GoStruct, T, n), f[n], q)
    BY DEF Meant
  <2>2. <<n>> \o q \in DOMAIN t
    BY <1>1, TreeMember
  <2>3. MeantAt(T, t, <<n>> \o q)
    BY <1>1, <2>1, MeantInside
  <2> QED BY <2>2, <2>3
<1>6. << >> \in G
  BY <1>3, <1>4
<1>7. DOMAIN t \subseteq G
  <2> HIDE DEF G
  <2> QED BY <1>5, <1>6, TreePositions
<1> HIDE DEF t
<1> QED BY <1>2, <1>7 DEF Meant, t

\* Scalars.
LEMMA MeantLeaf ==
  ASSUME NEW T \in DOMAIN KindOf, NEW x, NEW n \in Int, T = "int" => Magnitude(n) <= Pow2[MantissaBits]
  PROVE  Meant(T, Leaf(Node(KindOf[T], x, n)))
<1> DEFINE v == Leaf(Node(KindOf[T], x, n))
<1>1. IsValue(v) /\ DOMAIN v = {<< >>} /\ v[<< >>] = Node(KindOf[T], x, n)
  BY LeafValue
<1> HIDE DEF v
<1>2. TypeAt(GoStruct, T, << >>) = T
  BY TypeOfAll
<1>3. T \notin DOMAIN GoStruct /\ JsonKind(GoStruct, T) = KindOf[T] /\ KindOf[T] # "none"
  BY Kinds, KindOfType
<1>4. MeantAt(T, v, << >>)
  BY <1>1, <1>2, <1>3 DEF MeantAt
<1> QED BY <1>1, <1>4 DEF Meant, v

LEMMA Scalars ==
  /\ \A t : Meant("string", Str(t)) /\ Meant("bool", Flag(t))
  /\ \A n \in Int : Meant("float", Num(n))
  /\ \A n \in {0, 1, 2, 3} : Meant("int", Num(n))
<1>1. ASSUME NEW t
      PROVE  Meant("string", Leaf(Node("string", t, 0))) /\ Meant("bool", Leaf(Node("bool", t, 0)))
  <2>1. ASSUME NEW T \in {"string", "bool"}, NEW n \in Int PROVE Meant(T, Leaf(Node(T, t, n)))
    <3>1. T \in DOMAIN KindOf /\ KindOf[T] = T /\ T # "int"
      BY DEF KindOf
    <3>2. Meant(T, Leaf(Node(KindOf[T], t, n)))
      BY <3>1, MeantLeaf
    <3> QED BY <3>1, <3>2
  <2> QED BY <2>1
<1>2. \A n \in Int : Meant("float", Leaf(Node("number", NoText, n)))
  BY MeantLeaf, Kinds
<1>3. ASSUME NEW n \in {0, 1, 2, 3} PROVE Meant("int", Leaf(Node("number", NoText, n)))
  <2>1. n \in Int /\ Magnitude(n) <= Pow2[MantissaBits]
    BY SmallNumbers
  <2> QED BY <2>1, MeantLeaf, Kinds
<1> QED BY <1>1, <1>2, <1>3 DEF Str, Flag, Num

\* The members of structs, lists and maps.
LEMMA MemberOf ==
  /\ \A T \in DOMAIN GoStruct : \A n \in DOMAIN GoStruct[T] : Member(GoStruct, T, n) = GoStruct[T][n]
  /\ \A n : Member(GoStruct, "strings", n) = "string" /\ Member(GoStruct, "assets", n) = "AssetEntry"
  /\ \A n : Member(GoStruct, "manifest", n) = "ManifestEntry" /\ Member(GoStruct, "counts", n) = "int"
<1>1. ASSUME NEW T \in DOMAIN GoStruct, NEW n \in DOMAIN GoStruct[T]
      PROVE  Member(GoStruct, T, n) = GoStruct[T][n]
  <2>1. T \notin DOMAIN ListOf /\ T \notin DOMAIN MapOf /\ T # "nothing"
    BY Kinds
  <2> QED BY <2>1 DEF Member
<1>2. ASSUME NEW n
      PROVE  Member(GoStruct, "strings", n) = "string" /\ Member(GoStruct, "assets", n) = "AssetEntry"
  <2>1. "strings" \notin DOMAIN GoStruct /\ "assets" \notin DOMAIN GoStruct
    BY Kinds
  <2> QED BY <2>1, Kinds DEF Member
<1>3. ASSUME NEW n
      PROVE  Member(GoStruct, "manifest", n) = "ManifestEntry" /\ Member(GoStruct, "counts", n) = "int"
  <2>1. "manifest" \notin DOMAIN GoStruct /\ "counts" \notin DOMAIN GoStruct
    BY Kinds
  <2> QED BY <2>1, Kinds DEF Member
<1> QED BY <1>1, <1>2, <1>3

\* A struct of meant fields.
LEMMA MeantObj ==
  ASSUME NEW T \in DOMAIN GoStruct, NEW f, DOMAIN f = DOMAIN GoStruct[T],
         \A n \in DOMAIN f : Meant(GoStruct[T][n], f[n])
  PROVE  Meant(T, Obj(f))
<1>1. DOMAIN f \subseteq Name
  BY FieldNames
<1>2. \A n \in DOMAIN f : Meant(Member(GoStruct, T, n), f[n])
  BY MemberOf
<1>3. JsonKind(GoStruct, T) = "object"
  BY KindOfType
<1> QED BY <1>1, <1>2, <1>3, MeantTree DEF Obj

\* The parts of frames.
LEMMA MeantVec ==
  ASSUME NEW x \in Int, NEW y \in Int
  PROVE  Meant("Vec2", Vec(x, y))
<1> DEFINE f == [x |-> Num(x), y |-> Num(y)]
<1>1. DOMAIN f = DOMAIN GoStruct["Vec2"] /\ "Vec2" \in DOMAIN GoStruct
  BY DEF GoStruct
<1>2. GoStruct["Vec2"]["x"] = "float" /\ GoStruct["Vec2"]["y"] = "float"
  BY DEF GoStruct
<1>3. \A n \in DOMAIN f : Meant(GoStruct["Vec2"][n], f[n])
  BY <1>2, Scalars
<1> HIDE DEF f
<1>4. Meant("Vec2", Obj(f))
  BY <1>1, <1>3, MeantObj
<1> QED BY <1>4 DEF Vec, f

LEMMA MeantEntry ==
  ASSUME NEW tags, tags \subseteq Name
  PROVE  Meant("AssetEntry", Entry(tags))
<1> DEFINE g == [location |-> Vec(-1, 1), yaw |-> Num(0), scale |-> Num(1)]
           h == [i \in tags |-> Str("flora")]
           f == [category |-> Str("rock"), ground_snap |-> Flag("true"), tags |-> Arr(h),
                 transform |-> Obj(g)]
<1>1. Meant("Transform", Obj(g))
  <2>1. DOMAIN g = DOMAIN GoStruct["Transform"] /\ "Transform" \in DOMAIN GoStruct
    BY DEF GoStruct
  <2>2. /\ GoStruct["Transform"]["location"] = "Vec2" /\ GoStruct["Transform"]["yaw"] = "float"
        /\ GoStruct["Transform"]["scale"] = "float"
    BY DEF GoStruct
  <2>3. \A n \in DOMAIN g : Meant(GoStruct["Transform"][n], g[n])
    BY <2>2, Scalars, MeantVec
  <2> HIDE DEF g
  <2> QED BY <2>1, <2>3, MeantObj
<1>2. Meant("strings", Arr(h))
  <2>1. DOMAIN h \subseteq Name /\ \A n \in DOMAIN h : Meant("string", h[n])
    BY Scalars
  <2> HIDE DEF h
  <2>2. \A n \in DOMAIN h : Meant(Member(GoStruct, "strings", n), h[n])
    BY <2>1, MemberOf
  <2>3. JsonKind(GoStruct, "strings") = "array" /\ "strings" \notin DOMAIN GoStruct
    BY KindOfType, Kinds
  <2> QED BY <2>1, <2>2, <2>3, MeantTree DEF Arr
<1> HIDE DEF g, h
<1>3. DOMAIN f = DOMAIN GoStruct["AssetEntry"] /\ "AssetEntry" \in DOMAIN GoStruct
  BY DEF GoStruct
<1>4. /\ GoStruct["AssetEntry"]["category"] = "string" /\ GoStruct["AssetEntry"]["ground_snap"] = "bool"
      /\ GoStruct["AssetEntry"]["tags"] = "strings" /\ GoStruct["AssetEntry"]["transform"] = "Transform"
  BY DEF GoStruct
<1>5. \A n \in DOMAIN f : Meant(GoStruct["AssetEntry"][n], f[n])
  BY <1>1, <1>2, <1>4, Scalars
<1> HIDE DEF f
<1>6. Meant("AssetEntry", Obj(f))
  BY <1>3, <1>5, MeantObj
<1> QED BY <1>6 DEF Entry, f, g, h

\* A map and a list that are not empty, and their elements.
LEMMA MeantBounds == Meant("Bounds", Obj([min |-> Vec(-1, -1), max |-> Vec(1, 1)]))
<1> DEFINE f == [min |-> Vec(-1, -1), max |-> Vec(1, 1)]
<1>1. DOMAIN f = DOMAIN GoStruct["Bounds"] /\ "Bounds" \in DOMAIN GoStruct
  BY DEF GoStruct
<1>2. GoStruct["Bounds"]["min"] = "Vec2" /\ GoStruct["Bounds"]["max"] = "Vec2"
  BY DEF GoStruct
<1>3. \A n \in DOMAIN f : Meant(GoStruct["Bounds"][n], f[n])
  BY <1>2, MeantVec
<1> HIDE DEF f
<1>4. Meant("Bounds", Obj(f))
  BY <1>1, <1>3, MeantObj
<1> QED BY <1>4 DEF f

LEMMA MeantStats == Meant("Stats", Obj([assets |-> Num(2), elapsed_ms |-> Num(3), llm_ms |-> Num(0)]))
<1> DEFINE f == [assets |-> Num(2), elapsed_ms |-> Num(3), llm_ms |-> Num(0)]
<1>1. DOMAIN f = DOMAIN GoStruct["Stats"] /\ "Stats" \in DOMAIN GoStruct
  BY DEF GoStruct
<1>2. /\ GoStruct["Stats"]["assets"] = "int" /\ GoStruct["Stats"]["elapsed_ms"] = "int"
      /\ GoStruct["Stats"]["llm_ms"] = "int"
  BY DEF GoStruct
<1>3. Meant("int", Num(0)) /\ Meant("int", Num(2)) /\ Meant("int", Num(3))
  BY Scalars
<1>4. \A n \in DOMAIN f : Meant(GoStruct["Stats"][n], f[n])
  BY <1>2, <1>3
<1> HIDE DEF f
<1>5. Meant("Stats", Obj(f))
  BY <1>1, <1>4, MeantObj
<1> QED BY <1>5 DEF f

LEMMA MeantCounts == Meant("counts", Obj([rock |-> Num(2)]))
<1> DEFINE f == [rock |-> Num(2)]
<1>1. DOMAIN f \subseteq Name /\ \A n \in DOMAIN f : Meant("int", f[n])
  <2>1. DOMAIN f = {"rock"} /\ "rock" \in Name
    BY DEF Name
  <2> QED BY <2>1, Scalars
<1> HIDE DEF f
<1>2. \A n \in DOMAIN f : Meant(Member(GoStruct, "counts", n), f[n])
  BY <1>1, MemberOf
<1>3. JsonKind(GoStruct, "counts") = "object" /\ "counts" \notin DOMAIN GoStruct
  BY KindOfType, Kinds
<1>4. Meant("counts", Tree("object", f))
  BY <1>1, <1>2, <1>3, MeantTree
<1> QED BY <1>4 DEF Obj, f

LEMMA MeantAssets ==
  ASSUME NEW f, DOMAIN f \subseteq Name, \A n \in DOMAIN f : Meant("AssetEntry", f[n])
  PROVE  Meant("assets", Arr(f))
<1>1. \A n \in DOMAIN f : Meant(Member(GoStruct, "assets", n), f[n])
  BY MemberOf
<1>2. JsonKind(GoStruct, "assets") = "array" /\ "assets" \notin DOMAIN GoStruct
  BY KindOfType, Kinds
<1>3. Meant("assets", Tree("array", f))
  BY <1>1, <1>2, MeantTree
<1> QED BY <1>3 DEF Arr

\* The manifests of the client's hello.
HelloManifests ==
    {[n \in {} |-> Null],
     [rock |-> Obj([footprint_radius |-> Num(1), ground_snap |-> Flag("true"),
                    instanceable |-> Flag("false"), display_name |-> Str("Rock")])]}

LEMMA MeantManifest ==
  ASSUME NEW m \in HelloManifests
  PROVE  Meant("manifest", Obj(m))
<1> DEFINE f == [footprint_radius |-> Num(1), ground_snap |-> Flag("true"),
                 instanceable |-> Flag("false"), display_name |-> Str("Rock")]
<1>1. Meant("ManifestEntry", Obj(f))
  <2>1. DOMAIN f = DOMAIN GoStruct["ManifestEntry"] /\ "ManifestEntry" \in DOMAIN GoStruct
    BY DEF GoStruct
  <2>2. /\ GoStruct["ManifestEntry"]["footprint_radius"] = "float"
        /\ GoStruct["ManifestEntry"]["ground_snap"] = "bool"
        /\ GoStruct["ManifestEntry"]["instanceable"] = "bool"
        /\ GoStruct["ManifestEntry"]["display_name"] = "string"
    BY DEF GoStruct
  <2>3. \A n \in DOMAIN f : Meant(GoStruct["ManifestEntry"][n], f[n])
    BY <2>2, Scalars
  <2> HIDE DEF f
  <2> QED BY <2>1, <2>3, MeantObj
<1> HIDE DEF f
<1>2. DOMAIN m \subseteq Name /\ \A n \in DOMAIN m : Meant("ManifestEntry", m[n])
  <2>1. CASE m = [n \in {} |-> Null]
    BY <2>1
  <2>2. CASE m = [rock |-> Obj(f)]
    <3>1. DOMAIN m = {"rock"} /\ "rock" \in Name /\ m["rock"] = Obj(f)
      BY <2>2 DEF Name
    <3> QED BY <1>1, <3>1
  <2> QED BY <2>1, <2>2 DEF HelloManifests, f
<1>3. \A n \in DOMAIN m : Meant(Member(GoStruct, "manifest", n), m[n])
  BY <1>2, MemberOf
<1>4. JsonKind(GoStruct, "manifest") = "object" /\ "manifest" \notin DOMAIN GoStruct
  BY KindOfType, Kinds
<1>5. Meant("manifest", Tree("object", m))
  BY <1>2, <1>3, <1>4, MeantTree
<1> QED BY <1>5 DEF Obj

-----------------------------------------------------------------------------
(* Frames.                                                                 *)

\* A frame of a T as one end builds it: all of it is meant, but for a seed that
\* may be too long for a double, and for fields that may be missing.
Framed(T, v) ==
    /\ IsValue(v) /\ v[<< >>] = Node("object", NoText, 0)
    /\ <<"protocol_version">> \in DOMAIN v
    /\ v[<<"protocol_version">>] = Node("number", NoText, Version)
    /\ <<"type">> \in DOMAIN v /\ v[<<"type">>] = Node("string", T, 0)
    /\ \A p \in DOMAIN v : p = << >> \/ p = <<"seed">> \/ MeantAt(T, v, p)
    /\ <<"seed">> \in DOMAIN v => /\ TypeAt(GoStruct, T, <<"seed">>) = "int"
                                  /\ \E n \in Int : v[<<"seed">>] = Node("number", NoText, n)

\* What every message has.
LEMMA HeaderFields ==
  /\ ServerKinds \cup ClientKinds \subseteq DOMAIN GoStruct
  /\ \A T \in ServerKinds \cup ClientKinds :
        /\ {"protocol_version", "type"} \subseteq DOMAIN GoStruct[T]
        /\ GoStruct[T]["protocol_version"] = "int" /\ GoStruct[T]["type"] = "string"
BY DEF ServerKinds, ClientKinds, GoStruct

LEMMA FramedMessage ==
  ASSUME NEW T \in ServerKinds \cup ClientKinds, NEW body,
         DOMAIN body \subseteq DOMAIN GoStruct[T] \ {"protocol_version", "type"},
         \A n \in DOMAIN body : n = "seed" \/ Meant(GoStruct[T][n], body[n]),
         "seed" \in DOMAIN body => /\ GoStruct[T]["seed"] = "int"
                                   /\ \E n \in Int : body["seed"] = Num(n)
  PROVE  /\ Framed(T, Message(T, body))
         /\ \A n \in DOMAIN body : /\ <<n>> \in DOMAIN Message(T, body)
                                   /\ Message(T, body)[<<n>>] = body[n][<< >>]
<1> DEFINE D == {"protocol_version", "type"} \cup DOMAIN body
           h == Header(T)
           f == [n \in DOMAIN h \cup DOMAIN body |-> IF n \in DOMAIN body THEN body[n] ELSE h[n]]
           v == Tree("object", f)
<1>1. Message(T, body) = v
  BY DEF Message, Obj
<1>2. DOMAIN h = {"protocol_version", "type"} /\ h["protocol_version"] = Num(1) /\ h["type"] = Str(T)
  BY DEF Header, Version
<1>3. /\ DOMAIN f = D /\ f["protocol_version"] = Num(1) /\ f["type"] = Str(T)
      /\ \A n \in DOMAIN body : f[n] = body[n]
  BY <1>2
<1> HIDE DEF f, h
<1>4. T \in DOMAIN GoStruct /\ D \subseteq DOMAIN GoStruct[T] /\ D \subseteq Name
  BY HeaderFields, FieldNames
<1>5. \A n \in DOMAIN f : n = "seed" \/ Meant(GoStruct[T][n], f[n])
  <2>1. Meant("int", Num(1)) /\ Meant("string", Str(T))
    BY Scalars
  <2> QED BY <1>3, <2>1, HeaderFields
<1>6. \A n \in DOMAIN f : IsValue(f[n])
  <2>1. ASSUME NEW n \in DOMAIN body, n = "seed" PROVE IsValue(f[n])
    <3>1. PICK x \in Int : body["seed"] = Num(x)
      BY <2>1
    <3> QED BY <1>3, <2>1, <3>1, LeafValue DEF Num
  <2> QED BY <1>3, <1>5, <2>1 DEF Meant
<1>7. Members(f)
  BY <1>3, <1>4, <1>6 DEF Members, IsValue
<1>8. \A n \in DOMAIN f : <<n>> \in DOMAIN v /\ v[<<n>>] = f[n][<< >>]
  <2> SUFFICES ASSUME NEW n \in DOMAIN f PROVE <<n>> \in DOMAIN v /\ v[<<n>>] = f[n][<< >>]
    OBVIOUS
  <2>1. << >> \in DOMAIN f[n]
    BY <1>6 DEF IsValue
  <2> QED BY <1>7, <2>1, MemberAt
<1>9. IsValue(v) /\ v[<< >>] = Node("object", NoText, 0)
  BY <1>3, <1>4, <1>6, TreeValue, TreeRoot
<1>10. /\ v[<<"protocol_version">>] = Node("number", NoText, Version)
       /\ v[<<"type">>] = Node("string", T, 0)
       /\ <<"protocol_version">> \in DOMAIN v /\ <<"type">> \in DOMAIN v
  <2>1. Num(1)[<< >>] = Node("number", NoText, 1) /\ Str(T)[<< >>] = Node("string", T, 0)
    BY LeafValue DEF Num, Str
  <2>2. "protocol_version" \in DOMAIN f /\ "type" \in DOMAIN f
    BY <1>3
  <2> QED BY <1>3, <1>8, <2>1, <2>2 DEF Version
<1> DEFINE G == {p \in DOMAIN v : p = << >> \/ p = <<"seed">> \/ MeantAt(T, v, p)}
<1>11. DOMAIN v \subseteq G
  <2>1. << >> \in G
    BY <1>9 DEF IsValue
  <2>2. ASSUME NEW n \in DOMAIN f, NEW q \in DOMAIN f[n] PROVE <<n>> \o q \in G
    <3>1. <<n>> \o q \in DOMAIN v
      BY <1>7, TreeMember
    <3>2. CASE n = "seed"
      <4>1. n \in DOMAIN body
        BY <1>3, <3>2
      <4>2. PICK x \in Int : body["seed"] = Num(x)
        BY <3>2, <4>1
      <4>3. q = << >>
        BY <1>3, <3>2, <4>1, <4>2, LeafValue DEF Num
      <4>4. <<n>> \in Seq(Name)
        BY <1>3, <1>4, OneName DEF Names
      <4>5. <<n>> \o q = <<"seed">>
        BY <3>2, <4>3, <4>4, ConcatEmptySeq
      <4> QED BY <3>1, <4>5
    <3>3. CASE n # "seed"
      <4>1. MeantAt(GoStruct[T][n], f[n], q)
        BY <1>5, <3>3 DEF Meant
      <4>2. Member(GoStruct, T, n) = GoStruct[T][n]
        BY <1>3, <1>4, MemberOf
      <4>3. MeantAt(T, v, <<n>> \o q)
        BY <1>7, <4>1, <4>2, MeantInside
      <4> QED BY <3>1, <4>3
    <3> QED BY <3>2, <3>3
  <2> HIDE DEF G
  <2> QED BY <2>1, <2>2, TreePositions
<1>12. ASSUME <<"seed">> \in DOMAIN v
       PROVE  /\ TypeAt(GoStruct, T, <<"seed">>) = "int"
              /\ \E n \in Int : v[<<"seed">>] = Node("number", NoText, n)
  <2>1. "seed" \in DOMAIN f
    <3>1. \A n \in DOMAIN f : \A q \in DOMAIN f[n] : <<n>> \o q \in {p \in Names : p = << >> \/ p[1] \in DOMAIN f}
      <4> SUFFICES ASSUME NEW n \in DOMAIN f, NEW q \in DOMAIN f[n]
                   PROVE  <<n>> \o q \in Names /\ (<<n>> \o q)[1] \in DOMAIN f
        OBVIOUS
      <4>1. n \in Name /\ q \in Names
        BY <1>7 DEF Members
      <4>2. <<n>> \o q \in Names /\ Head(<<n>> \o q) = n
        BY <4>1, HeadTail
      <4> QED BY <4>2
    <3>2. DOMAIN v \subseteq {p \in Names : p = << >> \/ p[1] \in DOMAIN f}
      <4>1. << >> \in {p \in Names : p = << >> \/ p[1] \in DOMAIN f}
        BY DEF Names
      <4> DEFINE P == {p \in Names : p = << >> \/ p[1] \in DOMAIN f}
      <4> HIDE DEF P
      <4>2. \A n \in DOMAIN f : \A q \in DOMAIN f[n] : <<n>> \o q \in P
        BY <3>1 DEF P
      <4> QED BY <4>1, <4>2, TreePositions DEF P
    <3> QED BY <1>12, <3>2
  <2>2. "seed" \in DOMAIN body
    BY <1>3, <2>1
  <2>3. PICK x \in Int : body["seed"] = Num(x)
    BY <2>2
  <2>4. v[<<"seed">>] = Node("number", NoText, x)
    BY <1>3, <1>8, <2>1, <2>2, <2>3, LeafValue DEF Num
  <2>5. TypeAt(GoStruct, T, <<"seed">>) = Member(GoStruct, T, "seed")
    <3>1. "seed" \in Name
      BY DEF Name
    <3> QED BY <3>1, TypeOfMember
  <2>6. Member(GoStruct, T, "seed") = "int"
    BY <1>3, <1>4, <2>1, <2>2, MemberOf
  <2> QED BY <2>4, <2>5, <2>6
<1> HIDE DEF v
<1>13. Framed(T, v)
  BY <1>9, <1>10, <1>11, <1>12 DEF Framed
<1> QED BY <1>1, <1>3, <1>8, <1>13

\* The kinds of JSON that types ask for are no null.
LEMMA NoNullKind ==
  ASSUME NEW T
  PROVE  JsonKind(GoStruct, T) # "null"
<1>1. \A U \in DOMAIN KindOf : KindOf[U] # "null"
  BY KindOfType
<1> QED BY <1>1 DEF JsonKind

LEMMA SameKind ==
  ASSUME NEW T \in ServerTypes
  PROVE  JsonKind(UStruct, T) = JsonKind(GoStruct, T)
<1>1. CASE T \in DOMAIN KindOf
  BY <1>1, KindOfType
<1>2. CASE T \in {"strings", "assets", "counts"}
  <2>1. T \in DOMAIN ListOf \/ T \in DOMAIN MapOf
    BY <1>2, Kinds
  <2> QED BY <2>1, KindOfType
<1>3. CASE T \in {"nothing", "below a scalar"}
  BY <1>3, KindOfType
<1>4. CASE T \in DOMAIN UStruct
  BY <1>4, KindOfType
<1> QED BY <1>1, <1>2, <1>3, <1>4 DEF ServerTypes

LEMMA IntKind == JsonKind(UStruct, "int") = "number"
<1>1. "int" \in DOMAIN KindOf /\ KindOf["int"] = "number"
  BY DEF KindOf
<1> QED BY <1>1, KindOfType

\* The kinds in a frame.
LEMMA FrameKinds ==
  ASSUME NEW T \in ServerKinds \cup ClientKinds, NEW v, Framed(T, v), NEW p \in DOMAIN v
  PROVE  /\ p \in Names /\ JsonKind(GoStruct, TypeAt(GoStruct, T, p)) # "none"
         /\ v[p].kind = JsonKind(GoStruct, TypeAt(GoStruct, T, p))
<1> DEFINE U == TypeAt(GoStruct, T, p)
<1>0. p \in Names
  BY DEF Framed, IsValue
<1>1. CASE p = << >>
  <2>1. U = T /\ JsonKind(GoStruct, T) = "object"
    BY <1>1, TypeOfAll, HeaderFields, KindOfType
  <2>2. v[p] = Node("object", NoText, 0)
    BY <1>1 DEF Framed
  <2>3. v[p].kind = "object"
    BY <2>2, NodeFacts
  <2> QED BY <1>0, <2>1, <2>3
<1>2. CASE p = <<"seed">>
  <2>1. U = "int" /\ \E n \in Int : v[p] = Node("number", NoText, n)
    BY <1>2 DEF Framed
  <2>2. v[p].kind = "number"
    BY <2>1, NodeFacts
  <2>3. JsonKind(GoStruct, "int") = "number"
    BY Kinds, KindOfType
  <2> QED BY <1>0, <2>1, <2>2, <2>3
<1>3. CASE MeantAt(T, v, p)
  <2>1. JsonKind(GoStruct, U) # "none" /\ \E t : \E n \in Int : v[p] = Node(JsonKind(GoStruct, U), t, n)
    BY <1>3 DEF MeantAt
  <2> HIDE DEF U
  <2>2. v[p].kind = JsonKind(GoStruct, U)
    BY <2>1, NodeFacts
  <2> QED BY <1>0, <2>1, <2>2 DEF U
<1> QED BY <1>1, <1>2, <1>3 DEF Framed

\* The server accepts such a frame and reads it as it is.
LEMMA Decoded ==
  ASSUME NEW T \in ServerKinds \cup ClientKinds, NEW v, Framed(T, v)
  PROVE  Decode(v) = T /\ GoRead(T, v) = [p \in DOMAIN v |-> v[p]]
<1>1. /\ Has(v, "protocol_version", "number") /\ v[<<"protocol_version">>].num = Version
      /\ Has(v, "type", "string") /\ v[<<"type">>].kind = "string" /\ v[<<"type">>].text = T
  <2>1. /\ v[<<"protocol_version">>] = Node("number", NoText, Version) /\ v[<<"type">>] = Node("string", T, 0)
        /\ <<"protocol_version">> \in DOMAIN v /\ <<"type">> \in DOMAIN v
    BY DEF Framed
  <2>2. /\ v[<<"protocol_version">>].kind = "number" /\ v[<<"protocol_version">>].num = Version
        /\ v[<<"type">>].kind = "string" /\ v[<<"type">>].text = T
    BY <2>1, NodeFacts
  <2> QED BY <2>1, <2>2 DEF Has
<1>2. GoFits(T, v)
  BY FrameKinds DEF GoFits
<1>3. Decode(v) = T
  BY <1>1, <1>2 DEF Decode
<1>4. \A p \in DOMAIN v : v[p].kind # "null"
  BY FrameKinds, NoNullKind
<1>5. GoRead(T, v) = [p \in DOMAIN v |-> v[p]]
  BY <1>4 DEF GoRead
<1> QED BY <1>3, <1>5

\* What the plugin imports of such a frame is the frame, but for a long seed.
LEMMA ImportedFrame ==
  ASSUME NEW T \in ServerKinds, NEW v, Framed(T, v)
  PROVE  /\ Imports(T, v) /\ DOMAIN Imported(T, v) = DOMAIN v
         /\ \A p \in DOMAIN v \ {<<"seed">>} : Imported(T, v)[p] = v[p]
         /\ \A n \in Int : <<"seed">> \in DOMAIN v /\ v[<<"seed">>] = Node("number", NoText, n)
               => Imported(T, v)[<<"seed">>] = Node("number", NoText, Round(n))
<1> DEFINE U(p) == TypeAt(UStruct, T, p)
           m == Imported(T, v)
<1>1. ASSUME NEW p \in DOMAIN v
      PROVE  /\ U(p) = TypeAt(GoStruct, T, p) /\ U(p) \in ServerTypes
             /\ JsonKind(UStruct, U(p)) = JsonKind(GoStruct, U(p)) /\ JsonKind(UStruct, U(p)) # "none"
             /\ v[p].kind = JsonKind(UStruct, U(p)) /\ v[p].kind # "null"
  <2>1. /\ p \in Names /\ JsonKind(GoStruct, TypeAt(GoStruct, T, p)) # "none"
        /\ v[p].kind = JsonKind(GoStruct, TypeAt(GoStruct, T, p))
    BY FrameKinds
  <2>2. U(p) = TypeAt(GoStruct, T, p) /\ U(p) \in ServerTypes
    BY <2>1, SameTypes
  <2> HIDE DEF U
  <2> QED BY <2>1, <2>2, SameKind, NoNullKind
<1>2. Imports(T, v)
  BY <1>1 DEF Imports
<1>3. \A p \in DOMAIN v : Kept(T, v, p)
  BY <1>1 DEF Kept
<1>4. DOMAIN m = DOMAIN v
  BY <1>3 DEF Imported
<1>5. ASSUME NEW p \in DOMAIN v
      PROVE  m[p] = IF U(p) = "int" THEN [v[p] EXCEPT !.num = Round(@)] ELSE v[p]
  <2>1. m[p] = CASE v[p].kind # JsonKind(UStruct, U(p)) -> Zero(UStruct, U(p))
                 [] U(p) = "int" /\ v[p].kind = "number" -> [v[p] EXCEPT !.num = Round(@)]
                 [] OTHER -> v[p]
    BY <1>3 DEF Imported
  <2>2. v[p].kind = JsonKind(UStruct, U(p))
    BY <1>1
  <2>3. U(p) = "int" => v[p].kind = "number"
    BY <2>2, IntKind
  <2> HIDE DEF U, m
  <2> QED BY <2>1, <2>2, <2>3
<1>6. ASSUME NEW k, NEW t, NEW n
      PROVE  [Node(k, t, n) EXCEPT !.num = Round(@)] = Node(k, t, Round(n))
  BY DEF Node
<1>7. ASSUME NEW p \in DOMAIN v \ {<<"seed">>} PROVE m[p] = v[p]
  <2> HIDE DEF m
  <2>1. CASE U(p) # "int"
    BY <1>5, <2>1
  <2>2. CASE U(p) = "int"
    <3>1. TypeAt(GoStruct, T, p) = "int"
      BY <1>1, <2>2
    <3>2. p # << >>
      <4>1. T # "int" /\ TypeAt(GoStruct, T, << >>) = T
        BY TypeOfAll DEF ServerKinds
      <4> QED BY <3>1, <4>1
    <3>3. MeantAt(T, v, p)
      BY <3>2 DEF Framed
    <3>4. PICK t : \E n \in Int : /\ v[p] = Node(JsonKind(GoStruct, TypeAt(GoStruct, T, p)), t, n)
                                  /\ Magnitude(n) <= Pow2[MantissaBits]
      BY <3>1, <3>3 DEF MeantAt
    <3>5. PICK n \in Int : /\ v[p] = Node(JsonKind(GoStruct, TypeAt(GoStruct, T, p)), t, n)
                           /\ Magnitude(n) <= Pow2[MantissaBits]
      BY <3>4
    <3>6. Round(n) = n
      BY <3>5, RoundExact
    <3>7. m[p] = [v[p] EXCEPT !.num = Round(@)]
      BY <1>5, <2>2
    <3> QED BY <1>6, <3>5, <3>6, <3>7
  <2> QED BY <2>1, <2>2
<1>8. ASSUME NEW n \in Int, <<"seed">> \in DOMAIN v, v[<<"seed">>] = Node("number", NoText, n)
      PROVE  m[<<"seed">>] = Node("number", NoText, Round(n))
  <2>1. U(<<"seed">>) = "int"
    BY <1>1, <1>8 DEF Framed
  <2>2. m[<<"seed">>] = [v[<<"seed">>] EXCEPT !.num = Round(@)]
    BY <1>5, <1>8, <2>1
  <2> HIDE DEF m
  <2> QED BY <1>6, <1>8, <2>2
<1> QED BY <1>2, <1>4, <1>7, <1>8

\* The plugin accepts such a frame, if what it checks holds.
LEMMA Parsed ==
  ASSUME NEW T \in ServerKinds, NEW v, Framed(T, v), Checks(T, Imported(T, v))
  PROVE  ParseServerMessage(v) = T
<1>1. /\ Has(v, "protocol_version", "number") /\ v[<<"protocol_version">>].num = Version
      /\ Has(v, "type", "string") /\ v[<<"type">>].text = T
  <2>1. /\ v[<<"protocol_version">>] = Node("number", NoText, Version) /\ v[<<"type">>] = Node("string", T, 0)
        /\ <<"protocol_version">> \in DOMAIN v /\ <<"type">> \in DOMAIN v
    BY DEF Framed
  <2>2. /\ v[<<"protocol_version">>].kind = "number" /\ v[<<"protocol_version">>].num = Version
        /\ v[<<"type">>].kind = "string" /\ v[<<"type">>].text = T
    BY <2>1, NodeFacts
  <2> QED BY <2>1, <2>2 DEF Has
<1>2. Imports(T, v) /\ DOMAIN Imported(T, v) = DOMAIN v
  BY ImportedFrame
<1>3. ~HasUnknownField(v, Imported(T, v))
  BY <1>2 DEF HasUnknownField
<1>4. StrictDeserialize(T, v)
  BY <1>2, <1>3 DEF StrictDeserialize
<1> QED BY <1>1, <1>4 DEF ParseServerMessage

\* Such a frame is complete, if the message has its fields.
LEMMA CompleteFrame ==
  ASSUME NEW T \in ServerKinds \cup ClientKinds, NEW v, Framed(T, v),
         \A n \in DOMAIN GoStruct[T] :
            <<n>> \in DOMAIN v \/ (from = "client" /\ n = "seed" /\ seed = Null)
  PROVE  Complete(T, v)
<1> SUFFICES ASSUME NEW p \in DOMAIN v, TypeAt(GoStruct, T, p) \in DOMAIN GoStruct,
                    NEW n \in DOMAIN GoStruct[TypeAt(GoStruct, T, p)]
             PROVE  p \o <<n>> \in DOMAIN v \/ (from = "client" /\ p \o <<n>> = <<"seed">> /\ seed = Null)
  BY DEF Complete
<1>1. CASE p = << >>
  <2>1. TypeAt(GoStruct, T, p) = T
    BY <1>1, TypeOfAll
  <2>2. <<n>> \in Seq(Name)
    BY FieldNames, OneName DEF Names
  <2>3. p \o <<n>> = <<n>>
    BY <1>1, <2>2, ConcatEmptySeq
  <2>4. <<n>> \in DOMAIN v \/ (from = "client" /\ n = "seed" /\ seed = Null)
    BY <2>1
  <2> QED BY <2>3, <2>4
<1>2. CASE p = <<"seed">>
  <2>1. TypeAt(GoStruct, T, p) = "int"
    BY <1>2 DEF Framed
  <2> QED BY <2>1, Kinds
<1>3. CASE MeantAt(T, v, p)
  BY <1>3 DEF MeantAt
<1> QED BY <1>1, <1>2, <1>3 DEF Framed

-----------------------------------------------------------------------------
(* What each end builds.                                                   *)

\* A body of a message, without the fields that every message has.
IsBody(T, body) ==
    /\ DOMAIN body \subseteq DOMAIN GoStruct[T] \ {"protocol_version", "type"}
    /\ \A n \in DOMAIN body : n = "seed" \/ Meant(GoStruct[T][n], body[n])
    /\ "seed" \in DOMAIN body => /\ GoStruct[T]["seed"] = "int"
                                 /\ \E n \in Int : body["seed"] = Num(n)

LEMMA BodyFramed ==
  ASSUME NEW T \in ServerKinds \cup ClientKinds, NEW body, IsBody(T, body)
  PROVE  Framed(T, Message(T, body))
BY FramedMessage DEF IsBody

LEMMA BodyField ==
  ASSUME NEW T \in ServerKinds \cup ClientKinds, NEW body, IsBody(T, body), NEW n \in DOMAIN body
  PROVE  <<n>> \in DOMAIN Message(T, body) /\ Message(T, body)[<<n>>] = body[n][<< >>]
BY FramedMessage DEF IsBody

\* What the plugin imports of a field.
LEMMA BodyImported ==
  ASSUME NEW T \in ServerKinds, NEW body, IsBody(T, body), NEW n \in DOMAIN body, n # "seed"
  PROVE  /\ <<n>> \in DOMAIN Imported(T, Message(T, body))
         /\ Imported(T, Message(T, body))[<<n>>] = body[n][<< >>]
<1> DEFINE v == Message(T, body)
<1>1. Framed(T, v) /\ <<n>> \in DOMAIN v /\ v[<<n>>] = body[n][<< >>]
  BY BodyFramed, BodyField
<1>2. <<n>> # <<"seed">>
  <2>1. <<n>>[1] = n /\ <<"seed">>[1] = "seed"
    OBVIOUS
  <2> QED BY <2>1
<1> HIDE DEF v
<1>3. DOMAIN Imported(T, v) = DOMAIN v /\ \A p \in DOMAIN v \ {<<"seed">>} : Imported(T, v)[p] = v[p]
  BY <1>1, ImportedFrame
<1> QED BY <1>1, <1>2, <1>3 DEF v

\* The fields of a message are in its frame.
LEMMA BodyComplete ==
  ASSUME NEW T \in ServerKinds \cup ClientKinds, NEW body, IsBody(T, body),
         \A n \in DOMAIN GoStruct[T] \ {"protocol_version", "type"} :
            n \in DOMAIN body \/ (from = "client" /\ n = "seed" /\ seed = Null)
  PROVE  Complete(T, Message(T, body))
<1> DEFINE v == Message(T, body)
<1>1. Framed(T, v)
  BY BodyFramed
<1>2. \A n \in DOMAIN body : <<n>> \in DOMAIN v
  BY BodyField
<1>3. <<"protocol_version">> \in DOMAIN v /\ <<"type">> \in DOMAIN v
  BY <1>1 DEF Framed
<1> HIDE DEF v
<1>4. \A n \in DOMAIN GoStruct[T] : <<n>> \in DOMAIN v \/ (from = "client" /\ n = "seed" /\ seed = Null)
  BY <1>2, <1>3
<1>5. Complete(T, v)
  BY <1>1, <1>4, CompleteFrame
<1> QED BY <1>5 DEF v

\* What SentIsUnderstood says of the reading of a frame v of a T.
ReadAs(T, v, got, read) ==
    /\ IsValue(v) /\ v[<<"type">>].text = T /\ got = T /\ Complete(T, v)
    /\ DOMAIN read = DOMAIN v
    /\ \A p \in DOMAIN v : read[p] = v[p] \/
         /\ T = "plan" /\ p = <<"seed">> /\ seed # Null
         /\ Magnitude(seed[<< >>].num) > Pow2[MantissaBits]

LEMMA ServerRead ==
  ASSUME NEW T \in ServerKinds, NEW body, IsBody(T, body),
         DOMAIN body = DOMAIN GoStruct[T] \ {"protocol_version", "type"},
         Checks(T, Imported(T, Message(T, body))),
         "seed" \in DOMAIN body =>
            /\ T = "plan"
            /\ \E n \in Int : /\ body["seed"] = Num(n)
                              /\ \/ Magnitude(n) <= Pow2[MantissaBits]
                                 \/ seed # Null /\ n = seed[<< >>].num
  PROVE  LET v == Message(T, body) IN ReadAs(T, v, ParseServerMessage(v), Imported(T, v))
<1> DEFINE v == Message(T, body)
           m == Imported(T, v)
<1>1. Framed(T, v) /\ Complete(T, v)
  BY BodyFramed, BodyComplete
<1>2. ASSUME NEW n \in DOMAIN body PROVE <<n>> \in DOMAIN v /\ v[<<n>>] = body[n][<< >>]
  BY BodyField
<1>3. Checks(T, m)
  OBVIOUS
<1> HIDE DEF v
<1>4. ParseServerMessage(v) = T
  BY <1>1, <1>3, Parsed
<1>5. /\ DOMAIN m = DOMAIN v /\ \A p \in DOMAIN v \ {<<"seed">>} : m[p] = v[p]
      /\ \A n \in Int : <<"seed">> \in DOMAIN v /\ v[<<"seed">>] = Node("number", NoText, n)
            => m[<<"seed">>] = Node("number", NoText, Round(n))
  BY <1>1, ImportedFrame
<1> HIDE DEF m
<1>6. v[<<"type">>].text = T
  <2>1. v[<<"type">>] = Node("string", T, 0)
    BY <1>1 DEF Framed
  <2> QED BY <2>1, NodeFacts
<1>7. ASSUME <<"seed">> \in DOMAIN v, m[<<"seed">>] # v[<<"seed">>]
      PROVE  T = "plan" /\ seed # Null /\ Magnitude(seed[<< >>].num) > Pow2[MantissaBits]
  <2>1. "seed" \in DOMAIN body
    <3>1. TypeAt(GoStruct, T, <<"seed">>) = "int"
      BY <1>1, <1>7 DEF Framed
    <3>2. TypeAt(GoStruct, T, <<"seed">>) = Member(GoStruct, T, "seed")
      <4>1. "seed" \in Name
        BY DEF Name
      <4> QED BY <4>1, TypeOfMember
    <3>3. "seed" \in DOMAIN GoStruct[T]
      <4>1. T \in DOMAIN GoStruct /\ T \notin DOMAIN ListOf /\ T \notin DOMAIN MapOf /\ T # "nothing"
        BY HeaderFields, Kinds
      <4>2. SUFFICES ASSUME "seed" \notin DOMAIN GoStruct[T] PROVE FALSE
        OBVIOUS
      <4>3. Member(GoStruct, T, "seed") = "nothing"
        BY <4>1, <4>2 DEF Member
      <4> QED BY <3>1, <3>2, <4>3
    <3> QED BY <3>3
  <2>2. PICK n \in Int : /\ body["seed"] = Num(n)
                         /\ \/ Magnitude(n) <= Pow2[MantissaBits]
                            \/ seed # Null /\ n = seed[<< >>].num
    BY <2>1
  <2>3. v[<<"seed">>] = Node("number", NoText, n)
    BY <1>2, <2>1, <2>2, LeafValue DEF Num
  <2>4. m[<<"seed">>] = Node("number", NoText, Round(n))
    BY <1>5, <1>7, <2>3
  <2>5. ~(Magnitude(n) <= Pow2[MantissaBits])
    <3>1. Round(n) # n
      BY <1>7, <2>3, <2>4
    <3> QED BY <3>1, RoundExact
  <2>6. Magnitude(n) \in Int /\ Pow2[MantissaBits] \in Int
    BY MantissaFacts DEF Magnitude
  <2>7. Magnitude(n) > Pow2[MantissaBits]
    BY <2>5, <2>6
  <2> QED BY <2>1, <2>2, <2>5, <2>7
<1>8. ReadAs(T, v, ParseServerMessage(v), m)
  BY <1>1, <1>4, <1>5, <1>6, <1>7 DEF ReadAs, Framed
<1> QED BY <1>8 DEF v, m

\* The seeds that may be requested.
Requests == {Null} \cup {Num(n) : n \in Int64s}

LEMMA RequestFacts ==
  ASSUME NEW r \in Requests, r # Null
  PROVE  /\ r[<< >>].num \in Int /\ r = Num(r[<< >>].num)
<1>1. PICK n \in Int64s : r = Num(n)
  BY DEF Requests
<1>2. n \in Int
  <2>1. SeedBits \in 0..SeedBits + 1
    BY ProtocolAssumption
  <2>2. Pow2[SeedBits] \in Nat
    BY <2>1, Powers
  <2> QED BY <2>2 DEF Int64s
<1>3. r[<< >>] = Node("number", NoText, n)
  BY <1>1, LeafValue DEF Num
<1>4. r[<< >>].num = n
  BY <1>3, NodeFacts
<1> QED BY <1>1, <1>2, <1>4

LEMMA Texts == "g" # NoText /\ "internal" # NoText /\ "rock" # NoText
BY DEF NoText

LEMMA ScalarAt ==
  /\ \A t : Str(t)[<< >>].text = t
  /\ \A n : Num(n)[<< >>].num = n
<1>1. ASSUME NEW t PROVE Str(t)[<< >>].text = t
  <2>1. Str(t)[<< >>] = Node("string", t, 0)
    BY LeafValue DEF Str
  <2> QED BY <2>1, NodeFacts
<1>2. ASSUME NEW n PROVE Num(n)[<< >>].num = n
  <2>1. Num(n)[<< >>] = Node("number", NoText, n)
    BY LeafValue DEF Num
  <2> QED BY <2>1, NodeFacts
<1> QED BY <1>1, <1>2

\* A plan.
LEMMA PlanRead ==
  ASSUME NEW s \in Int,
         Magnitude(s) <= Pow2[MantissaBits] \/ (seed # Null /\ s = seed[<< >>].num)
  PROVE  ReadAs("plan", PlanFrame(s), ParseServerMessage(PlanFrame(s)), Imported("plan", PlanFrame(s)))
<1> DEFINE counts == Obj([rock |-> Num(2)])
           body == [generation_id |-> Str("g"), seed |-> Num(s), total_assets |-> Num(2), categories |-> counts]
           m == Imported("plan", Message("plan", body))
<1>1. Meant("counts", counts)
  BY MeantCounts
<1>2. PlanFrame(s) = Message("plan", body)
  BY DEF PlanFrame
<1> HIDE DEF counts
<1>3. /\ DOMAIN GoStruct["plan"] = {"protocol_version", "type", "generation_id", "seed", "total_assets",
                                    "categories"}
      /\ GoStruct["plan"]["generation_id"] = "string" /\ GoStruct["plan"]["seed"] = "int"
      /\ GoStruct["plan"]["total_assets"] = "int" /\ GoStruct["plan"]["categories"] = "counts"
  BY DEF GoStruct
<1>4. /\ DOMAIN body = {"generation_id", "seed", "total_assets", "categories"}
      /\ body["generation_id"] = Str("g") /\ body["seed"] = Num(s)
      /\ body["total_assets"] = Num(2) /\ body["categories"] = counts
  OBVIOUS
<1> HIDE DEF body
<1>5. Meant("string", Str("g")) /\ Meant("int", Num(2))
  BY Scalars
<1>6. IsBody("plan", body)
  BY <1>1, <1>3, <1>4, <1>5 DEF IsBody
<1>7. "plan" \in ServerKinds
  BY DEF ServerKinds
<1>8. Checks("plan", m)
  <2>1. <<"generation_id">> \in DOMAIN m /\ m[<<"generation_id">>] = Str("g")[<< >>]
    BY <1>4, <1>6, <1>7, BodyImported
  <2>2. <<"total_assets">> \in DOMAIN m /\ m[<<"total_assets">>] = Num(2)[<< >>]
    BY <1>4, <1>6, <1>7, BodyImported
  <2> HIDE DEF m
  <2>3. TextAt(m, <<"generation_id">>) # NoText
    BY <2>1, ScalarAt, Texts DEF TextAt
  <2>4. m[<<"total_assets">>].num = 2
    BY <2>2, ScalarAt
  <2> QED BY <2>3, <2>4 DEF Checks
<1>9. LET v == Message("plan", body) IN ReadAs("plan", v, ParseServerMessage(v), Imported("plan", v))
  BY <1>3, <1>4, <1>6, <1>7, <1>8, ServerRead
<1> QED BY <1>2, <1>9

\* A complete.
LEMMA CompleteRead ==
  LET v == Message("complete", [generation_id |-> Str("g"),
              stats |-> Obj([assets |-> Num(2), elapsed_ms |-> Num(3), llm_ms |-> Num(0)])])
  IN  ReadAs("complete", v, ParseServerMessage(v), Imported("complete", v))
<1> DEFINE stats == Obj([assets |-> Num(2), elapsed_ms |-> Num(3), llm_ms |-> Num(0)])
           body == [generation_id |-> Str("g"), stats |-> stats]
           m == Imported("complete", Message("complete", body))
<1>1. Meant("Stats", stats)
  BY MeantStats
<1> HIDE DEF stats
<1>2. /\ DOMAIN GoStruct["complete"] = {"protocol_version", "type", "generation_id", "stats"}
      /\ GoStruct["complete"]["generation_id"] = "string" /\ GoStruct["complete"]["stats"] = "Stats"
  BY DEF GoStruct
<1>3. /\ DOMAIN body = {"generation_id", "stats"}
      /\ body["generation_id"] = Str("g") /\ body["stats"] = stats
  OBVIOUS
<1> HIDE DEF body
<1>4. IsBody("complete", body)
  BY <1>1, <1>2, <1>3, Scalars DEF IsBody
<1>5. "complete" \in ServerKinds
  BY DEF ServerKinds
<1>6. Checks("complete", m)
  <2>1. <<"generation_id">> \in DOMAIN m /\ m[<<"generation_id">>] = Str("g")[<< >>]
    BY <1>3, <1>4, <1>5, BodyImported
  <2> HIDE DEF m
  <2>2. TextAt(m, <<"generation_id">>) # NoText
    BY <2>1, ScalarAt, Texts DEF TextAt
  <2> QED BY <2>2 DEF Checks
<1>7. LET v == Message("complete", body)
      IN  ReadAs("complete", v, ParseServerMessage(v), Imported("complete", v))
  BY <1>2, <1>3, <1>4, <1>5, <1>6, ServerRead
<1> QED BY <1>7 DEF body, stats

\* An error.
LEMMA ErrorRead ==
  ASSUME NEW g \in {NoText, "g"}, NEW r \in {"true", "false"}
  PROVE  LET v == Message("error", [generation_id |-> Str(g), code |-> Str("internal"),
                      message |-> Str("m"), recoverable |-> Flag(r)])
         IN  ReadAs("error", v, ParseServerMessage(v), Imported("error", v))
<1> DEFINE body == [generation_id |-> Str(g), code |-> Str("internal"),
                    message |-> Str("m"), recoverable |-> Flag(r)]
           m == Imported("error", Message("error", body))
<1>1. /\ DOMAIN GoStruct["error"] = {"protocol_version", "type", "generation_id", "code", "message",
                                     "recoverable"}
      /\ GoStruct["error"]["generation_id"] = "string" /\ GoStruct["error"]["code"] = "string"
      /\ GoStruct["error"]["message"] = "string" /\ GoStruct["error"]["recoverable"] = "bool"
  BY DEF GoStruct
<1>2. /\ DOMAIN body = {"generation_id", "code", "message", "recoverable"}
      /\ body["generation_id"] = Str(g) /\ body["code"] = Str("internal")
      /\ body["message"] = Str("m") /\ body["recoverable"] = Flag(r)
  OBVIOUS
<1> HIDE DEF body
<1>3. IsBody("error", body)
  BY <1>1, <1>2, Scalars DEF IsBody
<1>4. "error" \in ServerKinds
  BY DEF ServerKinds
<1>5. Checks("error", m)
  <2>1. <<"code">> \in DOMAIN m /\ m[<<"code">>] = Str("internal")[<< >>]
    BY <1>2, <1>3, <1>4, BodyImported
  <2> HIDE DEF m
  <2>2. TextAt(m, <<"code">>) # NoText
    BY <2>1, ScalarAt, Texts DEF TextAt
  <2> QED BY <2>2 DEF Checks
<1>6. LET v == Message("error", body)
      IN  ReadAs("error", v, ParseServerMessage(v), Imported("error", v))
  BY <1>1, <1>2, <1>3, <1>4, <1>5, ServerRead
<1> QED BY <1>6 DEF body

\* A chunk: every entry has a category.
LEMMA EntryCategory ==
  ASSUME NEW tags, tags \subseteq Name
  PROVE  /\ <<"category">> \in DOMAIN Entry(tags)
         /\ Entry(tags)[<<"category">>].text = "rock"
<1> DEFINE g == Obj([location |-> Vec(-1, 1), yaw |-> Num(0), scale |-> Num(1)])
           h == Arr([i \in tags |-> Str("flora")])
           f == [category |-> Str("rock"), ground_snap |-> Flag("true"), tags |-> h, transform |-> g]
<1>1. Meant("Transform", g) /\ Meant("strings", h)
  <2> DEFINE x == [location |-> Vec(-1, 1), yaw |-> Num(0), scale |-> Num(1)]
             y == [i \in tags |-> Str("flora")]
  <2>1. DOMAIN x = DOMAIN GoStruct["Transform"] /\ "Transform" \in DOMAIN GoStruct
    BY DEF GoStruct
  <2>2. /\ GoStruct["Transform"]["location"] = "Vec2" /\ GoStruct["Transform"]["yaw"] = "float"
        /\ GoStruct["Transform"]["scale"] = "float"
    BY DEF GoStruct
  <2>3. \A n \in DOMAIN x : Meant(GoStruct["Transform"][n], x[n])
    BY <2>2, Scalars, MeantVec
  <2>4. DOMAIN y \subseteq Name /\ \A n \in DOMAIN y : Meant("string", y[n])
    BY Scalars
  <2> HIDE DEF x, y
  <2>5. Meant("Transform", Obj(x))
    BY <2>1, <2>3, MeantObj
  <2>6. \A n \in DOMAIN y : Meant(Member(GoStruct, "strings", n), y[n])
    BY <2>4, MemberOf
  <2>7. JsonKind(GoStruct, "strings") = "array" /\ "strings" \notin DOMAIN GoStruct
    BY KindOfType, Kinds
  <2>8. Meant("strings", Arr(y))
    BY <2>4, <2>6, <2>7, MeantTree DEF Arr
  <2> QED BY <2>5, <2>8 DEF x, y
<1> HIDE DEF g, h
<1>2. DOMAIN f = {"category", "ground_snap", "tags", "transform"} /\ f["category"] = Str("rock")
  OBVIOUS
<1>3. \A n \in DOMAIN f : IsValue(f[n])
  <2>1. IsValue(Str("rock")) /\ IsValue(Flag("true"))
    BY LeafValue DEF Str, Flag
  <2> QED BY <1>1, <2>1 DEF Meant
<1> HIDE DEF f
<1>4. Members(f)
  <2>1. DOMAIN f \subseteq Name
    BY <1>2 DEF Name
  <2> QED BY <1>3, <2>1 DEF Members, IsValue
<1>5. "category" \in DOMAIN f /\ << >> \in DOMAIN f["category"]
  BY <1>2, <1>3 DEF IsValue
<1>6. <<"category">> \in DOMAIN Tree("object", f) /\ Tree("object", f)[<<"category">>] = f["category"][<< >>]
  BY <1>4, <1>5, MemberAt
<1>7. Entry(tags) = Tree("object", f)
  BY DEF Entry, Obj, f, g, h
<1> QED BY <1>2, <1>6, <1>7, ScalarAt

LEMMA ChunkRead ==
  LET v == Message("chunk", [generation_id |-> Str("g"),
              assets |-> Arr([i \in {"0", "1"} |-> Entry(IF i = "0" THEN {} ELSE {"0"})])])
  IN  ReadAs("chunk", v, ParseServerMessage(v), Imported("chunk", v))
<1> DEFINE a == [i \in {"0", "1"} |-> Entry(IF i = "0" THEN {} ELSE {"0"})]
           list == Tree("array", a)
           body == [generation_id |-> Str("g"), assets |-> list]
           v == Message("chunk", body)
           m == Imported("chunk", v)
<1>1. /\ DOMAIN a = {"0", "1"} /\ DOMAIN a \subseteq Name
      /\ \A i \in DOMAIN a : /\ Meant("AssetEntry", a[i]) /\ <<"category">> \in DOMAIN a[i]
                             /\ a[i][<<"category">>].text = "rock"
  <2>1. DOMAIN a = {"0", "1"} /\ {} \subseteq Name /\ {"0"} \subseteq Name /\ {"0", "1"} \subseteq Name
    BY DEF Name
  <2>2. \A tags \in {{}, {"0"}} : /\ Meant("AssetEntry", Entry(tags)) /\ <<"category">> \in DOMAIN Entry(tags)
                                  /\ Entry(tags)[<<"category">>].text = "rock"
    BY <2>1, MeantEntry, EntryCategory
  <2>3. \A i \in DOMAIN a : \E tags \in {{}, {"0"}} : a[i] = Entry(tags)
    OBVIOUS
  <2> HIDE DEF a
  <2> QED BY <2>1, <2>2, <2>3
<1> HIDE DEF a
<1>2. Meant("assets", list)
  BY <1>1, MeantAssets DEF Arr
<1>3. Members(a)
  BY <1>1 DEF Members, Meant, IsValue
<1>4. /\ DOMAIN GoStruct["chunk"] = {"protocol_version", "type", "generation_id", "assets"}
      /\ GoStruct["chunk"]["generation_id"] = "string" /\ GoStruct["chunk"]["assets"] = "assets"
  BY DEF GoStruct
<1>5. DOMAIN body = {"generation_id", "assets"} /\ body["generation_id"] = Str("g") /\ body["assets"] = list
  OBVIOUS
<1> HIDE DEF body
<1>6. IsBody("chunk", body)
  <2> HIDE DEF list
  <2> QED BY <1>2, <1>4, <1>5, Scalars DEF IsBody
<1>7. "chunk" \in ServerKinds
  BY DEF ServerKinds
<1> DEFINE h == Header("chunk")
           f == [n \in DOMAIN h \cup DOMAIN body |-> IF n \in DOMAIN body THEN body[n] ELSE h[n]]
<1>8. v = Tree("object", f)
  BY DEF Message, Obj
<1>9. f["assets"] = list /\ "assets" \in DOMAIN f
  BY <1>5
<1>10. Members(f)
  <2>1. DOMAIN h = {"protocol_version", "type"} /\ h["protocol_version"] = Num(Version) /\ h["type"] = Str("chunk")
    BY DEF Header
  <2>2. DOMAIN f \subseteq Name
    <3> HIDE DEF h
    <3> QED BY <1>5, <2>1 DEF Name
  <2>3. \A n \in DOMAIN f : IsValue(f[n])
    <3>1. IsValue(Num(Version)) /\ IsValue(Str("chunk")) /\ IsValue(Str("g")) /\ IsValue(list)
      BY <1>2, LeafValue DEF Num, Str, Meant
    <3> HIDE DEF h, list
    <3> QED BY <1>5, <2>1, <3>1
  <2> HIDE DEF f
  <2> QED BY <2>2, <2>3 DEF Members, IsValue
<1> HIDE DEF f, h
<1>11. Framed("chunk", v)
  BY <1>6, <1>7, BodyFramed
<1> HIDE DEF v
<1>12. DOMAIN m = DOMAIN v /\ \A p \in DOMAIN v \ {<<"seed">>} : m[p] = v[p]
  BY <1>7, <1>11, ImportedFrame
<1>13. ASSUME NEW p \in DOMAIN v, Len(p) = 2, p[1] = "assets"
       PROVE  p \o <<"category">> \in DOMAIN v \ {<<"seed">>} /\ v[p \o <<"category">>].text = "rock"
  <2>0. p # << >>
    BY <1>13
  <2>1. \E n \in DOMAIN f : \E q \in DOMAIN f[n] : p = <<n>> \o q
    BY <1>8, <2>0 DEF Tree
  <2>2. PICK n \in DOMAIN f : \E q \in DOMAIN f[n] : p = <<n>> \o q
    BY <2>1
  <2>3. PICK q \in DOMAIN f[n] : p = <<n>> \o q
    BY <2>2
  <2>4. n \in Name /\ q \in Names /\ <<n>> \in Names /\ Len(<<n>>) = 1
    BY <1>10, OneName DEF Members
  <2>5. n = "assets"
    <3>1. Head(p) = n
      BY <2>3, <2>4, HeadTail
    <3> QED BY <1>13, <3>1
  <2>6. Len(q) = 1 /\ q # << >>
    <3> DEFINE s == <<n>>
    <3>1. s \in Names /\ Len(s) = 1 /\ p = s \o q
      BY <2>3, <2>4
    <3> HIDE DEF s
    <3>2. Len(p) = Len(s) + Len(q) /\ Len(q) \in Nat
      BY <2>4, <3>1, ConcatFacts
    <3>3. Len(q) = 1
      BY <1>13, <3>1, <3>2
    <3> QED BY <3>3
  <2>7. \E i \in DOMAIN a : \E r \in DOMAIN a[i] : q = <<i>> \o r
    <3>1. q \in DOMAIN Tree("array", a)
      BY <1>9, <2>5
    <3> QED BY <2>6, <3>1 DEF Tree
  <2>8. PICK i \in DOMAIN a : \E r \in DOMAIN a[i] : q = <<i>> \o r
    BY <2>7
  <2>9. PICK r \in DOMAIN a[i] : q = <<i>> \o r
    BY <2>8
  <2>10. i \in Name /\ r \in Names /\ <<i>> \in Names /\ Len(<<i>>) = 1
    BY <1>3, OneName DEF Members
  <2>11. q = <<i>>
    <3> DEFINE t == <<i>>
    <3>4. t \in Names /\ Len(t) = 1 /\ q = t \o r
      BY <2>9, <2>10
    <3> HIDE DEF t
    <3>1. Len(q) = Len(t) + Len(r) /\ Len(r) \in Nat
      BY <2>10, <3>4, ConcatFacts
    <3>2. Len(r) = 0
      BY <2>6, <3>1, <3>4
    <3>3. r = << >>
      <4>1. << >> \in Names /\ Len(<< >>) = 0
        BY DEF Names
      <4> QED BY <2>10, <3>2, <4>1, SameNames
    <3> QED BY <2>9, <2>10, <3>3, ConcatEmptySeq DEF Names
  <2> DEFINE c == <<"category">>
             s == <<n>>
             t == <<i>>
  <2>12. c \in DOMAIN a[i] /\ a[i][c].text = "rock" /\ c \in Names
    BY <1>1, <1>3 DEF Members
  <2>13. t \o c \in DOMAIN list /\ list[t \o c] = a[i][c]
    BY <1>3, <2>12, TreeMember
  <2>14. s \o (t \o c) \in DOMAIN v /\ v[s \o (t \o c)] = list[t \o c]
    BY <1>8, <1>9, <1>10, <2>5, <2>13, TreeMember
  <2>15. s \o (t \o c) # <<"seed">>
    <3>1. t \o c \in Names
      BY <2>10, <2>12, ConcatFacts
    <3>2. Head(s \o (t \o c)) = n
      BY <2>4, <3>1, HeadTail
    <3>3. Head(<<"seed">>) = "seed"
      OBVIOUS
    <3> HIDE DEF s, t, c
    <3> QED BY <2>5, <3>2, <3>3
  <2>16. p = s \o t
    BY <2>3, <2>11
  <2>17. s \in Names /\ t \in Names
    BY <2>4, <2>10
  <2> HIDE DEF s, t, c
  <2>18. p \o c = s \o (t \o c)
    BY <2>12, <2>16, <2>17, ConcatAssociative DEF Names
  <2> QED BY <2>12, <2>13, <2>14, <2>15, <2>18 DEF c
<1>14. Checks("chunk", m)
  <2>1. <<"generation_id">> \in DOMAIN m /\ m[<<"generation_id">>] = Str("g")[<< >>]
    BY <1>5, <1>6, <1>7, BodyImported DEF v
  <2> HIDE DEF m
  <2>2. TextAt(m, <<"generation_id">>) # NoText
    BY <2>1, ScalarAt, Texts DEF TextAt
  <2>3. \A p \in DOMAIN m : Len(p) = 2 /\ p[1] = "assets" => TextAt(m, p \o <<"category">>) # NoText
    BY <1>12, <1>13, Texts DEF TextAt
  <2> QED BY <2>2, <2>3 DEF Checks
<1>15. LET w == Message("chunk", body) IN ReadAs("chunk", w, ParseServerMessage(w), Imported("chunk", w))
  BY <1>4, <1>5, <1>6, <1>7, <1>14, ServerRead DEF v
<1> QED BY <1>15 DEF body, list, a, Arr

\* Every frame of the server is read as it was meant.
LEMMA ServerReads ==
  ASSUME seed \in Requests, NEW v \in ServerFrames(seed)
  PROVE  \E T \in ServerKinds : ReadAs(T, v, ParseServerMessage(v), Imported(T, v))
<1>1. "plan" \in ServerKinds /\ "chunk" \in ServerKinds /\ "complete" \in ServerKinds /\ "error" \in ServerKinds
  BY DEF ServerKinds
<1> DEFINE picked == IF seed = Null THEN ServerSeeds ELSE {seed[<< >>].num}
           chunk == Message("chunk", [generation_id |-> Str("g"),
              assets |-> Arr([i \in {"0", "1"} |-> Entry(IF i = "0" THEN {} ELSE {"0"})])])
           complete == Message("complete", [generation_id |-> Str("g"),
              stats |-> Obj([assets |-> Num(2), elapsed_ms |-> Num(3), llm_ms |-> Num(0)])])
           error(g, r) == Message("error", [generation_id |-> Str(g), code |-> Str("internal"),
              message |-> Str("m"), recoverable |-> Flag(r)])
<1>2. \/ \E s \in picked : v = PlanFrame(s)
      \/ v = chunk \/ v = complete
      \/ \E g \in {NoText, "g"} : \E r \in {"true", "false"} : v = error(g, r)
  BY DEF ServerFrames
<1>3. CASE \E s \in picked : v = PlanFrame(s)
  <2>1. PICK s \in picked : v = PlanFrame(s)
    BY <1>3
  <2>2. s \in Int /\ (Magnitude(s) <= Pow2[MantissaBits] \/ (seed # Null /\ s = seed[<< >>].num))
    BY SmallNumbers, RequestFacts
  <2>3. ReadAs("plan", v, ParseServerMessage(v), Imported("plan", v))
    BY <2>1, <2>2, PlanRead
  <2> QED BY <1>1, <2>3
<1>4. CASE v = chunk
  BY <1>1, <1>4, ChunkRead
<1>5. CASE v = complete
  BY <1>1, <1>5, CompleteRead
<1>6. CASE \E g \in {NoText, "g"} : \E r \in {"true", "false"} : v = error(g, r)
  <2>1. PICK g \in {NoText, "g"}, r \in {"true", "false"} : v = error(g, r)
    BY <1>6
  <2>2. ReadAs("error", v, ParseServerMessage(v), Imported("error", v))
    BY <2>1, ErrorRead
  <2> QED BY <1>1, <2>2
<1> HIDE DEF picked, chunk, complete, error
<1> QED BY <1>2, <1>3, <1>4, <1>5, <1>6

\* A frame of the client is read as it was meant.
LEMMA ClientRead ==
  ASSUME NEW T \in ClientKinds, NEW body, IsBody(T, body), from = "client",
         \A n \in DOMAIN GoStruct[T] \ {"protocol_version", "type"} :
            n \in DOMAIN body \/ (n = "seed" /\ seed = Null)
  PROVE  LET v == Message(T, body) IN ReadAs(T, v, Decode(v), GoRead(T, v))
<1> DEFINE v == Message(T, body)
<1>1. Framed(T, v) /\ Complete(T, v)
  BY BodyFramed, BodyComplete
<1> HIDE DEF v
<1>2. Decode(v) = T /\ GoRead(T, v) = [p \in DOMAIN v |-> v[p]]
  BY <1>1, Decoded
<1>3. v[<<"type">>].text = T
  <2>1. v[<<"type">>] = Node("string", T, 0)
    BY <1>1 DEF Framed
  <2> QED BY <2>1, NodeFacts
<1>4. ReadAs(T, v, Decode(v), GoRead(T, v))
  BY <1>1, <1>2, <1>3 DEF ReadAs, Framed
<1> QED BY <1>4 DEF v

LEMMA GenerateRead ==
  ASSUME from = "client", seed \in Requests
  PROVE  LET v == GenerateFrame(seed) IN ReadAs("generate", v, Decode(v), GoRead("generate", v))
<1> DEFINE bounds == Obj([min |-> Vec(-1, -1), max |-> Vec(1, 1)])
           base == [generation_id |-> Str("g"), prompt |-> Str("p"), bounds |-> bounds]
           body == IF seed = Null THEN base
                   ELSE [n \in DOMAIN base \cup {"seed"} |-> IF n = "seed" THEN seed ELSE base[n]]
<1>1. Meant("Bounds", bounds)
  BY MeantBounds
<1>2. GenerateFrame(seed) = Message("generate", body)
  BY DEF GenerateFrame
<1> HIDE DEF bounds
<1>3. /\ DOMAIN GoStruct["generate"] = {"protocol_version", "type", "generation_id", "prompt", "seed", "bounds"}
      /\ GoStruct["generate"]["generation_id"] = "string" /\ GoStruct["generate"]["prompt"] = "string"
      /\ GoStruct["generate"]["seed"] = "int" /\ GoStruct["generate"]["bounds"] = "Bounds"
  BY DEF GoStruct
<1>4. /\ DOMAIN base = {"generation_id", "prompt", "bounds"} /\ base["generation_id"] = Str("g")
      /\ base["prompt"] = Str("p") /\ base["bounds"] = bounds
  OBVIOUS
<1> HIDE DEF base
<1>5. /\ \A n \in {"generation_id", "prompt", "bounds"} : n \in DOMAIN body /\ body[n] = base[n]
      /\ DOMAIN body \subseteq {"generation_id", "prompt", "bounds", "seed"}
      /\ "seed" \in DOMAIN body <=> seed # Null
      /\ seed # Null => body["seed"] = seed
  BY <1>4
<1> HIDE DEF body
<1>6. seed # Null => \E n \in Int : seed = Num(n)
  BY RequestFacts
<1>7. \A n \in {"generation_id", "prompt", "bounds"} : Meant(GoStruct["generate"][n], base[n])
  BY <1>1, <1>3, <1>4, Scalars
<1>8. IsBody("generate", body)
  BY <1>3, <1>5, <1>6, <1>7 DEF IsBody
<1>9. "generate" \in ClientKinds
  BY DEF ClientKinds
<1>10. \A n \in DOMAIN GoStruct["generate"] \ {"protocol_version", "type"} :
          n \in DOMAIN body \/ (n = "seed" /\ seed = Null)
  BY <1>3, <1>5
<1>11. LET v == Message("generate", body) IN ReadAs("generate", v, Decode(v), GoRead("generate", v))
  BY <1>8, <1>9, <1>10, ClientRead
<1> QED BY <1>2, <1>11

LEMMA ClientReads ==
  ASSUME from = "client", seed \in Requests, NEW v \in ClientFrames(seed)
  PROVE  \E T \in ClientKinds : ReadAs(T, v, Decode(v), GoRead(T, v))
<1>1. "generate" \in ClientKinds /\ "cancel" \in ClientKinds /\ "hello" \in ClientKinds
  BY DEF ClientKinds
<1>2. \/ v = GenerateFrame(seed) \/ v = Message("cancel", Id)
      \/ \E m \in HelloManifests : v = Message("hello", [manifest |-> Obj(m)])
  BY DEF ClientFrames, HelloManifests
<1>3. CASE v = GenerateFrame(seed)
  BY <1>1, <1>3, GenerateRead
<1>4. CASE v = Message("cancel", Id)
  <2>1. /\ DOMAIN GoStruct["cancel"] = {"protocol_version", "type", "generation_id"}
        /\ GoStruct["cancel"]["generation_id"] = "string"
    BY DEF GoStruct
  <2>2. DOMAIN Id = {"generation_id"} /\ Id["generation_id"] = Str("g")
    BY DEF Id
  <2>3. IsBody("cancel", Id)
    BY <2>1, <2>2, Scalars DEF IsBody
  <2>4. ReadAs("cancel", v, Decode(v), GoRead("cancel", v))
    BY <1>1, <1>4, <2>1, <2>2, <2>3, ClientRead
  <2> QED BY <1>1, <2>4
<1>5. CASE \E m \in HelloManifests : v = Message("hello", [manifest |-> Obj(m)])
  <2>1. PICK m \in HelloManifests : v = Message("hello", [manifest |-> Obj(m)])
    BY <1>5
  <2> DEFINE body == [manifest |-> Obj(m)]
  <2>2. DOMAIN body = {"manifest"} /\ body["manifest"] = Obj(m)
    OBVIOUS
  <2>3. v = Message("hello", body)
    BY <2>1
  <2> HIDE DEF body
  <2>4. /\ DOMAIN GoStruct["hello"] = {"protocol_version", "type", "manifest"}
        /\ GoStruct["hello"]["manifest"] = "manifest"
    BY DEF GoStruct
  <2>5. IsBody("hello", body)
    BY <2>2, <2>4, MeantManifest DEF IsBody
  <2>6. ReadAs("hello", v, Decode(v), GoRead("hello", v))
    BY <1>1, <2>2, <2>3, <2>4, <2>5, ClientRead
  <2> QED BY <1>1, <2>6
<1> QED BY <1>2, <1>3, <1>4, <1>5

-----------------------------------------------------------------------------
(* The invariant.                                                          *)

\* What a receiver makes of the frame.
Answer == IF from = "client" THEN Decode(frame) ELSE ParseServerMessage(frame)

\* The frame is a value, it is what its end built until something changes it,
\* and a result is the decoder's.
IndInv ==
    /\ from \in {"server", "client"} /\ changes \in Nat /\ seed \in Requests
    /\ IsValue(frame)
    /\ changes = 0 => frame \in IF from = "server" THEN ServerFrames(seed) ELSE ClientFrames(seed)
    /\ result # "none" => result = Answer

LEMMA InitIndInv == Init => IndInv
<1> SUFFICES ASSUME Init PROVE IndInv
  OBVIOUS
<1>1. seed \in Requests /\ changes = 0 /\ result = "none"
  BY DEF Init, Requests
<1>2. CASE from = "server" /\ frame \in ServerFrames(seed)
  <2>1. IsValue(frame)
    BY <1>1, <1>2, ServerReads DEF ReadAs
  <2> QED BY <1>1, <1>2, <2>1 DEF IndInv
<1>3. CASE from = "client" /\ frame \in ClientFrames(seed)
  <2>1. IsValue(frame)
    BY <1>1, <1>3, ClientReads DEF ReadAs
  <2> QED BY <1>1, <1>3, <2>1 DEF IndInv
<1> QED BY <1>2, <1>3 DEF Init

LEMMA NextIndInv == IndInv /\ [Next]_vars => IndInv'
<1> SUFFICES ASSUME IndInv, [Next]_vars PROVE IndInv'
  OBVIOUS
<1>1. CASE Change
  <2>1. /\ result = "none" /\ UNCHANGED <<seed, from, result>> /\ changes' = changes + 1
        /\ frame' \in Changed(frame)
    BY <1>1 DEF Change
  <2>2. IsValue(frame')
    BY <2>1, ChangedValue DEF IndInv
  <2>3. changes' \in Nat /\ changes' # 0
    BY <2>1 DEF IndInv
  <2> QED BY <2>1, <2>2, <2>3 DEF IndInv
<1>2. CASE Receive
  BY <1>2 DEF Receive, IndInv, Answer
<1>3. CASE UNCHANGED vars
  BY <1>3 DEF vars, IndInv, Answer
<1> QED BY <1>1, <1>2, <1>3 DEF Next, Received

\* The frame stays a value, and a result is the decoder's.
THEOREM SpecIndInv == Spec => []IndInv
BY InitIndInv, NextIndInv, PTL DEF Spec

\* What a decoder accepts has no member that its struct lacks, at any depth and
\* whatever changes were made to the frame.  The server's takes no object for a
\* scalar either; the plugin's does, and the theorem says nothing of what is in
\* it.
THEOREM SpecStructsAreStrict == Spec => []StructsAreStrict
<1>1. IndInv => StructsAreStrict
  <2> SUFFICES ASSUME IndInv, Accepted, NEW p \in DOMAIN frame
               PROVE  LET T == TypeAt(GoStruct, result, p) IN
                      T # "nothing" /\ (from = "client" => T # "below a scalar")
    BY DEF StructsAreStrict
  <2>1. result \in ServerKinds \cup ClientKinds
    BY DEF Accepted
  <2>2. result \notin {"none", "malformed", "mismatch", "invalid"}
    BY <2>1 DEF ServerKinds, ClientKinds
  <2>3. result = Answer /\ IsValue(frame)
    BY <2>2 DEF IndInv
  <2>4. CASE from = "client"
    <3>1. GoFits(result, frame)
      BY <2>2, <2>3, <2>4 DEF Answer, Decode
    <3> QED BY <3>1, StrictDecode
  <2>5. CASE from # "client"
    <3>1. result \in ServerKinds /\ StrictDeserialize(result, frame)
      BY <2>2, <2>3, <2>5 DEF Answer, ParseServerMessage
    <3>2. TypeAt(UStruct, result, p) # "nothing"
      BY <2>3, <3>1, StrictImport
    <3>3. TypeAt(UStruct, result, p) = TypeAt(GoStruct, result, p)
      <4>1. p \in Names
        BY <2>3 DEF IsValue
      <4> QED BY <3>1, <4>1, SameTypes
    <3> QED BY <2>5, <3>2, <3>3
  <2> QED BY <2>4, <2>5
<1> QED BY <1>1, SpecIndInv, PTL

\* What one end builds, the other end accepts and reads with every field and
\* value, for any seed that the server picks and any seed that is requested, but
\* for the echo of a requested seed that a double cannot hold.
THEOREM SpecSentIsUnderstood == Spec => []SentIsUnderstood
<1>1. IndInv => SentIsUnderstood
  <2> SUFFICES ASSUME IndInv, result # "none", changes = 0
               PROVE  /\ result = frame[<<"type">>].text
                      /\ Complete(result, frame)
                      /\ LET read == IF from = "server" THEN Imported(result, frame) ELSE GoRead(result, frame)
                         IN  /\ DOMAIN read = DOMAIN frame
                             /\ \A p \in DOMAIN frame : read[p] = frame[p] \/
                                  /\ result = "plan" /\ p = <<"seed">> /\ seed # Null
                                  /\ Magnitude(seed[<< >>].num) > Pow2[MantissaBits]
    BY DEF SentIsUnderstood
  <2>1. result = Answer /\ seed \in Requests /\ from \in {"server", "client"}
    BY DEF IndInv
  <2>2. CASE from = "server"
    <3>1. frame \in ServerFrames(seed)
      BY <2>2 DEF IndInv
    <3>2. PICK T \in ServerKinds : ReadAs(T, frame, ParseServerMessage(frame), Imported(T, frame))
      BY <2>1, <3>1, ServerReads
    <3>3. result = T
      BY <2>1, <2>2, <3>2 DEF Answer, ReadAs
    <3> QED BY <2>2, <3>2, <3>3 DEF ReadAs
  <2>3. CASE from = "client"
    <3>1. frame \in ClientFrames(seed)
      BY <2>3 DEF IndInv
    <3>2. PICK T \in ClientKinds : ReadAs(T, frame, Decode(frame), GoRead(T, frame))
      BY <2>1, <2>3, <3>1, ClientReads
    <3>3. result = T
      BY <2>1, <2>3, <3>2 DEF Answer, ReadAs
    <3> QED BY <2>3, <3>2, <3>3 DEF ReadAs
  <2> QED BY <2>1, <2>2, <2>3
<1> QED BY <1>1, SpecIndInv, PTL
=============================================================================
