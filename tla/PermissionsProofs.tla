-------------------------- MODULE PermissionsProofs --------------------------
(***************************************************************************)
(* Which directories are granted, for any list of paths, any prompt and    *)
(* any filesystem.                                                         *)
(***************************************************************************)
EXTENDS Permissions, SequenceTheorems, WellFoundedInduction, TLAPS

-----------------------------------------------------------------------------
(* Induction, as the least element of a set of numbers.                    *)

LEMMA LeastNumber ==
  ASSUME NEW T \in SUBSET Nat, T # {}
  PROVE  \E n \in T : \A m \in T : n <= m
<1>1. PICK n \in T : \A m \in T : ~ (<<m, n>> \in OpToRel(<, Nat))
  BY NatLessThanWellFounded, WFMin
<1>2. \A m \in Nat, k \in Nat : m < k => <<m, k>> \in OpToRel(<, Nat)
  BY DEF OpToRel
<1>3. ASSUME NEW m \in T PROVE n <= m
  <2>1. n \in Nat /\ m \in Nat
    OBVIOUS
  <2>2. ~ (m < n)
    BY <1>1, <1>2, <2>1, Zenon
  <2>. QED
    BY <2>1, <2>2
<1>. QED
  BY <1>3

-----------------------------------------------------------------------------
(* Normalisation keeps a path a path.                                      *)

\* kept is a table of what is left of the first i of the pieces.
Filters(kept, pieces, n) ==
  kept = [i \in 0 .. n |-> IF i = 0 THEN <<>>
                           ELSE IF pieces[i] = Dot THEN kept[i - 1]
                           ELSE Append(kept[i - 1], pieces[i])]

LEMMA FilterExists ==
  ASSUME NEW pieces \in Seq(Piece)
  PROVE  \E kept : Filters(kept, pieces, Len(pieces))
<1>. DEFINE Missing == {n \in 0 .. Len(pieces) : ~ \E kept : Filters(kept, pieces, n)}
<1>1. Len(pieces) \in Nat
  BY LenProperties
<1>2. ASSUME Missing # {} PROVE FALSE
  <2>1. PICK n \in Missing : \A m \in Missing : n <= m
    <3>1. Missing \in SUBSET Nat
      BY <1>1
    <3>. HIDE DEF Missing
    <3>. QED
      BY <1>2, <3>1, LeastNumber
  <2>2. n # 0
    <3>1. Filters([i \in 0 .. 0 |-> <<>>], pieces, 0)
      BY DEF Filters
    <3>. QED
      BY <3>1
  <2>3. n - 1 \in 0 .. Len(pieces) /\ n - 1 \notin Missing /\ n \in Nat
    BY <1>1, <2>1, <2>2
  <2>4. PICK kept : Filters(kept, pieces, n - 1)
    BY <2>3
  <2>. DEFINE longer == [i \in 0 .. n |->
                           IF i < n THEN kept[i]
                           ELSE IF pieces[i] = Dot THEN kept[n - 1]
                           ELSE Append(kept[n - 1], pieces[i])]
  <2>5. Filters(longer, pieces, n)
    <3>1. ASSUME NEW i \in 0 .. n
          PROVE  longer[i] = IF i = 0 THEN <<>>
                             ELSE IF pieces[i] = Dot THEN longer[i - 1]
                             ELSE Append(longer[i - 1], pieces[i])
      <4>1. CASE i = n
        <5>1. longer[n - 1] = kept[n - 1]
          BY <2>2, <2>3
        <5>. QED
          BY <2>2, <4>1, <5>1
      <4>2. CASE i < n
        <5>1. i \in 0 .. n - 1 /\ longer[i] = kept[i]
          BY <2>3, <4>2
        <5>2. kept[i] = IF i = 0 THEN <<>>
                        ELSE IF pieces[i] = Dot THEN kept[i - 1]
                        ELSE Append(kept[i - 1], pieces[i])
          BY <2>4, <5>1 DEF Filters
        <5>3. i # 0 => longer[i - 1] = kept[i - 1]
          BY <2>3, <4>2
        <5>. QED
          BY <5>1, <5>2, <5>3
      <4>. QED
        BY <2>3, <4>1, <4>2
    <3>. HIDE DEF longer
    <3>2. DOMAIN longer = 0 .. n /\ longer = [i \in 0 .. n |-> longer[i]]
      BY DEF longer
    <3>. QED
      BY <3>1, <3>2 DEF Filters
  <2>. QED
    BY <2>1, <2>5
<1>. QED
  BY <1>1, <1>2

LEMMA WithoutDotsType ==
  ASSUME NEW pieces \in Seq(Piece)
  PROVE  WithoutDots(pieces) \in Seq(Piece)
<1>. DEFINE kept == CHOOSE k : Filters(k, pieces, Len(pieces))
            Bad == {n \in 0 .. Len(pieces) : kept[n] \notin Seq(Piece)}
<1>1. Len(pieces) \in Nat /\ \A i \in 1 .. Len(pieces) : pieces[i] \in Piece
  BY LenProperties, ElementOfSeq
<1>2. WithoutDots(pieces) = kept[Len(pieces)]
  BY DEF WithoutDots, Filters
<1>3. Filters(kept, pieces, Len(pieces))
  BY FilterExists
<1>4. ASSUME Bad # {} PROVE FALSE
  <2>1. PICK n \in Bad : \A m \in Bad : n <= m
    <3>1. Bad \in SUBSET Nat
      BY <1>1
    <3>. HIDE DEF Bad
    <3>. QED
      BY <1>4, <3>1, LeastNumber
  <2>. HIDE DEF kept
  <2>2. kept[n] = IF n = 0 THEN <<>>
                  ELSE IF pieces[n] = Dot THEN kept[n - 1]
                  ELSE Append(kept[n - 1], pieces[n])
    BY <1>3, <2>1 DEF Filters
  <2>3. n # 0
    BY <2>1, <2>2, EmptySeq
  <2>4. kept[n - 1] \in Seq(Piece) /\ pieces[n] \in Piece
    BY <1>1, <2>1, <2>3
  <2>5. Append(kept[n - 1], pieces[n]) \in Seq(Piece)
    BY <2>4, AppendProperties
  <2>. QED
    BY <2>1, <2>2, <2>3, <2>4, <2>5
<1>5. kept[Len(pieces)] \in Seq(Piece)
  <2>. HIDE DEF kept
  <2>. QED
    BY <1>1, <1>4
<1>. QED
  BY <1>2, <1>5

-----------------------------------------------------------------------------
(* Matching.  MatchParts tries the pieces one by one; LaidOver says at once *)
(* where all of them end.  The two agree because LaidOver obeys the         *)
(* recursive equation that defines MatchParts, and that has one solution.  *)

\* end says where the pieces of the entry end in the candidate.
Ends(entry, candidate, end) ==
  /\ end \in [0 .. Len(entry) -> 0 .. Len(candidate)]
  /\ end[0] = 0
  /\ \A i \in 1 .. Len(entry) :
       IF entry[i] = Star THEN end[i] >= end[i - 1]
       ELSE end[i] = end[i - 1] + 1 /\ candidate[end[i]] = entry[i]

LEMMA LaidOverEnds ==
  ASSUME NEW entry, NEW candidate
  PROVE  LaidOver(entry, candidate) <=> \E end : Ends(entry, candidate, end)
BY DEF LaidOver, Ends

LEMMA NonDecreasing ==
  ASSUME NEW n \in Nat, NEW f \in [0 .. n -> Nat],
         \A i \in 1 .. n : f[i] >= f[i - 1],
         NEW i \in 0 .. n
  PROVE  \A j \in i .. n : f[i] <= f[j]
<1>. DEFINE Below == {j \in i .. n : f[j] < f[i]}
<1>1. ASSUME Below # {} PROVE FALSE
  <2>1. PICK j \in Below : \A k \in Below : j <= k
    <3>1. Below \in SUBSET Nat
      OBVIOUS
    <3>. HIDE DEF Below
    <3>. QED
      BY <1>1, <3>1, LeastNumber
  <2>2. j # i
    BY <2>1
  <2>3. j - 1 \in i .. n /\ j - 1 \notin Below /\ j \in 1 .. n
    BY <2>1, <2>2
  <2>4. f[j - 1] >= f[i] /\ f[j] >= f[j - 1]
    BY <2>3
  <2>. QED
    BY <2>1, <2>3, <2>4
<1>2. ASSUME NEW j \in i .. n PROVE f[i] <= f[j]
  <2>1. j \notin Below
    BY <1>1
  <2>2. f[i] \in Nat /\ f[j] \in Nat
    OBVIOUS
  <2>. QED
    BY <2>1, <2>2
<1>. QED
  BY <1>2

LEMMA RestOfPath ==
  ASSUME NEW c \in Seq(Piece), NEW n \in 0 .. Len(c)
  PROVE  /\ SubSeq(c, n + 1, Len(c)) \in Seq(Piece)
         /\ Len(SubSeq(c, n + 1, Len(c))) = Len(c) - n
         /\ \A k \in 1 .. Len(c) - n : SubSeq(c, n + 1, Len(c))[k] = c[k + n]
<1>1. Len(c) \in Nat /\ \A k \in 1 .. Len(c) : c[k] \in Piece
  BY LenProperties, ElementOfSeq
<1>2. \A k \in n + 1 .. Len(c) : c[k] \in Piece
  BY <1>1
<1>3. /\ SubSeq(c, n + 1, Len(c)) \in Seq(Piece)
      /\ Len(SubSeq(c, n + 1, Len(c)))
           = IF n + 1 <= Len(c) THEN Len(c) - (n + 1) + 1 ELSE 0
      /\ \A k \in 1 .. Len(c) - (n + 1) + 1 :
           SubSeq(c, n + 1, Len(c))[k] = c[(n + 1) + k - 1]
  BY <1>1, <1>2, SubSeqProperties
<1>4. ASSUME NEW k \in 1 .. Len(c) - n
      PROVE  SubSeq(c, n + 1, Len(c))[k] = c[k + n]
  <2>1. k \in 1 .. Len(c) - (n + 1) + 1 /\ (n + 1) + k - 1 = k + n
    BY <1>1
  <2>. QED
    BY <1>3, <2>1
<1>5. (IF n + 1 <= Len(c) THEN Len(c) - (n + 1) + 1 ELSE 0) = Len(c) - n
  BY <1>1
<1>. QED
  BY <1>3, <1>4, <1>5

\* The first piece of a pattern takes n pieces of the candidate.
Takes(p, c, n) == p[1] = Star \/ (n = 1 /\ c[1] = p[1])

LEMMA LaidOverStep ==
  ASSUME NEW p \in Seq(Piece), NEW c \in Seq(Piece), p # <<>>
  PROVE  LaidOver(p, c) <=>
           \E n \in 0 .. Len(c) : /\ Takes(p, c, n)
                                  /\ LaidOver(Tail(p), SubSeq(c, n + 1, Len(c)))
<1>1. /\ Len(c) \in Nat /\ Len(p) \in Nat /\ Len(p) >= 1
      /\ Tail(p) \in Seq(Piece) /\ Len(Tail(p)) = Len(p) - 1
      /\ \A i \in 1 .. Len(p) - 1 : Tail(p)[i] = p[i + 1]
  BY LenProperties, EmptySeq, HeadTailProperties
<1>2. ASSUME LaidOver(p, c)
      PROVE  \E n \in 0 .. Len(c) : /\ Takes(p, c, n)
                                    /\ LaidOver(Tail(p), SubSeq(c, n + 1, Len(c)))
  <2>1. PICK end : Ends(p, c, end)
    BY <1>2, LaidOverEnds
  <2>. DEFINE n == end[1]
              d == SubSeq(c, n + 1, Len(c))
              rest == [i \in 0 .. Len(p) - 1 |-> end[i + 1] - n]
  <2>2. /\ end \in [0 .. Len(p) -> 0 .. Len(c)] /\ end[0] = 0
        /\ \A i \in 1 .. Len(p) :
             IF p[i] = Star THEN end[i] >= end[i - 1]
             ELSE end[i] = end[i - 1] + 1 /\ c[end[i]] = p[i]
    BY <2>1 DEF Ends
  <2>3. n \in 0 .. Len(c) /\ Takes(p, c, n)
    BY <1>1, <2>2 DEF Takes
  <2>4. /\ d \in Seq(Piece) /\ Len(d) = Len(c) - n
        /\ \A k \in 1 .. Len(c) - n : d[k] = c[k + n]
    BY <2>3, RestOfPath
  <2>5. \A i \in 1 .. Len(p) : end[i] >= n
    <3>1. end \in [0 .. Len(p) -> Nat]
      BY <1>1, <2>2
    <3>2. ASSUME NEW i \in 1 .. Len(p) PROVE end[i] >= end[i - 1]
      <4>1. i - 1 \in 0 .. Len(p)
        BY <1>1
      <4>2. end[i - 1] \in Nat
        BY <3>1, <4>1
      <4>3. end[i] >= end[i - 1] \/ end[i] = end[i - 1] + 1
        BY <2>2, Zenon
      <4>. QED
        BY <4>2, <4>3
    <3>3. \A j \in 1 .. Len(p) : end[1] <= end[j]
      <4>1. Len(p) \in Nat /\ 1 \in 0 .. Len(p)
        BY <1>1
      <4>. QED
        BY <3>1, <3>2, <4>1, NonDecreasing
    <3>. QED
      BY <3>1, <3>3
  <2>. HIDE DEF d, n
  <2>6. rest \in [0 .. Len(p) - 1 -> 0 .. Len(c) - n] /\ rest[0] = 0
    BY <1>1, <2>2, <2>3, <2>5 DEF n
  <2>7. ASSUME NEW i \in 1 .. Len(p) - 1
        PROVE  IF Tail(p)[i] = Star THEN rest[i] >= rest[i - 1]
               ELSE rest[i] = rest[i - 1] + 1 /\ d[rest[i]] = Tail(p)[i]
    <3>1. /\ Tail(p)[i] = p[i + 1] /\ i + 1 \in 1 .. Len(p)
      BY <1>1
    <3>2. /\ end[i] \in 0 .. Len(c) /\ end[i + 1] \in 0 .. Len(c)
          /\ n \in 0 .. Len(c)
      <4>1. i \in 0 .. Len(p) /\ i + 1 \in 0 .. Len(p)
        BY <1>1
      <4>. QED
        BY <2>2, <2>3, <4>1
    <3>3. rest[i] = end[i + 1] - n
      BY <1>1
    <3>4. rest[i - 1] = end[i] - n
      <4>1. i - 1 \in 0 .. Len(p) - 1 /\ (i - 1) + 1 = i
        BY <1>1
      <4>. QED
        BY <4>1
    <3>. HIDE DEF rest
    <3>5. IF p[i + 1] = Star THEN end[i + 1] >= end[i]
          ELSE end[i + 1] = end[i] + 1 /\ c[end[i + 1]] = p[i + 1]
      BY <2>2, <3>1
    <3>6. CASE p[i + 1] = Star
      BY <3>1, <3>5, <3>6, <3>2, <3>3, <3>4
    <3>7. CASE p[i + 1] # Star
      <4>1. end[i] >= n /\ end[i + 1] = end[i] + 1 /\ c[end[i + 1]] = p[i + 1]
        BY <2>5, <3>5, <3>7
      <4>2. rest[i] \in 1 .. Len(c) - n /\ rest[i] + n = end[i + 1]
        BY <1>1, <3>2, <3>3, <4>1
      <4>3. d[rest[i]] = p[i + 1]
        BY <2>4, <4>1, <4>2
      <4>. QED
        BY <3>1, <3>7, <3>2, <3>3, <3>4, <4>1, <4>3
    <3>. QED
      BY <3>6, <3>7
  <2>8. Ends(Tail(p), d, rest)
    <3>. HIDE DEF rest
    <3>. QED
      BY <1>1, <2>4, <2>6, <2>7 DEF Ends
  <2>9. LaidOver(Tail(p), d)
    BY <2>8, LaidOverEnds
  <2>. QED
    BY <2>3, <2>9 DEF d
<1>3. ASSUME NEW n \in 0 .. Len(c), Takes(p, c, n),
             LaidOver(Tail(p), SubSeq(c, n + 1, Len(c)))
      PROVE  LaidOver(p, c)
  <2>. DEFINE d == SubSeq(c, n + 1, Len(c))
  <2>1. PICK rest : Ends(Tail(p), d, rest)
    BY <1>3, LaidOverEnds
  <2>2. /\ d \in Seq(Piece) /\ Len(d) = Len(c) - n
        /\ \A k \in 1 .. Len(c) - n : d[k] = c[k + n]
    BY RestOfPath
  <2>. HIDE DEF d
  <2>3. /\ rest \in [0 .. Len(p) - 1 -> 0 .. Len(c) - n] /\ rest[0] = 0
        /\ \A i \in 1 .. Len(p) - 1 :
             IF Tail(p)[i] = Star THEN rest[i] >= rest[i - 1]
             ELSE rest[i] = rest[i - 1] + 1 /\ d[rest[i]] = Tail(p)[i]
    BY <1>1, <2>1, <2>2 DEF Ends
  <2>. DEFINE end == [i \in 0 .. Len(p) |-> IF i = 0 THEN 0 ELSE rest[i - 1] + n]
  <2>4. end \in [0 .. Len(p) -> 0 .. Len(c)] /\ end[0] = 0 /\ end[1] = n
    BY <1>1, <2>3
  <2>5. ASSUME NEW i \in 1 .. Len(p)
        PROVE  IF p[i] = Star THEN end[i] >= end[i - 1]
               ELSE end[i] = end[i - 1] + 1 /\ c[end[i]] = p[i]
    <3>1. CASE i = 1
      BY <1>3, <2>4, <3>1 DEF Takes
    <3>2. CASE i # 1
      <4>1. /\ i - 1 \in 1 .. Len(p) - 1 /\ Tail(p)[i - 1] = p[i]
            /\ end[i] = rest[i - 1] + n /\ end[i - 1] = rest[(i - 1) - 1] + n
            /\ rest[i - 1] \in 0 .. Len(c) - n
            /\ rest[(i - 1) - 1] \in 0 .. Len(c) - n
        BY <1>1, <2>3, <3>2
      <4>2. IF p[i] = Star THEN rest[i - 1] >= rest[(i - 1) - 1]
            ELSE rest[i - 1] = rest[(i - 1) - 1] + 1 /\ d[rest[i - 1]] = p[i]
        BY <2>3, <4>1
      <4>3. CASE p[i] = Star
        BY <1>1, <4>1, <4>2, <4>3
      <4>4. CASE p[i] # Star
        <5>1. rest[i - 1] \in 1 .. Len(c) - n
          BY <1>1, <4>1, <4>2, <4>4
        <5>2. c[rest[i - 1] + n] = p[i]
          BY <2>2, <4>2, <4>4, <5>1
        <5>3. end[i] = end[i - 1] + 1
          BY <1>1, <4>1, <4>2, <4>4
        <5>4. c[end[i]] = p[i]
          BY <4>1, <5>2
        <5>. QED
          BY <4>4, <5>3, <5>4
      <4>. QED
        BY <4>3, <4>4
    <3>. QED
      BY <3>1, <3>2
  <2>6. Ends(p, c, end)
    <3>. HIDE DEF end
    <3>. QED
      BY <2>4, <2>5 DEF Ends
  <2>. QED
    BY <2>6, LaidOverEnds
<1>. QED
  BY <1>2, <1>3

LEMMA NothingLaidOver ==
  ASSUME NEW c \in Seq(Piece)
  PROVE  LaidOver(<<>>, c)
<1>1. Len(c) \in Nat /\ Len(<<>>) = 0
  BY LenProperties
<1>2. Ends(<<>>, c, [i \in 0 .. 0 |-> 0])
  BY <1>1 DEF Ends
<1>. QED
  BY <1>2, LaidOverEnds

\* The right-hand side of MatchParts, and what it is to obey the equation.
OneStep(match, pattern, candidate) ==
  \/ pattern = <<>>
  \/ /\ pattern # <<>> /\ pattern[1] = Star
     /\ \E n \in Spans(candidate) :
          match[Tail(pattern)][SubSeq(candidate, n + 1, Len(candidate))]
  \/ /\ pattern # <<>> /\ pattern[1] # Star
     /\ candidate # <<>> /\ candidate[1] = pattern[1]
     /\ match[Tail(pattern)][Tail(candidate)]

Matches(match) ==
  match = [pattern \in Seq(Piece) |->
            [candidate \in Seq(Piece) |-> OneStep(match, pattern, candidate)]]

LEMMA MatchesAt ==
  ASSUME NEW match, Matches(match), NEW p \in Seq(Piece), NEW c \in Seq(Piece)
  PROVE  match[p][c] = OneStep(match, p, c)
<1>1. match[p] = [candidate \in Seq(Piece) |-> OneStep(match, p, candidate)]
  BY DEF Matches
<1>. QED
  BY <1>1

LEMMA LaidOverMatches ==
  Matches([p \in Seq(Piece) |-> [c \in Seq(Piece) |-> LaidOver(p, c)]])
<1>. DEFINE laid == [p \in Seq(Piece) |-> [c \in Seq(Piece) |-> LaidOver(p, c)]]
<1>1. ASSUME NEW p \in Seq(Piece), NEW c \in Seq(Piece)
      PROVE  LaidOver(p, c) = OneStep(laid, p, c)
  <2>1. CASE p = <<>>
    BY <2>1, NothingLaidOver DEF LaidOver, OneStep
  <2>2. CASE p # <<>>
    <3>1. Tail(p) \in Seq(Piece)
      BY <2>2, HeadTailProperties
    <3>2. \A n \in 0 .. Len(c) :
            laid[Tail(p)][SubSeq(c, n + 1, Len(c))]
              = LaidOver(Tail(p), SubSeq(c, n + 1, Len(c)))
      BY <3>1, RestOfPath
    <3>3. c # <<>> => /\ Tail(c) \in Seq(Piece) /\ 1 \in 0 .. Len(c)
                      /\ Tail(c) = SubSeq(c, 1 + 1, Len(c))
      <4>1. ASSUME c # <<>> PROVE 1 \in 0 .. Len(c)
        BY <4>1, LenProperties, EmptySeq
      <4>. QED
        BY <4>1, HeadTailProperties, TailIsSubSeq
    <3>4. c = <<>> => Len(c) = 0
      BY EmptySeq
    <3>. HIDE DEF laid
    <3>5. LaidOver(p, c) <=>
            \E n \in 0 .. Len(c) : /\ Takes(p, c, n)
                                   /\ laid[Tail(p)][SubSeq(c, n + 1, Len(c))]
      BY <2>2, <3>2, LaidOverStep
    <3>6. CASE p[1] = Star
      BY <2>2, <3>5, <3>6 DEF Takes, Spans, LaidOver, OneStep
    <3>7. CASE p[1] # Star
      <4>1. LaidOver(p, c) <=>
              \E n \in 0 .. Len(c) : /\ n = 1 /\ c[1] = p[1]
                                     /\ laid[Tail(p)][SubSeq(c, n + 1, Len(c))]
        BY <3>5, <3>7, Zenon DEF Takes
      <4>2. CASE c = <<>>
        <5>1. ~ LaidOver(p, c)
          BY <3>4, <4>1, <4>2
        <5>. QED
          BY <2>2, <3>7, <4>2, <5>1, Zenon DEF LaidOver, OneStep
      <4>3. CASE c # <<>>
        <5>1. LaidOver(p, c) <=> c[1] = p[1] /\ laid[Tail(p)][Tail(c)]
          BY <3>3, <4>1, <4>3, Zenon
        <5>2. LaidOver(p, c) \in BOOLEAN
          BY Zenon DEF LaidOver
        <5>. QED
          BY <2>2, <3>2, <3>3, <3>7, <4>3, <5>1, <5>2, Zenon DEF OneStep
      <4>. QED
        BY <4>2, <4>3
    <3>. QED
      BY <3>6, <3>7
  <2>. QED
    BY <2>1, <2>2
<1>. QED
  BY <1>1 DEF Matches

LEMMA MatchesLaidOver ==
  ASSUME NEW pattern \in Seq(Piece), NEW candidate \in Seq(Piece)
  PROVE  MatchParts[pattern][candidate] <=> LaidOver(pattern, candidate)
<1>. DEFINE Bad == {n \in Nat : \E p, c \in Seq(Piece) :
                      Len(p) = n /\ MatchParts[p][c] # LaidOver(p, c)}
<1>1. Matches(MatchParts)
  <2>1. MatchParts = CHOOSE match : Matches(match)
    BY Zenon DEF MatchParts, Matches, OneStep
  <2>. QED
    BY <2>1, LaidOverMatches
<1>. DEFINE laid == [p \in Seq(Piece) |-> [c \in Seq(Piece) |-> LaidOver(p, c)]]
<1>2. Matches(laid)
  BY LaidOverMatches
<1>3. \A p, c \in Seq(Piece) : laid[p][c] = LaidOver(p, c)
  OBVIOUS
<1>. HIDE DEF laid
<1>4. ASSUME Bad # {} PROVE FALSE
  <2>1. PICK n \in Bad : \A m \in Bad : n <= m
    <3>1. Bad \in SUBSET Nat
      OBVIOUS
    <3>. HIDE DEF Bad
    <3>. QED
      BY <1>4, <3>1, LeastNumber
  <2>2. PICK p \in Seq(Piece), c \in Seq(Piece) :
          Len(p) = n /\ MatchParts[p][c] # LaidOver(p, c)
    BY <2>1
  <2>3. CASE p = <<>>
    <3>1. MatchParts[p][c] = laid[p][c]
      BY <1>1, <1>2, <2>2, <2>3, MatchesAt, Zenon DEF OneStep
    <3>. QED
      BY <1>3, <2>2, <3>1
  <2>4. CASE p # <<>>
    <3>1. /\ Tail(p) \in Seq(Piece) /\ Len(Tail(p)) \in Nat
          /\ Len(Tail(p)) = n - 1 /\ n \in Nat
      BY <2>2, <2>4, LenProperties, HeadTailProperties
    <3>2. ~ (n <= Len(Tail(p)))
      BY <3>1
    <3>3. Len(Tail(p)) \notin Bad
      BY <2>1, <3>2
    <3>4. \A d \in Seq(Piece) : MatchParts[Tail(p)][d] = laid[Tail(p)][d]
      <4>1. ASSUME NEW d \in Seq(Piece)
            PROVE  MatchParts[Tail(p)][d] = LaidOver(Tail(p), d)
        BY <3>1, <3>3, Zenon
      <4>. QED
        BY <1>3, <3>1, <4>1, Zenon
    <3>5. /\ \A m \in Spans(c) : SubSeq(c, m + 1, Len(c)) \in Seq(Piece)
          /\ c # <<>> => Tail(c) \in Seq(Piece)
      BY RestOfPath, HeadTailProperties DEF Spans
    <3>6. MatchParts[p][c] = laid[p][c]
      <4>1. MatchParts[p][c] = OneStep(MatchParts, p, c)
        BY <1>1, <2>2, MatchesAt
      <4>2. laid[p][c] = OneStep(laid, p, c)
        BY <1>2, <2>2, MatchesAt
      <4>3. (\E m \in Spans(c) : MatchParts[Tail(p)][SubSeq(c, m + 1, Len(c))])
              <=> \E m \in Spans(c) : laid[Tail(p)][SubSeq(c, m + 1, Len(c))]
        BY <3>4, <3>5, Zenon
      <4>. QED
        BY <3>4, <3>5, <4>1, <4>2, <4>3 DEF OneStep
    <3>. QED
      BY <1>3, <2>2, <3>6
  <2>. QED
    BY <2>3, <2>4
<1>5. Len(pattern) \in Nat /\ Len(pattern) \notin Bad
  BY <1>4, LenProperties
<1>. QED
  BY <1>5

-----------------------------------------------------------------------------
(* Entries without an asterisk.                                            *)

LEMMA PrefixPieces ==
  ASSUME NEW s \in Seq(Piece), NEW t \in Seq(Piece)
  PROVE  IsPrefix(s, t) <=>
           Len(s) <= Len(t) /\ \A i \in 1 .. Len(s) : s[i] = t[i]
<1>1. /\ Len(s) \in Nat /\ Len(t) \in Nat
      /\ \A i \in 1 .. Len(s) : s[i] \in Piece
      /\ \A i \in 1 .. Len(t) : t[i] \in Piece
  BY LenProperties, ElementOfSeq
<1>2. /\ SubSeq(s, 1, Len(s)) \in Seq(Piece)
      /\ Len(SubSeq(s, 1, Len(s))) = Len(s)
      /\ \A i \in 1 .. Len(s) : SubSeq(s, 1, Len(s))[i] = s[i]
  BY <1>1, SubSeqProperties
<1>3. ASSUME Len(s) <= Len(t)
      PROVE  /\ SubSeq(t, 1, Len(s)) \in Seq(Piece)
             /\ Len(SubSeq(t, 1, Len(s))) = Len(s)
             /\ \A i \in 1 .. Len(s) : SubSeq(t, 1, Len(s))[i] = t[i]
  BY <1>1, <1>3, SubSeqProperties
<1>4. ASSUME Len(s) <= Len(t)
      PROVE  SubSeq(s, 1, Len(s)) = SubSeq(t, 1, Len(s))
               <=> \A i \in 1 .. Len(s) : s[i] = t[i]
  <2>1. ASSUME \A i \in 1 .. Len(s) : s[i] = t[i]
        PROVE  SubSeq(s, 1, Len(s)) = SubSeq(t, 1, Len(s))
    <3>1. \A i \in 1 .. Len(s) : SubSeq(s, 1, Len(s))[i] = SubSeq(t, 1, Len(s))[i]
      BY <1>2, <1>3, <1>4, <2>1
    <3>. QED
      BY <1>2, <1>3, <1>4, <3>1, SeqEqual
  <2>2. ASSUME SubSeq(s, 1, Len(s)) = SubSeq(t, 1, Len(s)), NEW i \in 1 .. Len(s)
        PROVE  s[i] = t[i]
    BY <1>2, <1>3, <1>4, <2>2, Zenon
  <2>. QED
    BY <2>1, <2>2
<1>. QED
  BY <1>4 DEF IsPrefix

LEMMA LaidOverPrefix ==
  ASSUME NEW e \in Seq(Piece), NEW c \in Seq(Piece),
         \A i \in 1 .. Len(e) : e[i] # Star
  PROVE  LaidOver(e, c) <=> IsPrefix(e, c)
<1>1. Len(e) \in Nat /\ Len(c) \in Nat
  BY LenProperties
<1>2. ASSUME LaidOver(e, c) PROVE IsPrefix(e, c)
  <2>1. PICK end : Ends(e, c, end)
    BY <1>2, LaidOverEnds
  <2>2. /\ end \in [0 .. Len(e) -> 0 .. Len(c)] /\ end[0] = 0
        /\ \A i \in 1 .. Len(e) : end[i] = end[i - 1] + 1 /\ c[end[i]] = e[i]
    BY <2>1 DEF Ends
  <2>. DEFINE Off == {i \in 0 .. Len(e) : end[i] # i}
  <2>3. ASSUME Off # {} PROVE FALSE
    <3>1. PICK i \in Off : \A j \in Off : i <= j
      <4>1. Off \in SUBSET Nat
        BY <1>1
      <4>. HIDE DEF Off
      <4>. QED
        BY <2>3, <4>1, LeastNumber
    <3>2. i # 0 /\ i \in Nat
      BY <1>1, <2>2, <3>1
    <3>3. i \in 1 .. Len(e) /\ i - 1 \in 0 .. Len(e) /\ i - 1 \notin Off
      BY <1>1, <3>1, <3>2
    <3>4. end[i] = end[i - 1] + 1 /\ end[i - 1] = i - 1
      BY <2>2, <3>3
    <3>. QED
      BY <3>1, <3>2, <3>4
  <2>4. \A i \in 0 .. Len(e) : end[i] = i
    BY <2>3
  <2>5. Len(e) <= Len(c)
    <3>1. Len(e) \in 0 .. Len(e)
      BY <1>1
    <3>2. end[Len(e)] \in 0 .. Len(c)
      BY <2>2, <3>1
    <3>. QED
      BY <1>1, <2>4, <3>1, <3>2
  <2>6. ASSUME NEW i \in 1 .. Len(e) PROVE e[i] = c[i]
    <3>1. end[i] = i
      BY <1>1, <2>4
    <3>. QED
      BY <2>2, <3>1
  <2>. QED
    BY <2>5, <2>6, PrefixPieces
<1>3. ASSUME IsPrefix(e, c) PROVE LaidOver(e, c)
  <2>1. Len(e) <= Len(c) /\ \A i \in 1 .. Len(e) : e[i] = c[i]
    BY <1>3, PrefixPieces
  <2>2. Ends(e, c, [i \in 0 .. Len(e) |-> i])
    BY <1>1, <2>1 DEF Ends
  <2>. QED
    BY <2>2, LaidOverEnds
<1>. QED
  BY <1>2, <1>3

LEMMA EntryAllowsLaidOver ==
  ASSUME NEW e \in Path, NEW c \in Path
  PROVE  EntryAllows(e, c) <=>
           /\ LaidOver(e.parts, c.parts)
           /\ e.parts = <<>> \/ HasStar(e) \/ e.lead = c.lead
<1>1. e.parts \in Seq(Piece) /\ c.parts \in Seq(Piece)
  BY DEF Path
<1>2. CASE HasStar(e)
  <2>1. MatchParts[e.parts][c.parts] <=> LaidOver(e.parts, c.parts)
    BY <1>1, MatchesLaidOver
  <2>. QED
    BY <1>2, <2>1 DEF EntryAllows
<1>3. CASE ~HasStar(e)
  <2>1. ASSUME NEW i \in 1 .. Len(e.parts) PROVE e.parts[i] # Star
    <3>1. DOMAIN e.parts = 1 .. Len(e.parts)
      BY <1>1, LenProperties
    <3>2. e.parts[i] \in Range(e.parts)
      BY <3>1 DEF Range
    <3>. QED
      BY <1>3, <3>2 DEF HasStar
  <2>2. LaidOver(e.parts, c.parts) <=> IsPrefix(e.parts, c.parts)
    BY <1>1, <2>1, LaidOverPrefix
  <2>3. LaidOver(<<>>, c.parts)
    BY <1>1, NothingLaidOver
  <2>. QED
    BY <1>3, <2>2, <2>3 DEF EntryAllows
<1>. QED
  BY <1>2, <1>3

-----------------------------------------------------------------------------
(* The configuration and the calls.                                        *)

LEMMA CleanPath ==
  ASSUME NEW path \in Path
  PROVE  /\ Clean(path) \in Path /\ Clean(path) # None
         /\ Clean(path).lead = path.lead
<1>1. Clean(path) = [lead |-> path.lead, parts |-> WithoutDots(path.parts)]
  BY DEF Clean, Path
<1>2. WithoutDots(path.parts) \in Seq(Piece)
  BY WithoutDotsType DEF Path
<1>. QED
  BY <1>1, <1>2, PathAssumption DEF Path

\* What a call gets for its request.
Outcome(request) ==
  IF request.says # "path" THEN [ok |-> FALSE, error |-> request.says]
  ELSE LET candidate == SafeNormalize(request.path)
       IN IF /\ candidate # None /\ PathIsAllowed(candidate)
             /\ NormalizeForDispatch(candidate) # None
            THEN [ok |-> TRUE, path |-> NormalizeForDispatch(candidate)]
            ELSE [ok |-> FALSE, error |-> "invalid"]

\* The worker has the paths that its file grants, all of them absolute.
Loaded ==
  /\ filesystem.write = Granted
  /\ filesystem.canonicalize = declared.canonicalize
  /\ \A entry \in Granted : entry \in Path /\ entry.lead # 0

Answered ==
  /\ asked.says = "path" => asked.path \in Path
  /\ answer = Outcome(asked)

\* The inductive invariant: no call is answered before the file was loaded,
\* and a call that is, is answered from the paths that the file grants.
PermissionsInv ==
  /\ filesystem # None => Loaded
  /\ asked # None => filesystem # None /\ Answered

LEMMA LoadGrants ==
  ASSUME PermissionsInv, NEW file \in Files, Load(file)
  PROVE  Loaded'
<1>1. Root \in Path /\ Root.lead # 0
  BY EmptySeq DEF Root, Path
<1>2. \A path \in file.write : path \in Path /\ path.lead # 0
  BY PathAssumption DEF Load
<1>3. /\ declared' = file
      /\ filesystem'.write = (IF file.implicitRoot THEN RootForNone(file) ELSE file).write
      /\ filesystem'.canonicalize = file.canonicalize
  BY DEF Load
<1>4. filesystem'.write = Granted'
  BY <1>3 DEF Granted, RootForNone
<1>5. Granted' \subseteq {Root} \cup file.write
  BY <1>3 DEF Granted
<1>. QED
  BY <1>1, <1>2, <1>3, <1>4, <1>5 DEF Loaded

LEMMA PermissionsStep ==
  ASSUME PermissionsInv, [Next]_vars
  PROVE  PermissionsInv'
<1>1. ASSUME NEW file \in Files, Load(file) PROVE PermissionsInv'
  <2>1. asked' = None
    BY <1>1 DEF PermissionsInv, Load
  <2>. QED
    BY <1>1, <2>1, LoadGrants DEF PermissionsInv
<1>2. ASSUME NEW request \in [says : {"missing", "invalid"}]
                             \cup [says : {"path"}, path : Requests],
             Call(request)
      PROVE  PermissionsInv'
  <2>1. /\ declared' = declared /\ filesystem' = filesystem /\ filesystem # None
        /\ asked' = request /\ answer' = Outcome(request)
    BY <1>2, Zenon DEF Call, Outcome
  <2>2. Outcome(request) = Outcome(request)'
    BY <2>1 DEF Outcome, PathIsAllowed, NormalizeForDispatch
  <2>3. request.says = "path" => request.path \in Path
    BY PathAssumption
  <2>4. Loaded'
    BY <2>1 DEF PermissionsInv, Loaded, Granted
  <2>. QED
    BY <2>1, <2>2, <2>3, <2>4 DEF PermissionsInv, Answered
<1>3. CASE Return
  <2>1. Loaded => Loaded'
    BY <1>3 DEF Return, Loaded, Granted
  <2>. QED
    BY <1>3, <2>1 DEF PermissionsInv, Return
<1>4. CASE UNCHANGED vars
  BY <1>4 DEF PermissionsInv, Loaded, Granted, Answered, Outcome, PathIsAllowed,
              NormalizeForDispatch, vars
<1>. QED
  BY <1>1, <1>2, <1>3, <1>4 DEF Next

LEMMA PermissionsAlways == Spec => []PermissionsInv
<1>1. Init => PermissionsInv
  BY DEF Init, PermissionsInv
<1>. QED
  BY <1>1, PermissionsStep, PTL DEF Spec

LEMMA GrantedFollows ==
  ASSUME PermissionsInv
  PROVE  GrantedExactly
<1>. SUFFICES ASSUME asked # None, ~declared.canonicalize
              PROVE  answer.ok <=>
                /\ asked.says = "path"
                /\ asked.path.lead # 0 /\ ~Traverses(asked.path)
                /\ \E entry \in Granted :
                     LET e == Clean(entry)
                     IN /\ ~Traverses(entry)
                        /\ LaidOver(e.parts, Clean(asked.path).parts)
                        /\ e.parts = <<>> \/ HasStar(e) \/ e.lead = asked.path.lead
  BY DEF GrantedExactly
<1>1. Loaded /\ Answered /\ ~filesystem.canonicalize
  BY DEF PermissionsInv, Loaded
<1>2. CASE asked.says # "path"
  BY <1>1, <1>2 DEF Answered, Outcome
<1>3. CASE asked.says = "path" /\ (asked.path.lead = 0 \/ Traverses(asked.path))
  BY <1>1, <1>3 DEF Answered, Outcome, SafeNormalize
<1>4. CASE asked.says = "path" /\ asked.path.lead # 0 /\ ~Traverses(asked.path)
  <2>. DEFINE candidate == Clean(asked.path)
  <2>1. /\ SafeNormalize(asked.path) = candidate /\ candidate # None
        /\ candidate \in Path /\ candidate.lead = asked.path.lead
    BY <1>1, <1>4, CleanPath DEF Answered, SafeNormalize
  <2>. HIDE DEF candidate
  <2>2. answer.ok <=> PathIsAllowed(candidate)
    BY <1>1, <1>4, <2>1 DEF Answered, Outcome, NormalizeForDispatch
  <2>3. ASSUME NEW entry \in Granted
        PROVE  /\ SafeNormalize(entry) # None <=> ~Traverses(entry)
               /\ ~Traverses(entry) => SafeNormalize(entry) = Clean(entry)
               /\ EntryAllows(Clean(entry), candidate) <=>
                    /\ LaidOver(Clean(entry).parts, candidate.parts)
                    /\ \/ Clean(entry).parts = <<>>
                       \/ HasStar(Clean(entry))
                       \/ Clean(entry).lead = asked.path.lead
    <3>1. entry \in Path /\ entry.lead # 0
      BY <1>1 DEF Loaded
    <3>2. Clean(entry) \in Path /\ Clean(entry) # None
      BY <3>1, CleanPath
    <3>. QED
      BY <2>1, <3>1, <3>2, EntryAllowsLaidOver DEF SafeNormalize
  <2>4. PathIsAllowed(candidate) <=>
          \E entry \in Granted :
            ~Traverses(entry) /\ EntryAllows(Clean(entry), candidate)
    <3>1. PathIsAllowed(candidate) <=>
            \E entry \in Granted :
              /\ SafeNormalize(entry) # None
              /\ EntryAllows(SafeNormalize(entry), candidate)
      BY <1>1 DEF PathIsAllowed, Loaded
    <3>. QED
      BY <2>3, <3>1
  <2>. QED
    BY <1>4, <2>2, <2>3, <2>4 DEF candidate
<1>. QED
  BY <1>2, <1>3, <1>4

LEMMA InsideFollows ==
  ASSUME PermissionsInv
  PROVE  StaysInside
<1>. SUFFICES ASSUME asked # None, declared.canonicalize, answer.ok
              PROVE  /\ Prefixes(answer.path.parts) \subseteq Dirs
                     /\ \E entry \in Granted :
                          LET place == Resolve(Clean(entry))
                          IN /\ ~Traverses(entry) /\ place # None
                             /\ IsPrefix(place.parts, answer.path.parts)
  BY DEF StaysInside
<1>1. Loaded /\ Answered /\ filesystem.canonicalize
  BY DEF PermissionsInv, Loaded
<1>. DEFINE candidate == SafeNormalize(asked.path)
<1>2. /\ PathIsAllowed(candidate)
      /\ Resolve(candidate) # None
      /\ answer.path = Resolve(candidate)
  BY <1>1 DEF Answered, Outcome, NormalizeForDispatch
<1>. HIDE DEF candidate
<1>3. answer.path.parts \in Dirs
  BY <1>2 DEF Resolve
<1>4. PICK entry \in Granted :
        SafeNormalize(entry) # None /\ CanonicalAllows(entry, candidate)
  BY <1>1, <1>2 DEF PathIsAllowed, Loaded
<1>5. ~Traverses(entry) /\ SafeNormalize(entry) = Clean(entry)
  BY <1>4 DEF SafeNormalize
<1>6. /\ Resolve(Clean(entry)) # None
      /\ IsPrefix(Resolve(Clean(entry)).parts, answer.path.parts)
  BY <1>2, <1>4, <1>5, Zenon DEF CanonicalAllows, ResolveCandidate
<1>. QED
  BY <1>3, <1>5, <1>6, DirsAssumption

(* Comparing paths only, a call is let through exactly if its directory is *)
(* absolute, without "..", and at or below an entry of the file, for any   *)
(* patterns and paths of any length: the piece by piece matching of        *)
(* _match_parts accepts what the documentation promises and nothing else.  *)
THEOREM CallsGrantedExactly == Spec => []GrantedExactly
BY PermissionsAlways, GrantedFollows, PTL

(* In canonical mode no call is sent to a place outside of what the        *)
(* granted entries resolve to, wherever the links of the filesystem lead   *)
(* (_canonical_path_is_allowed, _normalize_for_dispatch).                  *)
THEOREM CallsStayInside == Spec => []StaysInside
BY PermissionsAlways, InsideFollows, PTL

=============================================================================
