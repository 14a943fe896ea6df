------------------------ MODULE SbomDocument_proofs ------------------------
(***************************************************************************)
(* What ParseFiles and populateExpectedHashes make of a document of any    *)
(* length. Loops are recursive functions, so this begins with induction    *)
(* over the turns of a loop, from the well-foundedness of < on Nat.        *)
(***************************************************************************)
EXTENDS SbomGrowth, FiniteSetTheorems, SequenceTheorems, WellFoundedInduction, TLAPS

LEMMA LeastNat ==
  ASSUME NEW T \in SUBSET Nat, T # {}
  PROVE  \E n \in T : \A m \in T : n <= m
<1> DEFINE R == OpToRel(<, Nat)
<1>1. IsWellFoundedOn(R, Nat) BY NatLessThanWellFounded
<1>2. \A x, y \in Nat : y < x => <<y, x>> \in R BY DEF OpToRel
<1> HIDE DEF R
<1>3. PICK x \in T : \A y \in T : <<y, x>> \notin R BY <1>1, WFMin
<1>4. \A y \in T : ~(y < x) BY <1>2, <1>3
<1>5. \A y \in T : x <= y BY <1>4
<1> QED BY <1>5

\* Induction up to N, for the members of a set
LEMMA Induction ==
  ASSUME NEW N \in Nat, NEW S, 0 \in S, \A n \in 1..N : n - 1 \in S => n \in S
  PROVE  0..N \subseteq S
<1> DEFINE Rest == {n \in 0..N : n \notin S}
<1> SUFFICES ASSUME Rest # {} PROVE FALSE OBVIOUS
<1>1. Rest \in SUBSET Nat OBVIOUS
<1>2. PICK n \in Rest : \A m \in Rest : n <= m
  <2> HIDE DEF Rest
  <2> QED BY <1>1, LeastNat
<1>3. n \in 1..N /\ n - 1 \in 0..N /\ ~(n <= n - 1) OBVIOUS
<1>4. n - 1 \in S BY <1>2, <1>3
<1> QED BY <1>3, <1>4

\* The loop "x := base; for n in 1..N: x := step[n][x]"
Turns(A, N) == [1..N -> [A -> A]]
IsRun(g, A, base, N, step) ==
  g \in [0..N -> A] /\ g[0] = base /\ \A n \in 1..N : g[n] = step[n][g[n - 1]]

\* It has the values a recursive function says.
LEMMA LoopRuns ==
  ASSUME NEW A, NEW base \in A, NEW N \in Nat, NEW step \in Turns(A, N)
  PROVE  \E g : IsRun(g, A, base, N, step)
<1> USE DEF Turns
<1> DEFINE Ran(M) == \E g \in [0..M -> A] :
                       g[0] = base /\ \A n \in 1..M : g[n] = step[n][g[n - 1]]
           S == {M \in 0..N : Ran(M)}
<1>1. Ran(0)
  <2> DEFINE g == [n \in 0..0 |-> base]
  <2>1. g \in [0..0 -> A] /\ g[0] = base /\ 1..0 = {} OBVIOUS
  <2> QED BY <2>1
<1>2. ASSUME NEW M \in 1..N, Ran(M - 1) PROVE Ran(M)
  <2>1. PICK g \in [0..(M - 1) -> A] :
               g[0] = base /\ \A n \in 1..(M - 1) : g[n] = step[n][g[n - 1]]
    BY <1>2
  <2> DEFINE h == [n \in 0..M |-> IF n = M THEN step[M][g[M - 1]] ELSE g[n]]
  <2>2. M - 1 \in 0..(M - 1) /\ M # 0 OBVIOUS
  <2>3. step[M][g[M - 1]] \in A BY <2>2
  <2>4. h \in [0..M -> A] /\ h[0] = base BY <2>1, <2>2, <2>3
  <2>5. ASSUME NEW n \in 1..M PROVE h[n] = step[n][h[n - 1]]
    <3>1. n \in 0..M /\ n - 1 \in 0..M /\ n - 1 # M OBVIOUS
    <3>2. h[n - 1] = g[n - 1] BY <3>1
    <3>3. h[n] = IF n = M THEN step[M][g[M - 1]] ELSE g[n] BY <3>1
    <3>4. n # M => n \in 1..(M - 1) OBVIOUS
    <3> HIDE DEF h
    <3> QED BY <2>1, <3>2, <3>3, <3>4
  <2> HIDE DEF h
  <2> QED BY <2>4, <2>5
<1>3. 0 \in S
  <2> HIDE DEF Ran
  <2> QED BY <1>1
<1>4. \A M \in 1..N : M - 1 \in S => M \in S
  <2> HIDE DEF Ran
  <2> QED BY <1>2
<1>5. 0..N \subseteq S
  <2> HIDE DEF S
  <2> QED BY <1>3, <1>4, Induction
<1> QED BY <1>5 DEF IsRun

\* Two runs of a loop that agree on every turn agree.
LEMMA LoopsAgree ==
  ASSUME NEW N \in Nat, NEW g, NEW h, g[0] = h[0],
         \A n \in 1..N : g[n - 1] = h[n - 1] => g[n] = h[n]
  PROVE  g[N] = h[N]
<1> DEFINE S == {n \in 0..N : g[n] = h[n]}
<1>1. 0 \in S OBVIOUS
<1>2. \A n \in 1..N : n - 1 \in S => n \in S OBVIOUS
<1>3. 0..N \subseteq S
  <2> HIDE DEF S
  <2> QED BY <1>1, <1>2, Induction
<1> QED BY <1>3
-----------------------------------------------------------------------------
(* ParseFiles, one file at a time *)

Infos == [FileName : Names, SHA256 : STRING]

LEMMA FirstSha256 ==
  ASSUME NEW f \in SpdxFiles
  PROVE  \/ /\ Sha256At(f) = 0
            /\ \A i \in DOMAIN f.checksums : f.checksums[i].algorithm # "SHA256"
         \/ /\ Sha256At(f) \in DOMAIN f.checksums
            /\ f.checksums[Sha256At(f)].algorithm = "SHA256"
            /\ \A j \in 1..(Sha256At(f) - 1) : f.checksums[j].algorithm # "SHA256"
<1> DEFINE I == {i \in 1..Len(f.checksums) : f.checksums[i].algorithm = "SHA256"}
<1>1. Sha256At(f) = IF I # {} THEN Min(I) ELSE 0 BY DEF Sha256At, SelectInSeq
<1>2. f.checksums \in Seq(Checksums) /\ DOMAIN f.checksums = 1..Len(f.checksums)
  BY DEF SpdxFiles
<1>3. CASE I = {} BY <1>1, <1>2, <1>3
<1>4. CASE I # {}
  <2>1. I \in SUBSET Nat BY <1>2
  <2>2. \E i \in I : \A j \in I : i <= j
    <3> HIDE DEF I
    <3> QED BY <1>4, <2>1, LeastNat
  <2>3. Min(I) \in I /\ \A j \in I : Min(I) <= j BY <2>2 DEF Min
  <2>4. Sha256At(f) \in I /\ \A j \in I : Sha256At(f) <= j BY <1>1, <1>4, <2>3
  <2> QED BY <1>2, <2>4
<1> QED BY <1>3, <1>4

LEMMA InfoType ==
  ASSUME NEW f \in SpdxFiles, Kept(f) PROVE FileInfo(f) \in Infos
<1>1. Sha256At(f) \in DOMAIN f.checksums BY FirstSha256 DEF Kept
<1>2. f.fileName \in Names /\ f.checksums \in Seq(Checksums) BY DEF SpdxFiles
<1>3. f.checksums[Sha256At(f)] \in Checksums BY <1>1, <1>2
<1> QED BY <1>2, <1>3 DEF FileInfo, Infos, Checksums

LEMMA ParseRuns ==
  ASSUME NEW doc \in Documented
  PROVE  \E g \in [0..Len(doc) -> Seq(Infos)] :
           /\ g[0] = <<>>
           /\ \A n \in 1..Len(doc) :
                g[n] = IF Kept(doc[n]) THEN Append(g[n - 1], FileInfo(doc[n])) ELSE g[n - 1]
           /\ ParseFiles(doc) = g[Len(doc)]
<1> DEFINE N == Len(doc)
           Turn(n, x) == IF Kept(doc[n]) THEN Append(x, FileInfo(doc[n])) ELSE x
           step == [n \in 1..N |-> [x \in Seq(Infos) |-> Turn(n, x)]]
           Body(p) == [n \in 0..N |-> IF n = 0 THEN <<>> ELSE Turn(n, p[n - 1])]
<1>1. N \in Nat /\ \A n \in 1..N : doc[n] \in SpdxFiles BY DEF Documented
<1>2. \A n \in 1..N, x \in Seq(Infos) : Turn(n, x) \in Seq(Infos) BY <1>1, InfoType
<1>3. step \in [1..N -> [Seq(Infos) -> Seq(Infos)]]
  <2> HIDE DEF Turn
  <2> QED BY <1>2
<1>4. <<>> \in Seq(Infos) OBVIOUS
<1>5. PICK g \in [0..N -> Seq(Infos)] :
             g[0] = <<>> /\ \A n \in 1..N : g[n] = step[n][g[n - 1]]
  <2>1. N \in Nat BY <1>1
  <2>2. step \in Turns(Seq(Infos), N) BY <1>3 DEF Turns
  <2>3. \E g : IsRun(g, Seq(Infos), <<>>, N, step)
    <3> HIDE DEF step, N
    <3> QED BY <1>4, <2>1, <2>2, LoopRuns
  <2> QED BY <2>3 DEF IsRun
<1>6. \A n \in 1..N : g[n] = Turn(n, g[n - 1])
  <2> HIDE DEF Turn
  <2>1. \A n \in 1..N : n - 1 \in 0..N BY <1>1
  <2> QED BY <1>5, <2>1
<1>7. g = Body(g)
  <2> HIDE DEF Turn
  <2> QED BY <1>1, <1>5, <1>6
<1> DEFINE p == CHOOSE q : q = Body(q)
<1>8. p = Body(p) 
  <2> HIDE DEF Body
  <2> QED BY <1>7
<1>9. ParseFiles(doc) = p[N] BY DEF ParseFiles
<1>10. p[0] = <<>> /\ \A n \in 1..N : p[n] = Turn(n, p[n - 1])
  <2> HIDE DEF Turn, p
  <2> QED BY <1>1, <1>8
<1>11. p[N] = g[N]
  <2>1. N \in Nat BY <1>1
  <2>2. g[0] = p[0] /\ \A n \in 1..N : g[n - 1] = p[n - 1] => g[n] = p[n]
    <3> HIDE DEF Turn, p
    <3> QED BY <1>5, <1>6, <1>10
  <2> HIDE DEF p, N
  <2> QED BY <2>1, <2>2, LoopsAgree
<1> QED BY <1>5, <1>6, <1>9, <1>11

LEMMA ParseEmpty == ParseFiles(<<>>) = <<>>
<1>1. <<>> \in Documented /\ Len(<<>>) = 0 BY DEF Documented
<1> QED BY <1>1, ParseRuns

LEMMA ParseType == ASSUME NEW doc \in Documented PROVE ParseFiles(doc) \in Seq(Infos)
<1>1. Len(doc) \in 0..Len(doc) BY DEF Documented
<1> QED BY <1>1, ParseRuns

LEMMA ParseAppend ==
  ASSUME NEW doc \in Documented, NEW f \in SpdxFiles
  PROVE  /\ Append(doc, f) \in Documented
         /\ ParseFiles(Append(doc, f)) =
              IF Kept(f) THEN Append(ParseFiles(doc), FileInfo(f)) ELSE ParseFiles(doc)
<1> DEFINE longer == Append(doc, f)
           N == Len(doc)
           Turn(x, y) == IF Kept(y) THEN Append(x, FileInfo(y)) ELSE x
<1>1. /\ longer \in Documented /\ N \in Nat /\ Len(longer) = N + 1 /\ longer[N + 1] = f
      /\ \A n \in 1..N : longer[n] = doc[n]
  BY DEF Documented
<1>2. PICK g : /\ g[0] = <<>> /\ \A n \in 1..N : g[n] = Turn(g[n - 1], doc[n])
               /\ ParseFiles(doc) = g[N]
  BY ParseRuns
<1>3. PICK h : /\ h[0] = <<>> /\ \A n \in 1..(N + 1) : h[n] = Turn(h[n - 1], longer[n])
               /\ ParseFiles(longer) = h[N + 1]
  <2> HIDE DEF longer
  <2> QED BY <1>1, ParseRuns
<1>4. g[N] = h[N]
  <2>1. \A n \in 1..N : g[n - 1] = h[n - 1] => g[n] = h[n]
    <3> HIDE DEF Turn, longer, N
    <3>1. \A n \in 1..N : n \in 1..(N + 1) BY <1>1
    <3> QED BY <1>1, <1>2, <1>3, <3>1
  <2>2. g[0] = h[0] /\ N \in Nat BY <1>1, <1>2, <1>3
  <2> HIDE DEF N, longer, Turn
  <2> QED BY <2>1, <2>2, LoopsAgree
<1>5. h[N + 1] = Turn(h[N], f)
  <2> HIDE DEF Turn, longer, N
  <2>1. N + 1 \in 1..(N + 1) /\ (N + 1) - 1 = N BY <1>1
  <2> QED BY <1>1, <1>3, <2>1
<1> QED BY <1>1, <1>2, <1>3, <1>4, <1>5
-----------------------------------------------------------------------------
(* Names and keys *)

LEMMA NameType ==
  ASSUME NEW s
  PROVE  s \in Names <=> s \in Seq(Components) /\ Len(s) \in Nat /\ Len(s) > 0
BY EmptySeq DEF Names

LEMMA Dots == "" \in Components /\ "." \in Components
BY ComponentsAssumption

LEMMA Prefixed ==
  ASSUME NEW c \in Components, NEW t \in Seq(Components)
  PROVE  /\ <<c>> \o t \in Names /\ Len(<<c>> \o t) = Len(t) + 1
         /\ Head(<<c>> \o t) = c /\ Tail(<<c>> \o t) = t
<1> DEFINE s == <<c>> \o t
<1>1. <<c>> \in Seq(Components) /\ Len(<<c>>) = 1 /\ <<c>>[1] = c /\ Len(t) \in Nat OBVIOUS
<1>2. /\ s \in Seq(Components) /\ Len(s) = 1 + Len(t)
      /\ \A i \in 1..(1 + Len(t)) : s[i] = IF i <= 1 THEN <<c>>[i] ELSE t[i - 1]
  <2> HIDE DEF s
  <2>1. s = <<c>> \o t BY DEF s
  <2> QED BY <1>1, <2>1, ConcatProperties
<1>3. s # <<>> /\ s[1] = c
  <2> HIDE DEF s
  <2> QED BY <1>1, <1>2
<1>4. Head(s) = s[1]
  <2> HIDE DEF s
  <2> QED BY <1>2
<1>5. /\ Tail(s) \in Seq(Components) /\ Len(Tail(s)) = Len(t)
      /\ \A i \in 1..Len(t) : Tail(s)[i] = s[i + 1]
  <2> HIDE DEF s
  <2> QED BY <1>1, <1>2, <1>3, HeadTailProperties
<1>6. \A i \in 1..Len(t) : Tail(s)[i] = t[i]
  <2> HIDE DEF s
  <2> QED BY <1>1, <1>2, <1>5
<1>7. Tail(s) = t
  <2> HIDE DEF s
  <2> QED BY <1>5, <1>6, SeqEqual
<1>8. s \in Names BY <1>2, <1>3 DEF Names
<1> QED BY <1>1, <1>2, <1>3, <1>4, <1>7, <1>8

LEMMA Split ==
  ASSUME NEW s \in Names, Len(s) > 1
  PROVE  /\ Tail(s) \in Names /\ s[1] \in Components /\ Head(s) = s[1]
         /\ s = <<s[1]>> \o Tail(s) /\ Tail(s)[1] = s[2]
<1>1. s \in Seq(Components) /\ s # <<>> /\ Len(s) \in Nat BY DEF Names
<1>2. /\ Tail(s) \in Seq(Components) /\ Len(Tail(s)) = Len(s) - 1
      /\ \A i \in 1..Len(Tail(s)) : Tail(s)[i] = s[i + 1]
  BY <1>1, HeadTailProperties
<1>3. s[1] \in Components /\ Head(s) = s[1] BY <1>1
<1>4. SubSeq(s, 1, Len(s)) = <<s[1]>> \o SubSeq(s, 2, Len(s))
  <2>1. 1 \in 1..Len(s) /\ Len(s) \in 1..Len(s) BY <1>1
  <2> QED BY <1>1, <2>1, SubSeqRecursiveFirst
<1>5. s = <<s[1]>> \o Tail(s) BY <1>1, <1>4, SubSeqFull, TailIsSubSeq
<1>6. 1 \in 1..Len(Tail(s)) BY <1>1, <1>2
<1>7. Tail(s)[1] = s[1 + 1] BY <1>2, <1>6
<1>8. Tail(s) \in Names
  <2>1. Len(Tail(s)) \in Nat /\ Len(Tail(s)) > 0 BY <1>1, <1>2
  <2> QED BY <1>2, <2>1, NameType
<1> QED BY <1>3, <1>5, <1>7, <1>8

LEMMA NormalizedType ==
  ASSUME NEW name \in Names
  PROVE  Normalized(name) \in Names /\ Len(Normalized(name)) > 1
<1> DEFINE t == TrimDotSlash(name)
<1>1. t \in Names BY Split DEF TrimDotSlash
<1>2. t \in Seq(Components) /\ Len(t) \in Nat /\ Len(t) > 0
  <2> HIDE DEF t
  <2> QED BY <1>1, NameType
<1>3. <<"">> \o t \in Names /\ Len(<<"">> \o t) = Len(t) + 1
  <2> HIDE DEF t
  <2> QED BY <1>2, Dots, Prefixed
<1>4. Normalized(name) = IF IsAbsolute(t) THEN t ELSE <<"">> \o t BY DEF Normalized
<1>5. IsAbsolute(t) => Len(t) > 1 BY DEF IsAbsolute
<1> HIDE DEF t
<1>6. CASE IsAbsolute(t) BY <1>1, <1>4, <1>5, <1>6
<1>7. CASE ~IsAbsolute(t)
  <2>1. Len(t) + 1 > 1 BY <1>2
  <2>2. Normalized(name) = <<"">> \o t BY <1>4, <1>7
  <2> QED BY <1>3, <2>1, <2>2
<1> QED BY <1>6, <1>7

LEMMA KeyFits == ASSUME NEW name \in Names, Fits(name) PROVE SbomKey(name) = name
BY SubSeqFull DEF Fits, SbomKey, Names

\* A name is taken for a kernel path just when it is a spelling of it.
LEMMA SpelledAs ==
  ASSUME NEW name \in Names, NEW path, KernelPath(path)
  PROVE  Normalized(name) = path <=> name \in Spellings(path)
<1> DEFINE rest == Tail(path)
<1>1. path \in Names /\ Len(path) > 1 /\ path[1] = "" BY DEF KernelPath
<1>2. rest \in Names /\ path = <<"">> \o rest /\ Head(path) = "" BY <1>1, Split
<1>3. Head(rest) \notin {"", "."}
  <2>1. 2 \in 2..Len(path)
    <3>1. Len(path) \in Nat /\ Len(path) > 1 BY <1>1, NameType
    <3> QED BY <3>1
  <2>2. path[2] \notin {"", "."} BY <2>1 DEF KernelPath
  <2>3. rest[1] = path[2] BY <1>1, Split
  <2>4. Head(rest) = rest[1]
    <3> HIDE DEF rest
    <3>1. rest \in Seq(Components) /\ rest # <<>> BY <1>2 DEF Names
    <3> QED BY <3>1
  <2> QED BY <2>2, <2>3, <2>4
<1>4. Spellings(path) = {path, rest, <<".">> \o rest, <<".">> \o path} BY DEF Spellings
<1> HIDE DEF rest
<1>5. /\ <<".">> \o rest \in Names /\ Len(<<".">> \o rest) > 1
      /\ Head(<<".">> \o rest) = "." /\ Tail(<<".">> \o rest) = rest
  <2>1. rest \in Seq(Components) /\ Len(rest) \in Nat /\ Len(rest) > 0 BY <1>2, NameType
  <2>2. Len(rest) + 1 > 1 BY <2>1
  <2>3. Len(<<".">> \o rest) = Len(rest) + 1 BY <2>1, Dots, Prefixed
  <2> QED BY <2>1, <2>2, <2>3, Dots, Prefixed
<1>6. /\ <<".">> \o path \in Names /\ Len(<<".">> \o path) > 1
      /\ Head(<<".">> \o path) = "." /\ Tail(<<".">> \o path) = path
  <2>1. path \in Seq(Components) /\ Len(path) \in Nat /\ Len(path) > 0 BY <1>1, NameType
  <2>2. Len(path) + 1 > 1 BY <2>1
  <2>3. Len(<<".">> \o path) = Len(path) + 1 BY <2>1, Dots, Prefixed
  <2> QED BY <2>1, <2>2, <2>3, Dots, Prefixed
<1>7. ~IsAbsolute(rest) /\ IsAbsolute(path) BY <1>1, <1>2, <1>3 DEF IsAbsolute
<1>8. /\ TrimDotSlash(path) = path /\ TrimDotSlash(rest) = rest
      /\ TrimDotSlash(<<".">> \o rest) = rest /\ TrimDotSlash(<<".">> \o path) = path
  BY <1>2, <1>3, <1>5, <1>6 DEF TrimDotSlash
<1>9. name \in Spellings(path) => Normalized(name) = path
  BY <1>2, <1>4, <1>7, <1>8 DEF Normalized
<1>10. ASSUME Normalized(name) = path PROVE name \in Spellings(path)
  <2> DEFINE t == TrimDotSlash(name)
  <2>1. t = name \/ name = <<".">> \o t
    BY Split DEF TrimDotSlash
  <2>2. t \in Names BY Split DEF TrimDotSlash
  <2>3. t = path \/ <<"">> \o t = path BY <1>10 DEF Normalized
  <2> HIDE DEF t
  <2>4. ASSUME <<"">> \o t = path PROVE t = rest
    <3>1. Tail(<<"">> \o t) = t BY <2>2, Dots, NameType, Prefixed
    <3> QED BY <2>4, <3>1 DEF rest
  <2> QED BY <1>4, <2>1, <2>3, <2>4
<1> QED BY <1>9, <1>10
-----------------------------------------------------------------------------
(* populateExpectedHashes, one file at a time *)

Rooms == {D \in SUBSET Names : IsFiniteSet(D) /\ Cardinality(D) <= MaxAllowedFileHashes}
Tables == UNION {[D -> Hashes] : D \in Rooms}

LEMMA TableType ==
  ASSUME NEW t
  PROVE  t \in Tables <=>
           /\ t \in [DOMAIN t -> Hashes] /\ DOMAIN t \subseteq Names
           /\ IsFiniteSet(DOMAIN t) /\ Cardinality(DOMAIN t) <= MaxAllowedFileHashes
BY DEF Tables, Rooms

LEMMA EmptyTableType == EmptyTable \in Tables
<1>1. EmptyTable \in [{} -> Hashes] /\ DOMAIN EmptyTable = {} BY DEF EmptyTable
<1>2. Cardinality({}) <= MaxAllowedFileHashes BY FS_EmptySet, SizesAssumption
<1> QED BY <1>1, <1>2, FS_EmptySet, TableType

LEMMA PutType ==
  ASSUME NEW t \in Tables, NEW key \in Names, NEW h \in Hashes
  PROVE  Put(t, key, h) \in Tables
<1>1. /\ t \in [DOMAIN t -> Hashes] /\ DOMAIN t \subseteq Names
      /\ IsFiniteSet(DOMAIN t) /\ Cardinality(DOMAIN t) <= MaxAllowedFileHashes
  BY TableType
<1>2. CASE key \in DOMAIN t \/ Cardinality(DOMAIN t) < MaxAllowedFileHashes
  <2> DEFINE u == Put(t, key, h)
  <2>1. u = [k \in DOMAIN t \union {key} |-> IF k = key THEN h ELSE t[k]] BY <1>2 DEF Put
  <2>2. u \in [DOMAIN t \union {key} -> Hashes] /\ DOMAIN u = DOMAIN t \union {key}
    BY <1>1, <2>1
  <2>3. IsFiniteSet(DOMAIN t \union {key})
        /\ Cardinality(DOMAIN t \union {key}) =
             IF key \in DOMAIN t THEN Cardinality(DOMAIN t) ELSE Cardinality(DOMAIN t) + 1
    BY <1>1, FS_AddElement
  <2>4. Cardinality(DOMAIN t) \in Nat /\ MaxAllowedFileHashes \in Nat
    BY <1>1, FS_CardinalityType, SizesAssumption
  <2>5. Cardinality(DOMAIN t \union {key}) <= MaxAllowedFileHashes
    BY <1>1, <1>2, <2>3, <2>4
  <2> HIDE DEF u
  <2>6. u \in Tables BY <1>1, <2>2, <2>3, <2>5, TableType
  <2> QED BY <2>6 DEF u
<1>3. CASE ~(key \in DOMAIN t \/ Cardinality(DOMAIN t) < MaxAllowedFileHashes)
  BY <1>3 DEF Put
<1> QED BY <1>2, <1>3

LEMMA AddFileType ==
  ASSUME NEW t \in Tables, NEW f \in Infos PROVE AddFile(t, f) \in Tables
<1>1. Normalized(f.FileName) \in Names BY NormalizedType DEF Infos
<1>2. CASE Fits(Normalized(f.FileName)) /\ f.SHA256 \in Hashes
  BY <1>1, <1>2, KeyFits, PutType DEF AddFile
<1>3. CASE ~(Fits(Normalized(f.FileName)) /\ f.SHA256 \in Hashes)
  BY <1>3 DEF AddFile
<1> QED BY <1>2, <1>3

LEMMA FillRuns ==
  ASSUME NEW files \in Seq(Infos)
  PROVE  \E g \in [0..Len(files) -> Tables] :
           /\ g[0] = EmptyTable
           /\ \A n \in 1..Len(files) : g[n] = AddFile(g[n - 1], files[n])
           /\ FillTable(files) = g[Len(files)]
<1> DEFINE N == Len(files)
           step == [n \in 1..N |-> [t \in Tables |-> AddFile(t, files[n])]]
           Body(p) == [n \in 0..N |-> IF n = 0 THEN EmptyTable ELSE AddFile(p[n - 1], files[n])]
<1>1. N \in Nat /\ \A n \in 1..N : files[n] \in Infos OBVIOUS
<1>2. step \in Turns(Tables, N) BY <1>1, AddFileType DEF Turns
<1>3. PICK g : IsRun(g, Tables, EmptyTable, N, step)
  <2>1. N \in Nat BY <1>1
  <2> HIDE DEF step, N
  <2> QED BY <1>2, <2>1, EmptyTableType, LoopRuns
<1>4. g \in [0..N -> Tables] /\ g[0] = EmptyTable BY <1>3 DEF IsRun
<1>5. \A n \in 1..N : g[n] = AddFile(g[n - 1], files[n])
  <2>1. \A n \in 1..N : n - 1 \in 0..N BY <1>1
  <2>2. \A n \in 1..N : g[n - 1] \in Tables BY <1>4, <2>1
  <2> QED BY <1>3, <2>2 DEF IsRun
<1>6. g = Body(g) BY <1>1, <1>4, <1>5
<1> DEFINE p == CHOOSE q : q = Body(q)
<1>7. p = Body(p)
  <2> HIDE DEF Body
  <2> QED BY <1>6
<1>8. FillTable(files) = p[N] BY DEF FillTable
<1>9. p[0] = EmptyTable /\ \A n \in 1..N : p[n] = AddFile(p[n - 1], files[n])
  <2> HIDE DEF p
  <2> QED BY <1>1, <1>7
<1>10. p[N] = g[N]
  <2>1. N \in Nat BY <1>1
  <2>2. g[0] = p[0] /\ \A n \in 1..N : g[n - 1] = p[n - 1] => g[n] = p[n]
    <3> HIDE DEF p
    <3> QED BY <1>4, <1>5, <1>9
  <2> HIDE DEF p, N
  <2> QED BY <2>1, <2>2, LoopsAgree
<1> QED BY <1>4, <1>5, <1>8, <1>10

LEMMA FillEmpty == FillTable(<<>>) = EmptyTable
<1>1. <<>> \in Seq(Infos) /\ Len(<<>>) = 0 OBVIOUS
<1> QED BY <1>1, FillRuns

LEMMA FillType == ASSUME NEW files \in Seq(Infos) PROVE FillTable(files) \in Tables
<1>1. Len(files) \in 0..Len(files) OBVIOUS
<1> QED BY <1>1, FillRuns

LEMMA FillAppend ==
  ASSUME NEW files \in Seq(Infos), NEW f \in Infos
  PROVE  FillTable(Append(files, f)) = AddFile(FillTable(files), f)
<1> DEFINE longer == Append(files, f)
           N == Len(files)
<1>1. /\ longer \in Seq(Infos) /\ N \in Nat /\ Len(longer) = N + 1 /\ longer[N + 1] = f
      /\ \A n \in 1..N : longer[n] = files[n]
  OBVIOUS
<1>2. PICK g : /\ g[0] = EmptyTable /\ \A n \in 1..N : g[n] = AddFile(g[n - 1], files[n])
               /\ FillTable(files) = g[N]
  BY FillRuns
<1>3. PICK h : /\ h[0] = EmptyTable
               /\ \A n \in 1..(N + 1) : h[n] = AddFile(h[n - 1], longer[n])
               /\ FillTable(longer) = h[N + 1]
  <2> HIDE DEF longer
  <2> QED BY <1>1, FillRuns
<1>4. g[N] = h[N]
  <2>1. \A n \in 1..N : g[n - 1] = h[n - 1] => g[n] = h[n]
    <3> HIDE DEF longer, N
    <3>1. \A n \in 1..N : n \in 1..(N + 1) BY <1>1
    <3> QED BY <1>1, <1>2, <1>3, <3>1
  <2>2. g[0] = h[0] /\ N \in Nat BY <1>1, <1>2, <1>3
  <2> HIDE DEF N, longer
  <2> QED BY <2>1, <2>2, LoopsAgree
<1>5. h[N + 1] = AddFile(h[N], f)
  <2> HIDE DEF longer, N
  <2>1. N + 1 \in 1..(N + 1) /\ (N + 1) - 1 = N BY <1>1
  <2> QED BY <1>1, <1>3, <2>1
<1> QED BY <1>2, <1>3, <1>4, <1>5
-----------------------------------------------------------------------------
(* Both together: the table of a document, one file at a time *)

LEMMA HashedFirst ==
  ASSUME NEW f \in SpdxFiles, NEW h
  PROVE  Hashed(f, h) <=>
           /\ Sha256At(f) # 0 /\ h \in Hashes
           /\ f.checksums[Sha256At(f)].checksumValue = h
<1> DEFINE at == Sha256At(f)
<1>1. f.checksums \in Seq(Checksums) /\ DOMAIN f.checksums = 1..Len(f.checksums)
  BY DEF SpdxFiles
<1>2. \A i \in DOMAIN f.checksums : f.checksums[i] \in Checksums BY <1>1
<1>3. \A c \in Checksums : c = [algorithm |-> c.algorithm, checksumValue |-> c.checksumValue]
  BY DEF Checksums
<1>4. ASSUME Hashed(f, h) PROVE at # 0 /\ h \in Hashes /\ f.checksums[at].checksumValue = h
  <2>1. PICK i \in DOMAIN f.checksums :
          /\ f.checksums[i] = [algorithm |-> "SHA256", checksumValue |-> h]
          /\ \A j \in 1..(i - 1) : f.checksums[j].algorithm # "SHA256"
    BY <1>4 DEF Hashed
  <2>2. f.checksums[i].algorithm = "SHA256" /\ f.checksums[i].checksumValue = h BY <2>1
  <2>3. /\ at \in DOMAIN f.checksums /\ f.checksums[at].algorithm = "SHA256"
        /\ \A j \in 1..(at - 1) : f.checksums[j].algorithm # "SHA256"
    BY <2>2, FirstSha256
  <2>4. at = i
    <3> HIDE DEF at
    <3>1. at \in Nat \ {0} /\ i \in Nat \ {0} BY <1>1, <2>3
    <3>2. ~(i < at) /\ ~(at < i)
      <4>1. i < at => i \in 1..(at - 1) BY <3>1
      <4>2. at < i => at \in 1..(i - 1) BY <3>1
      <4> QED BY <2>1, <2>2, <2>3, <4>1, <4>2
    <3> QED BY <3>1, <3>2
  <2>5. at # 0 BY <1>1, <2>3
  <2> QED BY <1>4, <2>2, <2>4, <2>5 DEF Hashed
<1>5. ASSUME at # 0, h \in Hashes, f.checksums[at].checksumValue = h PROVE Hashed(f, h)
  <2>1. /\ at \in DOMAIN f.checksums /\ f.checksums[at].algorithm = "SHA256"
        /\ \A j \in 1..(at - 1) : f.checksums[j].algorithm # "SHA256"
    BY <1>5, FirstSha256
  <2>2. f.checksums[at] = [algorithm |-> "SHA256", checksumValue |-> h]
    <3> HIDE DEF at
    <3> QED BY <1>2, <1>3, <1>5, <2>1
  <2> HIDE DEF at
  <2> QED BY <1>5, <2>1, <2>2 DEF Hashed
<1> QED BY <1>4, <1>5

LEMMA TableEmpty == HashTable(<<>>) = EmptyTable
BY ParseEmpty, FillEmpty DEF HashTable

LEMMA HashTableType == ASSUME NEW doc \in Documented PROVE HashTable(doc) \in Tables
BY ParseType, FillType DEF HashTable

LEMMA TableAppend ==
  ASSUME NEW doc \in Documented, NEW f \in SpdxFiles
  PROVE  /\ ~AsksRoom(f) => HashTable(Append(doc, f)) = HashTable(doc)
         /\ AsksRoom(f) => \E h \in Hashes :
              /\ Hashed(f, h)
              /\ HashTable(Append(doc, f)) = Put(HashTable(doc), Normalized(f.fileName), h)
<1> DEFINE info == FileInfo(f)
           name == Normalized(f.fileName)
<1>1. /\ info.FileName = f.fileName /\ info.SHA256 = f.checksums[Sha256At(f)].checksumValue
      /\ name \in Names
  BY NormalizedType DEF FileInfo, SpdxFiles
<1>2. ~Kept(f) => HashTable(Append(doc, f)) = HashTable(doc)
  BY ParseAppend DEF HashTable
<1>3. Kept(f) => HashTable(Append(doc, f)) = AddFile(HashTable(doc), info)
  BY ParseAppend, ParseType, InfoType, FillAppend DEF HashTable
<1> HIDE DEF info
<1>4. AddFile(HashTable(doc), info) =
        IF Fits(name) /\ info.SHA256 \in Hashes
        THEN Put(HashTable(doc), name, info.SHA256) ELSE HashTable(doc)
  BY <1>1, KeyFits DEF AddFile
<1>5. \A h : Kept(f) => (Hashed(f, h) <=> h \in Hashes /\ info.SHA256 = h)
  BY <1>1, HashedFirst DEF Kept
<1>6. AsksRoom(f) <=> Kept(f) /\ Fits(name) /\ info.SHA256 \in Hashes
  BY <1>5 DEF AsksRoom
<1> HIDE DEF name
<1>7. ~AsksRoom(f) => HashTable(Append(doc, f)) = HashTable(doc)
  BY <1>2, <1>3, <1>4, <1>6
<1>8. AsksRoom(f) => Hashed(f, info.SHA256) /\ info.SHA256 \in Hashes
                     /\ HashTable(Append(doc, f)) = Put(HashTable(doc), name, info.SHA256)
  BY <1>3, <1>4, <1>5, <1>6
<1> QED BY <1>7, <1>8 DEF name
-----------------------------------------------------------------------------
(* The table of a document holds the names that found room, each with the   *)
(* hash of the last file of that name; it is full before a name is left out.*)

Claims(f, q) == AsksRoom(f) /\ Normalized(f.fileName) = q

RoomFor(doc, q) ==
  \E n \in DOMAIN doc :
    Claims(doc[n], q) /\ Cardinality(Asked(doc, n - 1)) < MaxAllowedFileHashes

LatestIs(doc, q, h) ==
  \E n \in DOMAIN doc :
    /\ Claims(doc[n], q) /\ Hashed(doc[n], h)
    /\ \A m \in (n + 1)..Len(doc) : ~Claims(doc[m], q)

Tells(table, doc) ==
  /\ IsFiniteSet(Asked(doc, Len(doc))) /\ DOMAIN table \subseteq Asked(doc, Len(doc))
  /\ DOMAIN table # Asked(doc, Len(doc)) =>
       Cardinality(DOMAIN table) = MaxAllowedFileHashes
  /\ \A q : q \in DOMAIN table <=> RoomFor(doc, q)
  /\ \A q \in DOMAIN table : LatestIs(doc, q, table[q])

LEMMA Longer ==
  ASSUME NEW doc \in Documented, NEW f \in SpdxFiles
  PROVE  LET longer == Append(doc, f) N == Len(doc)
         IN /\ longer \in Documented /\ N \in Nat /\ Len(longer) = N + 1
            /\ DOMAIN doc = 1..N /\ DOMAIN longer = 1..(N + 1) /\ longer[N + 1] = f
            /\ \A n \in 1..N : longer[n] = doc[n]
BY DEF Documented

\* What one more file changes in what the document asks and says
LEMMA AskedLonger ==
  ASSUME NEW doc \in Documented, NEW f \in SpdxFiles
  PROVE  LET longer == Append(doc, f) N == Len(doc)
         IN /\ \A n \in 0..N : Asked(longer, n) = Asked(doc, n)
            /\ Asked(longer, N + 1) =
                 IF AsksRoom(f) THEN Asked(doc, N) \union {Normalized(f.fileName)}
                 ELSE Asked(doc, N)
            /\ \A q : RoomFor(longer, q) <=>
                 \/ RoomFor(doc, q)
                 \/ Claims(f, q) /\ Cardinality(Asked(doc, N)) < MaxAllowedFileHashes
            /\ \A q, h : LatestIs(longer, q, h) <=>
                 \/ Claims(f, q) /\ Hashed(f, h)
                 \/ ~Claims(f, q) /\ LatestIs(doc, q, h)
<1> DEFINE longer == Append(doc, f)
           N == Len(doc)
<1>1. /\ longer \in Documented /\ N \in Nat /\ Len(longer) = N + 1
      /\ DOMAIN doc = 1..N /\ DOMAIN longer = 1..(N + 1) /\ longer[N + 1] = f
      /\ \A n \in 1..N : longer[n] = doc[n]
  BY Longer
<1> HIDE DEF longer, N
<1>2. \A n \in 0..N : Asked(longer, n) = Asked(doc, n)
  <2> TAKE n \in 0..N
  <2>1. \A i \in 1..n : longer[i] = doc[i] BY <1>1
  <2> QED BY <2>1 DEF Asked
<1>3. Asked(longer, N + 1) =
        IF AsksRoom(f) THEN Asked(doc, N) \union {Normalized(f.fileName)} ELSE Asked(doc, N)
  <2>1. 1..(N + 1) = 1..N \union {N + 1} BY <1>1
  <2>2. {i \in 1..(N + 1) : AsksRoom(longer[i])} =
          {i \in 1..N : AsksRoom(doc[i])} \union (IF AsksRoom(f) THEN {N + 1} ELSE {})
    BY <1>1, <2>1
  <2>3. \A i \in {j \in 1..N : AsksRoom(doc[j])} : longer[i] = doc[i] BY <1>1
  <2> QED BY <1>1, <2>2, <2>3 DEF Asked
<1>4. ASSUME NEW q
      PROVE  RoomFor(longer, q) <=>
               \/ RoomFor(doc, q)
               \/ Claims(f, q) /\ Cardinality(Asked(doc, N)) < MaxAllowedFileHashes
  <2> DEFINE Finds(d, n) ==
        Claims(d[n], q) /\ Cardinality(Asked(d, n - 1)) < MaxAllowedFileHashes
  <2>1. ASSUME NEW n \in 1..N PROVE Finds(longer, n) <=> Finds(doc, n)
    <3>1. n - 1 \in 0..N BY <1>1
    <3> QED BY <1>1, <1>2, <3>1
  <2>2. Finds(longer, N + 1) <=>
          Claims(f, q) /\ Cardinality(Asked(doc, N)) < MaxAllowedFileHashes
    <3>1. N \in 0..N /\ (N + 1) - 1 = N BY <1>1
    <3> QED BY <1>1, <1>2, <3>1
  <2>3. \A n : n \in 1..(N + 1) <=> n \in 1..N \/ n = N + 1 BY <1>1
  <2>4. RoomFor(longer, q) <=> \E n \in 1..(N + 1) : Finds(longer, n) BY <1>1 DEF RoomFor
  <2>5. RoomFor(doc, q) <=> \E n \in 1..N : Finds(doc, n) BY <1>1 DEF RoomFor
  <2> HIDE DEF Finds
  <2> QED BY <2>1, <2>2, <2>3, <2>4, <2>5
<1>5. ASSUME NEW q, NEW h
      PROVE  LatestIs(longer, q, h) <=>
               \/ Claims(f, q) /\ Hashed(f, h)
               \/ ~Claims(f, q) /\ LatestIs(doc, q, h)
  <2> DEFINE LastIn(d, M, n) == /\ Claims(d[n], q) /\ Hashed(d[n], h)
                                /\ \A m \in (n + 1)..M : ~Claims(d[m], q)
  <2>1. ASSUME NEW n \in 1..N
        PROVE  LastIn(longer, N + 1, n) <=> ~Claims(f, q) /\ LastIn(doc, N, n)
    <3>1. \A m : m \in (n + 1)..(N + 1) <=> m \in (n + 1)..N \/ m = N + 1 BY <1>1
    <3>2. \A m \in (n + 1)..N : longer[m] = doc[m] BY <1>1
    <3> QED BY <1>1, <3>1, <3>2
  <2>2. LastIn(longer, N + 1, N + 1) <=> Claims(f, q) /\ Hashed(f, h)
    <3>1. ((N + 1) + 1)..(N + 1) = {} BY <1>1
    <3> QED BY <1>1, <3>1
  <2>3. \A n : n \in 1..(N + 1) <=> n \in 1..N \/ n = N + 1 BY <1>1
  <2>4. LatestIs(longer, q, h) <=> \E n \in 1..(N + 1) : LastIn(longer, N + 1, n)
    BY <1>1 DEF LatestIs
  <2>5. LatestIs(doc, q, h) <=> \E n \in 1..N : LastIn(doc, N, n) BY <1>1 DEF LatestIs
  <2> HIDE DEF LastIn
  <2> QED BY <2>1, <2>2, <2>3, <2>4, <2>5
<1> QED BY <1>2, <1>3, <1>4, <1>5 DEF longer, N

LEMMA TellsNothing == Tells(EmptyTable, <<>>)
<1>1. Asked(<<>>, 0) = {} BY DEF Asked
<1>2. Len(<<>>) = 0 /\ DOMAIN <<>> = {} /\ DOMAIN EmptyTable = {} BY DEF EmptyTable
<1> QED BY <1>1, <1>2, FS_EmptySet DEF Tells, RoomFor

\* Put, with a table of any state of fullness
LEMMA TellsMore ==
  ASSUME NEW doc \in Documented, NEW f \in SpdxFiles, NEW t \in Tables, Tells(t, doc),
         AsksRoom(f), NEW h \in Hashes, Hashed(f, h)
  PROVE  Tells(Put(t, Normalized(f.fileName), h), Append(doc, f))
<1> DEFINE longer == Append(doc, f)
           N == Len(doc)
           key == Normalized(f.fileName)
           D == DOMAIN t
           A == Asked(doc, N)
           u == Put(t, key, h)
<1>1. N \in Nat /\ Len(longer) = N + 1 BY Longer
<1>2. /\ Asked(longer, N + 1) = A \union {key}
      /\ \A q : RoomFor(longer, q) <=>
                  RoomFor(doc, q) \/ (q = key /\ Cardinality(A) < MaxAllowedFileHashes)
      /\ \A q, g : LatestIs(longer, q, g) <=>
                     (q = key /\ Hashed(f, g)) \/ (q # key /\ LatestIs(doc, q, g))
  BY AskedLonger DEF Claims
<1>3. /\ IsFiniteSet(A) /\ D \subseteq A
      /\ D # A => Cardinality(D) = MaxAllowedFileHashes
      /\ \A q : q \in D <=> RoomFor(doc, q)
      /\ \A q \in D : LatestIs(doc, q, t[q])
  BY DEF Tells
<1>4. /\ IsFiniteSet(D) /\ Cardinality(D) <= MaxAllowedFileHashes
      /\ Cardinality(D) \in Nat /\ MaxAllowedFileHashes \in Nat
  BY TableType, FS_CardinalityType, SizesAssumption
<1>5. Cardinality(A) \in Nat /\ Cardinality(D) <= Cardinality(A)
  <2> HIDE DEF A, D
  <2> QED BY <1>3, FS_CardinalityType, FS_Subset
<1>6. Cardinality(D) < MaxAllowedFileHashes <=> Cardinality(A) < MaxAllowedFileHashes
  <2> HIDE DEF A, D
  <2> QED BY <1>3, <1>4, <1>5
<1>7. u = IF key \in D \/ Cardinality(D) < MaxAllowedFileHashes
          THEN [k \in D \union {key} |-> IF k = key THEN h ELSE t[k]] ELSE t
  BY DEF Put
<1>8. IsFiniteSet(A \union {key})
  <2> HIDE DEF A, key
  <2> QED BY <1>3, FS_AddElement
<1> HIDE DEF A, D, key, u, longer
<1>9. CASE key \in D \/ Cardinality(D) < MaxAllowedFileHashes
  <2>1. u = [k \in D \union {key} |-> IF k = key THEN h ELSE t[k]] BY <1>7, <1>9
  <2>2. DOMAIN u = D \union {key} BY <2>1
  <2>3. D # A => key \in D BY <1>3, <1>4, <1>9
  <2>4. D \union {key} # A \union {key} => D # A /\ D \union {key} = D BY <2>3
  <2>5. \A q : q \in DOMAIN u <=> RoomFor(longer, q) BY <1>2, <1>3, <1>6, <1>9, <2>2
  <2>6. ASSUME NEW q \in DOMAIN u PROVE LatestIs(longer, q, u[q])
    <3>1. CASE q = key BY <1>2, <2>1, <2>2, <3>1
    <3>2. CASE q # key BY <1>2, <1>3, <2>1, <2>2, <3>2
    <3> QED BY <3>1, <3>2
  <2>7. DOMAIN u # A \union {key} => Cardinality(DOMAIN u) = MaxAllowedFileHashes
    BY <1>3, <2>2, <2>4
  <2>8. DOMAIN u \subseteq A \union {key} BY <1>3, <2>2
  <2>9. Tells(u, longer) BY <1>1, <1>2, <1>8, <2>5, <2>6, <2>7, <2>8 DEF Tells
  <2> QED BY <2>9 DEF u, longer, key
<1>10. CASE ~(key \in D \/ Cardinality(D) < MaxAllowedFileHashes)
  <2>1. u = t /\ key \notin D /\ DOMAIN u = D BY <1>7, <1>10 DEF D
  <2>2. Cardinality(D) = MaxAllowedFileHashes BY <1>4, <1>10
  <2>3. \A q : q \in DOMAIN u <=> RoomFor(longer, q) BY <1>2, <1>3, <1>6, <1>10, <2>1
  <2>4. \A q \in DOMAIN u : LatestIs(longer, q, u[q]) BY <1>2, <1>3, <2>1
  <2>5. DOMAIN u \subseteq A \union {key} BY <1>3, <2>1
  <2>6. Tells(u, longer) BY <1>1, <1>2, <1>8, <2>1, <2>2, <2>3, <2>4, <2>5 DEF Tells
  <2> QED BY <2>6 DEF u, longer, key
<1> QED BY <1>9, <1>10

LEMMA TellsSame ==
  ASSUME NEW doc \in Documented, NEW f \in SpdxFiles, NEW t, Tells(t, doc), ~AsksRoom(f)
  PROVE  Tells(t, Append(doc, f))
BY Longer, AskedLonger DEF Tells, Claims

LEMMA TellsStep ==
  ASSUME NEW doc \in Documented, NEW f \in SpdxFiles, Tells(HashTable(doc), doc)
  PROVE  Tells(HashTable(Append(doc, f)), Append(doc, f))
BY TableAppend, HashTableType, TellsMore, TellsSame

\* Induction over the files of a document
LEMMA FileByFile ==
  ASSUME NEW S, <<>> \in S,
         \A doc \in Documented \cap S, f \in SpdxFiles : Append(doc, f) \in S
  PROVE  Documented \subseteq S
<1> SUFFICES ASSUME NEW doc \in Documented PROVE doc \in S OBVIOUS
<1> DEFINE N == Len(doc)
           T == {n \in 0..N : SubSeq(doc, 1, n) \in S}
<1>1. doc \in Seq(SpdxFiles) /\ N \in Nat BY DEF Documented
<1>2. 0 \in T
  <2>1. SubSeq(doc, 1, 0) = <<>> BY SubSeqEmpty
  <2>2. 0 \in 0..N
    <3> HIDE DEF N
    <3> QED BY <1>1
  <2>3. SubSeq(doc, 1, 0) \in S BY <2>1
  <2> HIDE DEF N
  <2> QED BY <2>2, <2>3
<1>3. ASSUME NEW n \in 1..N, n - 1 \in T PROVE n \in T
  <2>1. doc[n] \in SpdxFiles /\ 1 \in 1..N /\ n \in 1..N BY <1>1
  <2>2. SubSeq(doc, 1, n) = SubSeq(doc, 1, n - 1) \o <<doc[n]>>
    BY <1>1, <2>1, SubSeqRecursiveSecond
  <2>3. SubSeq(doc, 1, n - 1) \in Documented
    <3>1. \A i \in 1..(n - 1) : doc[i] \in SpdxFiles BY <1>1
    <3>2. 1 \in Int /\ n - 1 \in Int OBVIOUS
    <3> QED BY <3>1, <3>2, SubSeqProperties DEF Documented
  <2>4. SubSeq(doc, 1, n) = Append(SubSeq(doc, 1, n - 1), doc[n])
    BY <2>1, <2>2, <2>3, AppendIsConcat DEF Documented
  <2>5. SubSeq(doc, 1, n) \in S BY <1>3, <2>1, <2>3, <2>4
  <2> QED BY <2>5
<1>4. 0..N \subseteq T
  <2> HIDE DEF T, N
  <2> QED BY <1>1, <1>2, <1>3, Induction
<1>5. SubSeq(doc, 1, N) \in S BY <1>1, <1>4
<1> QED BY <1>1, <1>5, SubSeqFull

LEMMA TableTells == \A doc \in Documented : Tells(HashTable(doc), doc)
<1> DEFINE S == {doc \in Documented : Tells(HashTable(doc), doc)}
<1>1. <<>> \in S BY TableEmpty, TellsNothing DEF Documented
<1>2. \A doc \in Documented \cap S, f \in SpdxFiles : Append(doc, f) \in S
  BY TellsStep, ParseAppend
<1>3. Documented \subseteq S
  <2> HIDE DEF S
  <2> QED BY <1>1, <1>2, FileByFile
<1> QED BY <1>3
-----------------------------------------------------------------------------
(* What that means for a path of the kernel *)

LEMMA PartsOf ==
  ASSUME NEW c \in Components, NEW t \in Seq(Components)
  PROVE  ToSet(<<c>> \o t) = {c} \union ToSet(t)
<1>1. <<c>> \in Seq(Components) /\ Len(<<c>>) = 1 /\ <<c>>[1] = c OBVIOUS
<1>2. ToSet(<<c>>) = {c} BY <1>1 DEF ToSet
<1>3. /\ <<c>> \o t \in Seq(Components) /\ Len(<<c>> \o t) = 1 + Len(t)
      /\ \A i \in 1..(1 + Len(t)) : (<<c>> \o t)[i] = IF i <= 1 THEN <<c>>[i] ELSE t[i - 1]
  BY <1>1, ConcatProperties
<1> DEFINE s == <<c>> \o t
<1> HIDE DEF s
<1>4. Len(t) \in Nat /\ DOMAIN t = 1..Len(t) OBVIOUS
<1>5. DOMAIN s = 1..(1 + Len(t)) BY <1>3 DEF s
<1>6. s[1] = c /\ \A i \in 1..Len(t) : s[i + 1] = t[i] BY <1>1, <1>3, <1>4 DEF s
<1> DEFINE L == Len(t)
<1>7. 1 \in DOMAIN s /\ \A j \in 1..L : j + 1 \in DOMAIN s
  <2> HIDE DEF L
  <2> SUFFICES 1 \in 1..(1 + L) /\ \A j \in 1..L : j + 1 \in 1..(1 + L) BY <1>5 DEF L
  <2> QED BY <1>4 DEF L
<1>8. \A i \in DOMAIN s : i = 1 \/ \E j \in 1..L : i = j + 1
  <2> HIDE DEF L
  <2>1. L \in Nat BY <1>4 DEF L
  <2>2. \A i \in 1..(1 + L) : i = 1 \/ (i - 1 \in 1..L /\ i = (i - 1) + 1) BY <2>1
  <2> QED BY <1>5, <2>2 DEF L
<1>9. c \in ToSet(s) BY <1>6, <1>7 DEF ToSet
<1>10. ToSet(t) \subseteq ToSet(s)
  <2>1. \A j \in 1..L : t[j] = s[j + 1] /\ j + 1 \in DOMAIN s BY <1>6, <1>7
  <2> QED BY <1>4, <2>1 DEF ToSet
<1>11. ToSet(s) \subseteq {c} \union ToSet(t)
  <2>1. \A i \in DOMAIN s : s[i] = c \/ \E j \in 1..L : s[i] = t[j] BY <1>6, <1>8
  <2> QED BY <1>4, <2>1 DEF ToSet
<1>12. ToSet(s) = {c} \union ToSet(t) BY <1>9, <1>10, <1>11
<1> QED BY <1>12 DEF s

\* Nothing that spells a kernel path is refused as unsafe.
LEMMA SpellingsAreSafe ==
  ASSUME NEW path, KernelPath(path), NEW name \in Spellings(path)
  PROVE  isSafeSBOMPath(name)
<1> DEFINE rest == Tail(path)
<1>0. path \in Seq(Components) /\ Len(path) \in Nat /\ Len(path) > 1
  BY NameType DEF KernelPath
<1>1. path \in Names /\ path \in Seq(Components) /\ Len(path) \in Nat /\ Len(path) > 1
      /\ path[1] = ""
  BY NameType DEF KernelPath
<1>2. /\ rest \in Names /\ rest \in Seq(Components) /\ path = <<"">> \o rest
      /\ rest[1] = path[2]
  BY <1>1, Split, NameType
<1>3. ".." \notin ToSet(path)
  <2>1. DOMAIN path = 1..Len(path) BY <1>0
  <2>2. \A i \in 2..Len(path) : path[i] # ".." BY DEF KernelPath
  <2>3. \A i \in DOMAIN path : i = 1 \/ i \in 2..Len(path) BY <1>0, <2>1
  <2>4. path[1] # ".." BY <1>1
  <2> QED BY <2>2, <2>3, <2>4 DEF ToSet
<1>4. ToSet(path) = {""} \union ToSet(rest)
  <2> HIDE DEF rest
  <2> QED BY <1>2, Dots, PartsOf
<1>5. ".." \notin ToSet(rest) BY <1>3, <1>4
<1>6. ".." \notin ToSet(<<".">> \o rest) /\ ".." \notin ToSet(<<".">> \o path)
  <2>1. ToSet(<<".">> \o rest) = {"."} \union ToSet(rest)
        /\ ToSet(<<".">> \o path) = {"."} \union ToSet(path)
    <3> HIDE DEF rest
    <3> QED BY <1>1, <1>2, Dots, PartsOf
  <2> QED BY <1>3, <1>5, <2>1
<1>7. path # <<"">> /\ rest # <<"">>
  <2>1. <<"">>[1] = "" /\ Len(<<"">>) = 1 OBVIOUS
  <2>2. 2 \in 2..Len(path)
    <3> QED BY <1>0
  <2>3. path[2] # "" BY <2>2 DEF KernelPath
  <2> HIDE DEF rest
  <2>4. Len(path) # 1
    <3>1. \A n : n \in Nat /\ n > 1 => n # 1 OBVIOUS
    <3> QED BY <1>0, <3>1
  <2> QED BY <1>2, <2>1, <2>3, <2>4
<1>8. <<".">> \o rest # <<"">> /\ <<".">> \o path # <<"">>
  <2> HIDE DEF rest
  <2>1. Head(<<".">> \o rest) = "." /\ Head(<<".">> \o path) = "."
    BY <1>1, <1>2, Dots, Prefixed
  <2>2. Head(<<"">>) = "" /\ "" # "." OBVIOUS
  <2> QED BY <2>1, <2>2
<1>9. name \in {path, rest, <<".">> \o rest, <<".">> \o path} BY DEF Spellings
<1> HIDE DEF rest
<1> QED BY <1>3, <1>5, <1>6, <1>7, <1>8, <1>9 DEF isSafeSBOMPath

LEMMA ClaimMeans ==
  ASSUME NEW f \in SpdxFiles, NEW path, KernelPath(path), Fits(path)
  PROVE  /\ Claims(f, path) <=> \E h \in Hashes : Vouches(f, path, h)
         /\ \A h : Vouches(f, path, h) <=> Claims(f, path) /\ Hashed(f, h)
<1>1. f.fileName \in Names BY DEF SpdxFiles
<1>2. Normalized(f.fileName) = path <=> f.fileName \in Spellings(path) BY <1>1, SpelledAs
<1>3. f.fileName \in Spellings(path) => isSafeSBOMPath(f.fileName) BY SpellingsAreSafe
<1>4. isUnderBinOrLib(f.fileName) <=>
        \E i \in DOMAIN f.fileName : f.fileName[i] \in {"bin", "lib", "lib64", "sbin"}
  BY DEF isUnderBinOrLib, ToSet
<1>5. (\E h \in Hashes : Hashed(f, h)) => Sha256At(f) # 0 BY HashedFirst
<1>6. \A h : Hashed(f, h) => h \in Hashes BY DEF Hashed
<1>7. \A h : Vouches(f, path, h) <=>
        /\ f.fileName \in Spellings(path) /\ Hashed(f, h)
        /\ isBinary(f.fileTypes) \/ isUnderBinOrLib(f.fileName)
  BY <1>4 DEF Vouches, isBinary
<1>8. Claims(f, path) <=>
        /\ f.fileName \in Spellings(path) /\ \E h \in Hashes : Hashed(f, h)
        /\ isBinary(f.fileTypes) \/ isUnderBinOrLib(f.fileName)
  BY <1>2, <1>3, <1>5 DEF Claims, AsksRoom, Kept
<1> QED BY <1>6, <1>7, <1>8

(* The hash a document's table has for a kernel path that fits a key is     *)
(* what the document says of the path, for documents, limits and hashes of  *)
(* any kind (ParseFiles and populateExpectedHashes).                        *)
LEMMA KeyMeans ==
  ASSUME NEW doc \in Documented, NEW path, KernelPath(path), Fits(path)
  PROVE  LET table == HashTable(doc)
         IN /\ path \in DOMAIN table <=> Placed(doc, path)
            /\ path \in DOMAIN table =>
                 table[path] \in Hashes /\ Says(doc, path, table[path])
<1> DEFINE table == HashTable(doc)
<1>1. Tells(table, doc) BY TableTells
<1>2. table \in [DOMAIN table -> Hashes] BY HashTableType, TableType
<1>3. \A n \in DOMAIN doc : doc[n] \in SpdxFiles /\ n \in 1..Len(doc) BY DEF Documented
<1>4. RoomFor(doc, path) <=> Placed(doc, path) BY <1>3, ClaimMeans DEF RoomFor, Placed
<1>5. ASSUME NEW h, LatestIs(doc, path, h) PROVE Says(doc, path, h)
  <2>1. PICK n \in DOMAIN doc :
               /\ Claims(doc[n], path) /\ Hashed(doc[n], h)
               /\ \A m \in (n + 1)..Len(doc) : ~Claims(doc[m], path)
    BY <1>5 DEF LatestIs
  <2>2. Vouches(doc[n], path, h) BY <1>3, <2>1, ClaimMeans
  <2>3. ASSUME NEW m \in (n + 1)..Len(doc), NEW g \in Hashes PROVE ~Vouches(doc[m], path, g)
    <3>1. n \in 1..Len(doc) /\ DOMAIN doc = 1..Len(doc) /\ Len(doc) \in Nat
      BY <1>3 DEF Documented
    <3>2. m \in DOMAIN doc BY <3>1
    <3> QED BY <1>3, <2>1, <3>2, ClaimMeans
  <2> QED BY <2>2, <2>3 DEF Says
<1> HIDE DEF table
<1>6. path \in DOMAIN table <=> Placed(doc, path) BY <1>1, <1>4 DEF Tells
<1>7. path \in DOMAIN table => table[path] \in Hashes /\ Says(doc, path, table[path])
  BY <1>1, <1>2, <1>5 DEF Tells
<1> QED BY <1>6, <1>7 DEF table
-----------------------------------------------------------------------------
(* The key made of a path of the kernel *)

LEMMA ShortKey ==
  ASSUME NEW path \in Seq(Components), Len(path) < MaxFilepathLen
  PROVE  KernelKey(path) = path
BY SubSeqFull DEF KernelKey

\* A key cut from a path too long is itself a path that fits, or too short
\* to be in any table.
LEMMA LongKey ==
  ASSUME NEW path, KernelPath(path), Len(path) >= MaxFilepathLen
  PROVE  LET prefix == SubSeq(path, 1, MaxFilepathLen - 1)
         IN /\ KernelKey(path) = prefix
            /\ MaxFilepathLen > 2 => KernelPath(prefix) /\ Fits(prefix)
<1> DEFINE n == MaxFilepathLen - 1
           prefix == SubSeq(path, 1, n)
<1>1. path \in Seq(Components) /\ Len(path) \in Nat /\ MaxFilepathLen \in Nat \ {0}
  BY NameType, SizesAssumption DEF KernelPath
<1>2. KernelKey(path) = prefix BY <1>1 DEF KernelKey
<1>3. ASSUME MaxFilepathLen > 2 PROVE KernelPath(prefix) /\ Fits(prefix)
  <2>1. n \in Nat /\ n > 1 /\ n < Len(path) /\ n < MaxFilepathLen BY <1>1, <1>3
  <2>2. \A i \in 1..n : path[i] \in Components BY <1>1, <2>1
  <2>3. /\ prefix \in Seq(Components) /\ Len(prefix) = n
        /\ \A i \in 1..n : prefix[i] = path[i]
    <3> HIDE DEF n
    <3>1. 1 \in Int /\ n \in Int BY <2>1
    <3>2. /\ prefix \in Seq(Components) /\ Len(prefix) = IF 1 <= n THEN n - 1 + 1 ELSE 0
          /\ \A i \in 1..(n - 1 + 1) : prefix[i] = path[1 + i - 1]
      BY <2>2, <3>1, SubSeqProperties
    <3> HIDE DEF prefix
    <3> QED BY <2>1, <3>2
  <2> HIDE DEF n, prefix
  <2>4. prefix \in Names /\ Len(prefix) > 1
    <3>1. Len(prefix) \in Nat /\ Len(prefix) > 0 BY <2>1, <2>3
    <3> QED BY <2>1, <2>3, <3>1, NameType
  <2>5. prefix[1] = path[1] /\ \A i \in 2..n : prefix[i] = path[i] /\ i \in 2..Len(path)
    BY <1>1, <2>1, <2>3
  <2>6. Fits(prefix) BY <2>1, <2>3 DEF Fits
  <2> QED BY <2>3, <2>4, <2>5, <2>6 DEF KernelPath
<1> QED BY <1>2, <1>3

\* Keys are names that fit, of two components or more.
LEMMA KeysAreNames ==
  ASSUME NEW d \in Documented, NEW key \in DOMAIN HashTable(d)
  PROVE  Len(key) \in Nat /\ Len(key) > 1 /\ Len(key) < MaxFilepathLen
<1>1. RoomFor(d, key) BY TableTells DEF Tells
<1>2. PICK n \in DOMAIN d : Claims(d[n], key) BY <1>1 DEF RoomFor
<1>3. d[n].fileName \in Names
  <2>1. d[n] \in SpdxFiles BY DEF Documented
  <2> QED BY <2>1 DEF SpdxFiles
<1>4. key \in Names /\ Len(key) > 1 BY <1>2, <1>3, NormalizedType DEF Claims
<1>5. Len(key) < MaxFilepathLen BY <1>2 DEF Claims, AsksRoom, Fits
<1>6. Len(key) \in Nat BY <1>4, NameType
<1> QED BY <1>4, <1>5, <1>6

\* The last file that vouches for a path has one hash for it.
LEMMA SaysOne ==
  ASSUME NEW doc \in Documented, NEW path, NEW g, NEW h,
         Says(doc, path, g), Says(doc, path, h)
  PROVE  g = h
<1>1. PICK n \in DOMAIN doc :
             /\ Vouches(doc[n], path, g)
             /\ \A m \in (n + 1)..Len(doc), e \in Hashes : ~Vouches(doc[m], path, e)
  BY DEF Says
<1>2. PICK o \in DOMAIN doc :
             /\ Vouches(doc[o], path, h)
             /\ \A m \in (o + 1)..Len(doc), e \in Hashes : ~Vouches(doc[m], path, e)
  BY DEF Says
<1>3. Len(doc) \in Nat /\ n \in 1..Len(doc) /\ o \in 1..Len(doc) /\ doc[n] \in SpdxFiles
  BY DEF Documented
<1>4. g \in Hashes /\ h \in Hashes BY <1>1, <1>2 DEF Vouches, Hashed
<1>5. ~(n < o) /\ ~(o < n)
  <2>1. n < o => o \in (n + 1)..Len(doc) BY <1>3
  <2>2. o < n => n \in (o + 1)..Len(doc) BY <1>3
  <2> QED BY <1>1, <1>2, <1>4, <2>1, <2>2
<1>6. n = o BY <1>3, <1>5
<1>7. Hashed(doc[n], g) /\ Hashed(doc[n], h) BY <1>1, <1>2, <1>6 DEF Vouches
<1> QED BY <1>3, <1>7, HashedFirst

(* What attest_file finds for a path of any length, and what the document   *)
(* says of the key made of the path.                                        *)
LEMMA LookupMeans ==
  ASSUME NEW doc \in Documented, NEW path, KernelPath(path), MaxFilepathLen > 2,
         NEW missing, missing \notin Hashes
  PROVE  LET key == KernelKey(path)
             found == Lookup(HashTable(doc), path, missing)
         IN /\ found # missing <=> Placed(doc, key)
            /\ Placed(doc, key) => \A h : found = h <=> Says(doc, key, h)
<1> DEFINE key == KernelKey(path)
           table == HashTable(doc)
           found == Lookup(table, path, missing)
<1>1. path \in Seq(Components) /\ Len(path) \in Nat /\ MaxFilepathLen \in Nat
  BY NameType, SizesAssumption DEF KernelPath
<1>2. KernelPath(key) /\ Fits(key)
  <2>1. CASE Len(path) < MaxFilepathLen BY <1>1, <2>1, ShortKey DEF Fits
  <2>2. CASE Len(path) >= MaxFilepathLen BY <2>2, LongKey
  <2> QED BY <1>1, <2>1, <2>2
<1>3. found = IF key \in DOMAIN table THEN table[key] ELSE missing BY DEF Lookup
<1> HIDE DEF key
<1>4. /\ key \in DOMAIN table <=> Placed(doc, key)
      /\ key \in DOMAIN table => table[key] \in Hashes /\ Says(doc, key, table[key])
  BY <1>2, KeyMeans
<1> HIDE DEF table, found
<1>5. found # missing <=> Placed(doc, key) BY <1>3, <1>4
<1>6. ASSUME Placed(doc, key), NEW h PROVE found = h <=> Says(doc, key, h)
  BY <1>3, <1>4, <1>6, SaysOne
<1> QED BY <1>5, <1>6 DEF key, found, table
-----------------------------------------------------------------------------
(* The properties of SbomGrowth *)

\* A document is always one of the listings the lemmas are about.
Listed == listing \in Documented

LEMMA AlwaysListed == Growth => []Listed
<1>1. NothingListed => Listed BY DEF NothingListed, Listed, Documented
<1>2. Listed /\ [Grows]_listing => Listed'
  <2> SUFFICES ASSUME Listed, [Grows]_listing PROVE Listed' OBVIOUS
  <2>1. ASSUME NEW f \in Files, AddEntry(f) PROVE Listed'
    BY <2>1, GrowthConstants, Longer DEF AddEntry, Listed
  <2>2. CASE UNCHANGED listing BY <2>2 DEF Listed
  <2> QED BY <2>1, <2>2 DEF Grows
<1> QED BY <1>1, <1>2, PTL DEF Growth

(* A kernel path that fits a key finds the hash of the last file of the     *)
(* document that vouches for it, or nothing when none does while there is   *)
(* room, whatever the document, the paths and the limits (ParseFiles,       *)
(* populateExpectedHashes and attest_file).                                 *)
THEOREM ShortPathsFindTheirOwn == Growth => []LookupFindsLatest
<1>1. Listed => LookupFindsLatest
  <2> SUFFICES ASSUME Listed, NEW path \in KernelPaths, Len(path) < MaxFilepathLen
               PROVE  IF Placed(listing, path) THEN Says(listing, path, Found(path))
                      ELSE Found(path) = NoHash
    BY DEF LookupFindsLatest
  <2>1. KernelPath(path) /\ Fits(path) /\ path \in Seq(Components)
    BY GrowthConstants, NameType DEF Fits, KernelPath
  <2>2. KernelKey(path) = path BY <2>1, ShortKey
  <2>3. /\ path \in DOMAIN HashTable(listing) <=> Placed(listing, path)
        /\ path \in DOMAIN HashTable(listing) => Says(listing, path, HashTable(listing)[path])
    BY <2>1, KeyMeans DEF Listed
  <2> QED BY <2>2, <2>3 DEF Found, Lookup
<1> QED BY <1>1, AlwaysListed, PTL

(* A kernel path too long for a key finds nothing but what is listed under  *)
(* the beginning it is cut to.                                              *)
THEOREM LongPathsFindTheirBeginning == Growth => []LongPathsFindOnlyTheirPrefix
<1>1. Listed => LongPathsFindOnlyTheirPrefix
  <2> SUFFICES ASSUME Listed, NEW path \in KernelPaths, Len(path) >= MaxFilepathLen,
                      Found(path) # NoHash
               PROVE  LET prefix == SubSeq(path, 1, MaxFilepathLen - 1)
                      IN Placed(listing, prefix) /\ Says(listing, prefix, Found(path))
    BY DEF LongPathsFindOnlyTheirPrefix
  <2> DEFINE prefix == SubSeq(path, 1, MaxFilepathLen - 1)
             table == HashTable(listing)
  <2>1. KernelPath(path) BY GrowthConstants
  <2>2. KernelKey(path) = prefix /\ (MaxFilepathLen > 2 => KernelPath(prefix) /\ Fits(prefix))
    BY <2>1, LongKey
  <2>3. prefix \in DOMAIN table /\ Found(path) = table[prefix] BY <2>2 DEF Found, Lookup
  <2>4. MaxFilepathLen > 2
    <3> HIDE DEF prefix, table
    <3>1. Len(prefix) \in Nat /\ Len(prefix) > 1 /\ Len(prefix) < MaxFilepathLen
      BY <2>3, KeysAreNames DEF table, Listed
    <3> QED BY <3>1, SizesAssumption
  <2> HIDE DEF prefix
  <2>5. Placed(listing, prefix) /\ Says(listing, prefix, table[prefix])
    BY <2>2, <2>3, <2>4, KeyMeans DEF Listed, table
  <2> QED BY <2>3, <2>5 DEF prefix
<1> QED BY <1>1, AlwaysListed, PTL

(* A document never takes a path from the table by listing more files, a    *)
(* table that is full included (innerMap.Put).                              *)
THEOREM ListedFilesStay == Growth => []ListedStaysListed
<1>1. Listed => ListedStaysListed
  <2> SUFFICES ASSUME Listed, NEW n \in DOMAIN listing,
                      NEW key \in DOMAIN HashTable(SubSeq(listing, 1, n))
               PROVE  key \in DOMAIN HashTable(listing)
    BY DEF ListedStaysListed
  <2> DEFINE part == SubSeq(listing, 1, n)
             N == Len(listing)
  <2>1. N \in Nat /\ DOMAIN listing = 1..N /\ n \in 1..N /\ \A i \in 1..N : listing[i] \in SpdxFiles
    BY DEF Documented, Listed
  <2>2. /\ part \in Documented /\ Len(part) = n
        /\ \A i \in 1..n : part[i] = listing[i]
    <3> HIDE DEF N
    <3>1. 1 \in Int /\ n \in Int /\ 1 <= n /\ \A i \in 1..n : listing[i] \in SpdxFiles BY <2>1
    <3>2. /\ part \in Seq(SpdxFiles) /\ Len(part) = IF 1 <= n THEN n - 1 + 1 ELSE 0
          /\ \A i \in 1..(n - 1 + 1) : part[i] = listing[1 + i - 1]
      BY <3>1, SubSeqProperties
    <3> HIDE DEF part
    <3> QED BY <3>1, <3>2 DEF Documented
  <2> HIDE DEF part
  <2>3. RoomFor(part, key) BY <2>2, TableTells DEF Tells, part
  <2>4. PICK m \in DOMAIN part :
               /\ Claims(part[m], key)
               /\ Cardinality(Asked(part, m - 1)) < MaxAllowedFileHashes
    BY <2>3 DEF RoomFor
  <2>5. m \in 1..n /\ m \in DOMAIN listing /\ part[m] = listing[m] /\ \A i \in 1..(m - 1) : i \in 1..n
    <3>1. DOMAIN part = 1..n BY <2>2 DEF Documented
    <3> HIDE DEF N
    <3> QED BY <2>1, <2>2, <2>4, <3>1
  <2>6. Asked(part, m - 1) = Asked(listing, m - 1)
    <3>1. \A i \in 1..(m - 1) : part[i] = listing[i] BY <2>2, <2>5
    <3> QED BY <3>1 DEF Asked
  <2>7. RoomFor(listing, key) BY <2>4, <2>5, <2>6 DEF RoomFor
  <2> QED BY <2>7, TableTells DEF Tells, Listed
<1> QED BY <1>1, AlwaysListed, PTL
=============================================================================
