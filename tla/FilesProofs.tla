------------------------------ MODULE FilesProofs ------------------------------
(***************************************************************************)
(* What is proved of the files: of the packages that could not be sent,    *)
(* and further down of the settings the pages store.                       *)
(*                                                                         *)
(* UnsentFile for any number of packages, of any lengths line_comp has     *)
(* room for, with newlines in any of the bytes that may be one. A byte     *)
(* that may be a newline is never 41 bytes modulo 57 from another, nor     *)
(* from the beginning of its package; only the newline behind a package    *)
(* is, and only from its beginning. So (Apart) a line that is sent by      *)
(* itself is a package, line_comp holds the lines of a package from its    *)
(* beginning on, and it is sent with the last of them. All this is so as   *)
(* long as each package has its newline (~cut).                            *)
(***************************************************************************)
EXTENDS UnsentFile, SettingsPages, SequenceTheorems, FiniteSetTheorems,
        WellFoundedInduction, TLAPS

\* line_comp has room for each package and its newline.
Fits == \A k \in Events : PackageLen(k) + 1 <= CompSize

Residues == {8, 9, 38, 39, 40, 47, 48, 51, 52, 53}

\* An offset from the beginning of a package, counted from 1.
Inner(o) == o \in Nat /\ o % 57 \in Residues

Size(p) == p.last - p.first + 1

Ranges ==
  /\ stored \in Seq([first : Nat, last : Nat])
  /\ \A i \in DOMAIN stored :
       /\ \E k \in Events : Size(stored[i]) = PackageLen(k)
       /\ stored[i].first = IF i = 1 THEN 1 ELSE stored[i - 1].last + 2
  /\ \A i, j \in DOMAIN stored : i < j => stored[i].last + 1 < stored[j].first

Newlines ==
  /\ newlines \in SUBSET Nat
  /\ \A i \in DOMAIN stored :
       stored[i].last + 1 \in newlines <=> ~(open /\ i = Len(stored))
  /\ \A n \in newlines : \E i \in DOMAIN stored :
       /\ stored[i].first <= n /\ n <= stored[i].last + 1
       /\ n <= stored[i].last => Inner(n - stored[i].first + 1)

\* Where the package that comes next begins, less one.
Base(j) == IF j = 0 THEN 0 ELSE stored[j].last + 1

\* The lines of ls follow each other from place a to place b.
Cover(ls, a, b) ==
  /\ ls \in Seq(Nat \X Nat) /\ ls # <<>>
  /\ ls[1][1] = a /\ ls[Len(ls)][2] = b
  /\ \A i \in 2..Len(ls) : ls[i][1] = ls[i - 1][2] + 1
  /\ \A i \in DOMAIN ls : ls[i][2] \in newlines /\ ls[i][2] <= b

Apart ==
  LET j == Len(sent) IN
    /\ sent \in Seq(Seq(Nat \X Nat)) /\ j <= Len(stored)
    /\ \A i \in DOMAIN sent : MakesUp(sent[i], stored[i])
    /\ place \in Nat /\ read_count = place - Base(j)
    /\ IF place = Base(j) THEN comp = <<>>
       ELSE /\ j < Len(stored)
            /\ stored[j + 1].first <= place /\ place <= stored[j + 1].last
            /\ place \in newlines
            /\ Cover(comp, stored[j + 1].first, place)

Steps ==
  /\ open \in BOOLEAN /\ have \in BOOLEAN /\ cut \in BOOLEAN /\ reading \in BOOLEAN
  /\ open => ~reading /\ stored # <<>>
  /\ ~reading => place = 0 /\ comp = <<>> /\ read_count = 0 /\ sent = <<>>

UnsentInv == Steps /\ (~cut => Ranges /\ Newlines /\ Apart)
-------------------------------------------------------------------------------
LEMMA LeastOf ==
  ASSUME NEW T \in SUBSET Nat, T # {} PROVE Min(T) \in T /\ \A y \in T : Min(T) <= y
<1> DEFINE R == OpToRel(<, Nat)
<1>1. IsWellFoundedOn(R, Nat)
  BY NatLessThanWellFounded
<1>2. \A x, y \in Nat : y < x => <<y, x>> \in R
  BY DEF OpToRel
<1> HIDE DEF R
<1>3. \E x \in T : \A y \in T : ~ (<<y, x>> \in R)
  BY <1>1, WFMin
<1>4. PICK x \in T : \A y \in T : ~ (<<y, x>> \in R)
  BY <1>3
<1>5. \A y \in T : ~(y < x) /\ x \in Nat /\ y \in Nat
  BY <1>2, <1>4
<1>6. \A y \in T : x <= y
  BY <1>5
<1> QED BY <1>6 DEF Min

\* Only a package and the newline behind it have the length of one.
LEMMA OnlyPackagesEnd ==
  ASSUME NEW k \in Nat, NEW q \in Nat, NEW o \in Nat, q < o,
         q = 0 \/ Inner(q), o = PackageLen(k) + 1 \/ Inner(o)
  PROVE  /\ EndsPackage(o - q) <=> q = 0 /\ o = PackageLen(k) + 1
         /\ EndsPackage(o) <=> o = PackageLen(k) + 1
<1>1. o = PackageLen(k) + 1 => o % 57 = 41 /\ (o - 41) % 57 = 0
  BY DEF PackageLen
<1>2. Inner(o) => o % 57 \in Residues
  BY DEF Inner
<1>3. o % 57 # 41 => (o - 41) % 57 # 0
  OBVIOUS
<1>4. Inner(q) => q % 57 \in Residues
  BY DEF Inner
<1>5. \A a, b \in Residues : a - b # 41 /\ a - b # -16 /\ a # 41 /\ b # 0
  BY DEF Residues
<1>6. o % 57 \in 0..56 /\ q % 57 \in 0..56
  OBVIOUS
<1>7. (o - q - 41) % 57 = 0 =>
        (o % 57) - (q % 57) = 41 \/ (o % 57) - (q % 57) = -16
  BY <1>6
<1>8. (o - 41) % 57 = 0 => o = PackageLen(k) + 1
  BY <1>2, <1>3, <1>5 DEF Residues
<1>9. ASSUME (o - q - 41) % 57 = 0 PROVE q = 0
  <2> SUFFICES ASSUME q # 0 PROVE FALSE
    OBVIOUS
  <2>1. q % 57 \in Residues
    BY <1>4
  <2>2. CASE Inner(o)
    BY <1>2, <1>5, <1>7, <1>9, <2>1, <2>2
  <2>3. CASE o = PackageLen(k) + 1
    <3>1. 41 - (q % 57) = 41 \/ 41 - (q % 57) = -16
      BY <1>1, <1>7, <1>9, <2>3
    <3> QED BY <2>1, <3>1 DEF Residues
  <2> QED BY <2>2, <2>3
<1> QED BY <1>1, <1>8, <1>9 DEF EndsPackage

LEMMA OnePackage ==
  ASSUME Ranges, NEW i \in DOMAIN stored
  PROVE  /\ stored[i].first \in Nat /\ stored[i].last \in Nat
         /\ stored[i].first <= stored[i].last
<1>1. stored[i] \in [first : Nat, last : Nat]
  <2>1. stored \in Seq([first : Nat, last : Nat])
    BY DEF Ranges
  <2>2. i \in 1..Len(stored)
    BY <2>1
  <2> QED BY <2>1, <2>2, ElementOfSeq
<1>2. PICK k \in Events : Size(stored[i]) = PackageLen(k)
  BY DEF Ranges
<1>3. k \in Nat
  BY UnsentAssumption
<1> QED BY <1>1, <1>2, <1>3 DEF Size, PackageLen

LEMMA InFile ==
  ASSUME Ranges, Newlines, ~open
  PROVE  /\ FileLen \in Nat /\ FileLen = Base(Len(stored))
         /\ \A i \in DOMAIN stored :
              /\ stored[i].first \in Nat /\ stored[i].last \in Nat
              /\ stored[i].last + 1 <= FileLen /\ stored[i].first = Base(i - 1) + 1
         /\ \A j \in 0..Len(stored) : Base(j) \in Nat /\ Base(j) <= FileLen
<1>1. /\ DOMAIN stored = 1..Len(stored) /\ Len(stored) \in Nat
      /\ \A i \in DOMAIN stored : stored[i].first \in Nat /\ stored[i].last \in Nat
  <2>1. DOMAIN stored = 1..Len(stored) /\ Len(stored) \in Nat
    BY DEF Ranges
  <2> QED BY <2>1, OnePackage
<1>2. FileLen \in Nat /\ FileLen = Base(Len(stored))
  <2>1. CASE stored = <<>>
    BY <2>1 DEF FileLen, Base
  <2>2. CASE stored # <<>>
    <3>1. Len(stored) \in 1..Len(stored)
      BY <1>1, <2>2 DEF Ranges
    <3>2. FileLen = stored[Len(stored)].last + 1
      BY <1>1, <2>2, <3>1 DEF FileLen, Last, Newlines
    <3>3. Base(Len(stored)) = stored[Len(stored)].last + 1
      BY <1>1, <3>1 DEF Base
    <3> QED BY <1>1, <3>1, <3>2, <3>3
  <2> QED BY <2>1, <2>2
<1>3. ASSUME NEW i \in DOMAIN stored
      PROVE  stored[i].last + 1 <= FileLen /\ stored[i].first = Base(i - 1) + 1
  <2>1. FileLen = stored[Len(stored)].last + 1 /\ Len(stored) \in DOMAIN stored
    BY <1>1, <1>2, <1>3 DEF Base
  <2>2. i < Len(stored) => stored[i].last + 1 < stored[Len(stored)].first
    BY <2>1 DEF Ranges
  <2>4. stored[Len(stored)].first <= stored[Len(stored)].last
    BY <2>1, OnePackage
  <2>5. stored[i].last + 1 <= FileLen
    BY <1>1, <2>1, <2>2, <2>4
  <2>6. stored[i].first = Base(i - 1) + 1
    <3>1. stored[i].first = IF i = 1 THEN 1 ELSE stored[i - 1].last + 2
      BY DEF Ranges
    <3>2. i # 1 => i - 1 \in DOMAIN stored /\ i - 1 # 0
      BY <1>1
    <3>3. CASE i = 1
      BY <3>1, <3>3 DEF Base
    <3>4. CASE i # 1
      BY <1>1, <3>1, <3>2, <3>4 DEF Base
    <3> QED BY <3>3, <3>4
  <2> QED BY <2>5, <2>6
<1>4. ASSUME NEW j \in 0..Len(stored) PROVE Base(j) \in Nat /\ Base(j) <= FileLen
  BY <1>1, <1>2, <1>3 DEF Base
<1> QED BY <1>1, <1>2, <1>3, <1>4

\* The next newline ends the package that is being read, or lies in it.
LEMMA NextInPackage ==
  ASSUME Ranges, Newlines, Apart, ~open, place < FileLen
  PROVE  LET j == Len(sent)
             p == stored[j + 1]
             m == Min({n \in newlines : n > place})
         IN  /\ j + 1 \in DOMAIN stored /\ p.first = Base(j) + 1
             /\ m \in newlines /\ m \in Nat /\ place < m /\ Base(j) \in Nat
             /\ Base(j) <= place
             /\ place # Base(j) => Inner(place - Base(j))
             /\ m <= p.last + 1 /\ (m <= p.last => Inner(m - Base(j)))
<1> DEFINE j == Len(sent)
           p == stored[j + 1]
           T == {n \in newlines : n > place}
           m == Min(T)
<1>1. /\ DOMAIN stored = 1..Len(stored) /\ Len(stored) \in Nat
      /\ j \in Nat /\ j <= Len(stored) /\ place \in Nat
  BY DEF Ranges, Apart
<1>2. j + 1 \in DOMAIN stored /\ Base(j) \in Nat
  <2>1. Base(j) \in Nat /\ FileLen = Base(Len(stored))
    BY <1>1, InFile
  <2>2. CASE place = Base(j)
    BY <1>1, <2>1, <2>2
  <2>3. CASE place # Base(j)
    <3>1. j < Len(stored)
      BY <2>3 DEF Apart
    <3> QED BY <1>1, <2>1, <3>1
  <2> QED BY <2>1, <2>2, <2>3
<1>3. p.first = Base(j) + 1 /\ p.first \in Nat /\ p.last \in Nat
  <2>1. (j + 1) - 1 = j
    BY <1>1
  <2> QED BY <1>2, <2>1, InFile
<1>4. Base(j) <= place /\ place <= p.last /\ (place # Base(j) => place \in newlines)
  <2>1. CASE place = Base(j)
    <3>2. p.first <= p.last
      BY <1>2, OnePackage
    <3> QED BY <1>1, <1>2, <1>3, <2>1, <3>2
  <2>2. CASE place # Base(j)
    <3>1. p.first <= place /\ place <= p.last /\ place \in newlines
      BY <2>2 DEF Apart
    <3> QED BY <1>1, <1>2, <1>3, <3>1
  <2> QED BY <2>1, <2>2
<1>5. p.last + 1 \in T /\ T \in SUBSET Nat
  <2>1. p.last + 1 \in newlines /\ newlines \subseteq Nat
    BY <1>2 DEF Newlines
  <2>2. p.last + 1 > place
    BY <1>1, <1>3, <1>4
  <2> QED BY <2>1, <2>2
<1>6. m \in T /\ m <= p.last + 1
  <2> HIDE DEF T, p
  <2> QED BY <1>5, LeastOf
<1>7. m \in newlines /\ m \in Nat /\ place < m
  BY <1>5, <1>6
<1> HIDE DEF T, m
\* A newline of this package's bytes is one of this package.
<1>8. ASSUME NEW n \in newlines, Base(j) < n, n <= p.last PROVE Inner(n - Base(j))
  <2>1. PICK i \in DOMAIN stored :
          /\ stored[i].first <= n /\ n <= stored[i].last + 1
          /\ n <= stored[i].last => Inner(n - stored[i].first + 1)
    BY DEF Newlines
  <2>2. n \in Nat /\ i \in Nat /\ stored[i].first \in Nat /\ stored[i].last \in Nat
    BY <1>1, InFile DEF Newlines
  <2>3. ~(i < j + 1)
    <3> SUFFICES ASSUME i < j + 1 PROVE FALSE
      OBVIOUS
    <3>1. stored[i].last + 1 < p.first
      BY <1>2 DEF Ranges
    <3> QED BY <1>2, <1>3, <1>8, <2>1, <2>2, <3>1
  <2>4. ~(i > j + 1)
    <3> SUFFICES ASSUME i > j + 1 PROVE FALSE
      OBVIOUS
    <3>1. p.last + 1 < stored[i].first
      BY <1>1, <1>2, <2>2 DEF Ranges
    <3> QED BY <1>2, <1>3, <1>8, <2>1, <2>2, <3>1
  <2>5. i = j + 1
    BY <1>1, <2>2, <2>3, <2>4
  <2>6. n - stored[i].first + 1 = n - Base(j)
    BY <1>2, <1>3, <2>2, <2>5
  <2>7. n <= stored[i].last
    BY <1>8, <2>5
  <2> QED BY <2>1, <2>6, <2>7
<1>9. place # Base(j) => Inner(place - Base(j))
  BY <1>1, <1>2, <1>4, <1>8
<1>10. m <= p.last => Inner(m - Base(j))
  BY <1>1, <1>2, <1>4, <1>7, <1>8
<1> QED BY <1>2, <1>3, <1>4, <1>6, <1>7, <1>9, <1>10 DEF m, T

\* Nothing has been read.
LEMMA NothingRead ==
  ASSUME Len(stored) \in Nat, place = 0, comp = <<>>, read_count = 0, sent = <<>>
  PROVE  Apart
<1>1. Len(sent) = 0 /\ sent \in Seq(Seq(Nat \X Nat)) /\ DOMAIN sent = {}
  OBVIOUS
<1>2. Base(Len(sent)) = 0
  BY <1>1 DEF Base
<1> QED BY <1>1, <1>2 DEF Apart

LEMMA StartsApart ==
  ASSUME Len(stored') \in Nat, place' = 0, comp' = <<>>, read_count' = 0, sent' = <<>>
  PROVE  Apart'
<1>1. Len(sent') = 0 /\ sent' \in Seq(Seq(Nat \X Nat)) /\ DOMAIN sent' = {}
  OBVIOUS
<1>2. Base(Len(sent))' = 0
  BY <1>1 DEF Base
<1> QED BY <1>1, <1>2 DEF Apart

\* A package is put to the end of the file.
LEMMA StoreApart ==
  ASSUME Steps, Ranges, Newlines, Apart, Store PROVE (Ranges /\ Newlines /\ Apart)'
<1> DEFINE n == Len(stored)
<1>1. PICK k \in Events :
        \E more \in UNION {kSubset(c, FilledBytes(k)) : c \in 0..MaxNewlines} :
          /\ stored' = Append(stored, [first |-> FileLen + 1,
                                       last  |-> FileLen + PackageLen(k)])
          /\ newlines' = newlines \cup {FileLen + b : b \in Fixed(k) \cup more}
  BY DEF Store
<1>2. PICK more \in UNION {kSubset(c, FilledBytes(k)) : c \in 0..MaxNewlines} :
        /\ stored' = Append(stored, [first |-> FileLen + 1,
                                     last  |-> FileLen + PackageLen(k)])
        /\ newlines' = newlines \cup {FileLen + b : b \in Fixed(k) \cup more}
  BY <1>1
<1>3. /\ ~reading /\ ~open /\ open' = TRUE
      /\ UNCHANGED <<reading, place, comp, read_count, sent>>
      /\ place = 0 /\ comp = <<>> /\ sent = <<>> /\ Len(sent) = 0
      /\ Ranges /\ Newlines /\ Apart
  BY DEF Store, Steps, readVars
<1> DEFINE new == [first |-> FileLen + 1, last |-> FileLen + PackageLen(k)]
<1>4. /\ k \in Nat /\ k >= 1 /\ PackageLen(k) \in Nat /\ PackageLen(k) >= 97
      /\ FileLen \in Nat
  BY <1>3, UnsentAssumption, InFile DEF PackageLen
<1>5. new \in [first : Nat, last : Nat] /\ Size(new) = PackageLen(k)
  BY <1>4 DEF Size
<1>6. /\ n \in Nat /\ DOMAIN stored = 1..n
      /\ stored' \in Seq([first : Nat, last : Nat])
      /\ DOMAIN stored' = 1..(n + 1)
      /\ \A i \in 1..n : stored'[i] = stored[i]
      /\ stored'[n + 1] = new
  <2>1. stored \in Seq([first : Nat, last : Nat]) /\ stored' = Append(stored, new)
    BY <1>2, <1>3 DEF Ranges
  <2> HIDE DEF new
  <2> QED BY <1>5, <2>1
<1>7. new.first = FileLen + 1 /\ new.last = FileLen + PackageLen(k)
  OBVIOUS
<1> HIDE DEF new
<1>8. Ranges'
  <2>1. ASSUME NEW i \in 1..(n + 1)
        PROVE  /\ \E c \in Events : Size(stored'[i]) = PackageLen(c)
               /\ stored'[i].first = IF i = 1 THEN 1 ELSE stored'[i - 1].last + 2
    <3>1. CASE i \in 1..n
      <4>1. i # 1 => i - 1 \in 1..n
        BY <1>6
      <4>2. stored'[i] = stored[i] /\ (i # 1 => stored'[i - 1] = stored[i - 1])
        BY <1>6, <3>1, <4>1
      <4> QED BY <1>3, <1>6, <3>1, <4>2 DEF Ranges
    <3>2. CASE i = n + 1
      <4>1. Size(stored'[i]) = PackageLen(k)
        BY <1>5, <1>6, <3>2
      <4>2. n = 0 => FileLen = 0
        BY <1>3, InFile DEF Base
      <4>3. n # 0 => n \in 1..n /\ FileLen = stored[n].last + 1 /\ stored[n].last \in Nat
        BY <1>3, <1>6, InFile DEF Base
      <4>4. stored'[i].first = FileLen + 1
        BY <1>6, <1>7, <3>2
      <4>5. n # 0 => i - 1 = n /\ stored'[i - 1] = stored[n]
        BY <1>6, <3>2, <4>3
      <4>6. stored'[i].first = IF i = 1 THEN 1 ELSE stored'[i - 1].last + 2
        BY <1>6, <3>2, <4>2, <4>3, <4>4, <4>5
      <4> QED BY <4>1, <4>6
    <3> QED BY <1>6, <3>1, <3>2
  <2>2. ASSUME NEW i \in 1..(n + 1), NEW j \in 1..(n + 1), i < j
        PROVE  stored'[i].last + 1 < stored'[j].first
    <3>1. i \in 1..n /\ stored'[i] = stored[i]
      BY <1>6, <2>2
    <3>2. CASE j \in 1..n
      BY <1>3, <1>6, <2>2, <3>1, <3>2 DEF Ranges
    <3>3. CASE j = n + 1
      <4>1. stored[i].last + 1 <= FileLen /\ stored[i].last \in Nat
        BY <1>3, <1>6, <3>1, InFile
      <4>2. stored'[j].first = FileLen + 1 /\ stored'[i].last = stored[i].last
        BY <1>6, <1>7, <3>1, <3>3
      <4> QED BY <1>4, <4>1, <4>2
    <3> QED BY <1>6, <3>2, <3>3
  <2> QED BY <1>6, <2>1, <2>2 DEF Ranges
<1>9. ASSUME NEW b \in Fixed(k) \cup more PROVE Inner(b) /\ b >= 1 /\ b <= PackageLen(k)
  <2>1. b \in Fixed(k) \cup FilledBytes(k)
    BY <1>9 DEF kSubset
  <2>2. CASE b \in Fixed(k)
    <3>1. b \in {8, 9, 38}
      BY <2>2 DEF Fixed
    <3> QED BY <1>4, <3>1 DEF Inner, Residues
  <2>3. CASE b \in {PackageLen(k) - 1, PackageLen(k)}
    BY <1>4, <2>3 DEF PackageLen, Inner, Residues
  <2>4. CASE b \in UNION {Filled(i) : i \in Within \cap 0..(k - 1)}
    <3>1. PICK i \in 0..(k - 1) : b \in Filled(i)
      BY <2>4
    <3>2. PICK a \in {46, 47, 50, 51, 52} : b = a + 57 * i + 1
      BY <3>1 DEF Filled
    <3>3. i \in Nat /\ i <= k - 1
      BY <1>4
    <3> QED BY <1>4, <3>2, <3>3 DEF PackageLen, Inner, Residues
  <2>5. CASE b \in FilledBytes(k)
    BY <2>3, <2>4, <2>5 DEF FilledBytes
  <2> QED BY <2>1, <2>2, <2>5
<1>10. Newlines'
  <2>1. newlines' \in SUBSET Nat
    <3>1. newlines \in SUBSET Nat /\ \A b \in Fixed(k) \cup more : FileLen + b \in Nat
      BY <1>3, <1>4, <1>9 DEF Inner, Newlines
    <3>2. ASSUME NEW m \in newlines' PROVE m \in Nat
      BY <1>2, <3>1
    <3> QED BY <3>2
  <2>2. ASSUME NEW i \in 1..(n + 1)
        PROVE  stored'[i].last + 1 \in newlines' <=> ~(open' /\ i = Len(stored'))
    <3>0. Len(stored') = n + 1
      BY <1>2, <1>3 DEF Ranges
    <3>1. CASE i \in 1..n
      <4>1. stored[i].last + 1 \in newlines
        BY <1>3, <1>6, <3>1 DEF Newlines
      <4> QED BY <1>2, <1>6, <3>0, <3>1, <4>1
    <3>2. CASE i = n + 1
      <4>1. stored'[i].last + 1 = FileLen + PackageLen(k) + 1
        BY <1>4, <1>6, <1>7, <3>2
      <4>2. \A m \in newlines : m <= FileLen
        <5> SUFFICES ASSUME NEW m \in newlines PROVE m <= FileLen
          OBVIOUS
        <5>1. PICK c \in DOMAIN stored : m <= stored[c].last + 1
          BY <1>3 DEF Newlines
        <5>2. stored[c].last \in Nat /\ stored[c].last + 1 <= FileLen /\ m \in Nat
          BY <1>3, InFile DEF Newlines
        <5> QED BY <1>4, <5>1, <5>2
      <4>3. stored'[i].last + 1 \notin newlines
        BY <1>4, <4>1, <4>2
      <4>4. \A b \in Fixed(k) \cup more : FileLen + b # stored'[i].last + 1
        BY <1>4, <1>9, <4>1 DEF Inner
      <4> QED BY <1>2, <1>3, <3>0, <3>2, <4>3, <4>4
    <3> QED BY <1>6, <3>1, <3>2
  <2>3. ASSUME NEW m \in newlines'
        PROVE  \E i \in 1..(n + 1) :
                 /\ stored'[i].first <= m /\ m <= stored'[i].last + 1
                 /\ m <= stored'[i].last => Inner(m - stored'[i].first + 1)
    <3>1. CASE m \in newlines
      <4>1. PICK i \in 1..n :
              /\ stored[i].first <= m /\ m <= stored[i].last + 1
              /\ m <= stored[i].last => Inner(m - stored[i].first + 1)
        BY <1>3, <1>6, <3>1 DEF Newlines
      <4>2. i \in 1..(n + 1) /\ stored'[i] = stored[i]
        BY <1>6
      <4> QED BY <4>1, <4>2
    <3>2. CASE m \notin newlines
      <4>1. PICK b \in Fixed(k) \cup more : m = FileLen + b
        BY <1>2, <3>2
      <4>2. n + 1 \in 1..(n + 1) /\ stored'[n + 1] = new
        BY <1>6
      <4>3. b \in Nat /\ b >= 1 /\ b <= PackageLen(k) /\ Inner(b)
        BY <1>9 DEF Inner
      <4>4. m - new.first + 1 = b /\ new.first <= m /\ m <= new.last + 1
        BY <1>4, <1>7, <4>1, <4>3
      <4> QED BY <4>2, <4>3, <4>4
    <3> QED BY <3>1, <3>2
  <2> QED BY <1>6, <2>1, <2>2, <2>3 DEF Newlines
<1>11. Apart'
  <2>1. Len(stored') \in Nat
    BY <1>6
  <2>2. /\ Len(sent') = 0 /\ sent' \in Seq(Seq(Nat \X Nat)) /\ DOMAIN sent' = {}
        /\ place' = 0 /\ comp' = <<>> /\ read_count' = read_count
    BY <1>3
  <2>3. read_count = 0
    BY <1>3 DEF Apart, Base
  <2>4. Base(0)' = 0
    BY DEF Base
  <2> QED BY <2>1, <2>2, <2>3, <2>4 DEF Apart
<1> QED BY <1>8, <1>10, <1>11

\* The newline is put behind the last package.
LEMMA EndLineApart ==
  ASSUME Steps, Ranges, Newlines, Apart, EndLine PROVE (Ranges /\ Newlines /\ Apart)'
<1> DEFINE n == Len(stored)
<1>1. /\ open /\ stored # <<>> /\ open' = FALSE /\ UNCHANGED <<stored, readVars>>
      /\ newlines' = newlines \cup {FileLen + 1}
  BY DEF EndLine, Steps
<1>2. /\ DOMAIN stored = 1..n /\ n \in Nat /\ n \in DOMAIN stored
      /\ stored[n].first \in Nat /\ stored[n].last \in Nat
      /\ stored[n].first <= stored[n].last
  <2>1. DOMAIN stored = 1..n /\ n \in Nat /\ n \in DOMAIN stored
    BY <1>1 DEF Ranges
  <2> QED BY <2>1, OnePackage
<1>3. FileLen = stored[n].last
  <2>1. stored[Len(stored)].last + 1 \notin newlines
    BY <1>1, <1>2 DEF Newlines
  <2>2. FileLen = stored[Len(stored)].last + 0
    BY <1>1, <2>1 DEF FileLen, Last
  <2> QED BY <1>2, <2>2
<1>4. newlines' = newlines \cup {stored[n].last + 1}
  BY <1>1, <1>3
<1> HIDE DEF n
<1>5. Newlines'
  <2>1. newlines' \in SUBSET Nat
    <3>1. newlines \in SUBSET Nat
      BY DEF Newlines
    <3>2. stored[n].last + 1 \in Nat
      BY <1>2
    <3> QED BY <1>4, <3>1, <3>2
  <2>2. ASSUME NEW i \in DOMAIN stored PROVE stored[i].last + 1 \in newlines'
    BY <1>4 DEF Newlines, n
  <2>3. ASSUME NEW m \in newlines'
        PROVE  \E i \in DOMAIN stored :
                 /\ stored[i].first <= m /\ m <= stored[i].last + 1
                 /\ m <= stored[i].last => Inner(m - stored[i].first + 1)
    <3>1. CASE m \in newlines
      BY <3>1 DEF Newlines
    <3>2. CASE m = stored[n].last + 1
      BY <1>2, <3>2
    <3> QED BY <1>4, <3>1, <3>2
  <2> QED BY <1>1, <2>1, <2>2, <2>3 DEF Newlines
<1>6. Ranges'
  BY <1>1 DEF Ranges
<1>7. Apart'
  <2>1. place = 0 /\ comp = <<>> /\ read_count = 0 /\ sent = <<>>
    BY <1>1 DEF Steps
  <2>2. /\ place' = 0 /\ comp' = <<>> /\ read_count' = 0 /\ sent' = <<>>
        /\ Len(stored') \in Nat
    BY <1>1, <1>2, <2>1 DEF readVars, n
  <2> QED BY <2>2, StartsApart
<1> QED BY <1>5, <1>6, <1>7

\* The next line behind the lines there are.
LEMMA CoverNext ==
  ASSUME NEW a \in Nat, NEW b \in Nat, NEW m \in newlines, newlines \in SUBSET Nat,
         b < m, a <= b + 1,
         IF b + 1 = a THEN comp = <<>> ELSE Cover(comp, a, b)
  PROVE  Cover(Append(comp, <<b + 1, m>>), a, m)
<1> DEFINE l == <<b + 1, m>>
           all == Append(comp, l)
           n == Len(comp)
<1>1. m \in Nat /\ l \in Nat \X Nat /\ l[1] = b + 1 /\ l[2] = m
  OBVIOUS
<1>2. comp \in Seq(Nat \X Nat)
  <2>1. CASE comp = <<>>
    BY <2>1, EmptySeq
  <2>2. CASE Cover(comp, a, b)
    BY <2>2 DEF Cover
  <2> QED BY <2>1, <2>2
<1>3. /\ n \in Nat /\ DOMAIN comp = 1..n /\ all \in Seq(Nat \X Nat) /\ DOMAIN all = 1..(n + 1)
      /\ Len(all) = n + 1 /\ all[n + 1] = l /\ \A i \in 1..n : all[i] = comp[i]
  <2> HIDE DEF l
  <2> QED BY <1>1, <1>2
<1> HIDE DEF l
<1>4. n = 0 <=> b + 1 = a
  <2>1. CASE b + 1 = a
    <3>1. comp = <<>>
      BY <2>1
    <3> QED BY <2>1, <3>1
  <2>2. CASE b + 1 # a
    <3>1. comp # <<>>
      BY <2>2 DEF Cover
    <3> QED BY <1>2, <2>2, <3>1
  <2> QED BY <2>1, <2>2
<1> HIDE DEF n, all
<1>5. n # 0 => /\ n \in 1..n /\ 1 \in 1..n
               /\ comp[1][1] = a /\ comp[n][2] = b
               /\ \A i \in 2..n : comp[i][1] = comp[i - 1][2] + 1
               /\ \A i \in 1..n : comp[i][2] \in newlines /\ comp[i][2] <= b
  <2> SUFFICES ASSUME n # 0
               PROVE  /\ n \in 1..n /\ 1 \in 1..n
                      /\ comp[1][1] = a /\ comp[n][2] = b
                      /\ \A i \in 2..n : comp[i][1] = comp[i - 1][2] + 1
                      /\ \A i \in 1..n : comp[i][2] \in newlines /\ comp[i][2] <= b
    OBVIOUS
  <2>1. Cover(comp, a, b)
    BY <1>4
  <2>2. n \in 1..n /\ 1 \in 1..n
    BY <1>3
  <2> QED BY <1>3, <2>1, <2>2 DEF Cover, n
<1>6. all[1][1] = a /\ all # <<>> /\ all[Len(all)][2] = m
  <2>0. all # <<>>
    BY <1>3
  <2>1. CASE n = 0
    <3>1. all[1] = l /\ Len(all) = 1
      BY <1>3, <2>1
    <3> QED BY <1>1, <1>4, <2>0, <2>1, <3>1
  <2>2. CASE n # 0
    BY <1>1, <1>3, <1>5, <2>0, <2>2
  <2> QED BY <2>1, <2>2
<1>7. ASSUME NEW i \in 2..Len(all) PROVE all[i][1] = all[i - 1][2] + 1
  <2>1. CASE i \in 2..n
    <3>1. i \in 1..n /\ i - 1 \in 1..n
      BY <1>3, <2>1
    <3> QED BY <1>3, <1>5, <2>1, <3>1
  <2>2. CASE i = n + 1
    <3>1. n # 0 /\ i - 1 = n /\ all[i] = l /\ all[i - 1] = comp[n]
      BY <1>3, <1>7, <2>2
    <3> QED BY <1>1, <1>5, <3>1
  <2> QED BY <1>3, <1>7, <2>1, <2>2
<1>8. ASSUME NEW i \in DOMAIN all PROVE all[i][2] \in newlines /\ all[i][2] <= m
  <2>1. CASE i \in 1..n
    <3>1. n # 0 /\ all[i] = comp[i]
      BY <1>3, <2>1
    <3>2. comp[i][2] \in newlines /\ comp[i][2] <= b
      BY <1>5, <2>1, <3>1
    <3>3. comp[i][2] \in Nat
      BY <3>2
    <3> QED BY <1>1, <3>1, <3>2, <3>3
  <2>2. CASE i = n + 1
    BY <1>1, <1>3, <2>2
  <2> QED BY <1>3, <2>1, <2>2
<1> QED BY <1>3, <1>6, <1>7, <1>8 DEF Cover, all, l

\* A line ends the package, is the package, or is one more part of it.
LEMMA ReadLineApart ==
  ASSUME Steps, Ranges, Newlines, Apart, ReadLine PROVE (Ranges /\ Newlines /\ Apart)'
<1> DEFINE j == Len(sent)
           p == stored[j + 1]
           base == Base(j)
           m == Min({n \in newlines : n > place})
           l == <<place + 1, m>>
           all == Append(comp, l)
           q == place - base
           o == m - base
<1>1. /\ Ranges /\ Newlines /\ Apart /\ reading /\ place < FileLen /\ ~open
      /\ UNCHANGED <<stored, newlines, open>>
  BY DEF ReadLine, Steps, appendVars
<1>2. /\ j + 1 \in DOMAIN stored /\ p.first = base + 1
      /\ m \in newlines /\ m \in Nat /\ place < m /\ base \in Nat /\ base <= place
      /\ place # base => Inner(q)
      /\ m <= p.last + 1 /\ (m <= p.last => Inner(o))
  BY <1>1, NextInPackage
<1>3. /\ j \in Nat /\ j <= Len(stored) /\ place \in Nat /\ read_count = q
      /\ sent \in Seq(Seq(Nat \X Nat)) /\ DOMAIN sent = 1..j
  BY <1>1 DEF Apart
<1>4. place' = m /\ LineLen(l) = o - q
  <2>1. NextLine = l
    BY <1>2 DEF NextLine
  <2>2. place' = NextLine[2]
    BY DEF ReadLine
  <2>3. l[1] = place + 1 /\ l[2] = m
    OBVIOUS
  <2> HIDE DEF l
  <2>4. LineLen(l) = o - q
    BY <1>2, <1>3, <2>3 DEF LineLen
  <2> QED BY <2>1, <2>2, <2>3, <2>4
<1>5. \/ /\ EndsPackage(o - q)
         /\ sent' = Append(sent, <<l>>) /\ UNCHANGED <<comp, read_count>>
      \/ /\ ~EndsPackage(o - q) /\ EndsPackage(o)
         /\ sent' = Append(sent, all) /\ comp' = <<>> /\ read_count' = 0
      \/ /\ ~EndsPackage(o - q) /\ ~EndsPackage(o)
         /\ sent' = sent /\ comp' = all /\ read_count' = o
  <2>1. NextLine = l
    BY <1>2 DEF NextLine
  <2>2. read_count + LineLen(l) = o
    BY <1>2, <1>3, <1>4
  <2> HIDE DEF l, o, q, m
  <2> QED BY <1>4, <2>1, <2>2 DEF ReadLine
<1>6. p.last \in Nat /\ \E k \in Events : Size(p) = PackageLen(k)
  BY <1>1, <1>2, OnePackage DEF Ranges
<1>7. PICK k \in Nat : p.last = base + PackageLen(k)
  <2>1. PICK k \in Events : Size(p) = PackageLen(k)
    BY <1>6
  <2>2. k \in Nat /\ PackageLen(k) \in Nat
    BY UnsentAssumption DEF PackageLen
  <2>3. p.last = base + PackageLen(k)
    BY <1>2, <1>6, <2>1, <2>2 DEF Size
  <2> QED BY <2>2, <2>3
<1>8. /\ q \in Nat /\ o \in Nat /\ q < o /\ (q = 0 <=> place = base)
      /\ o = PackageLen(k) + 1 <=> m = p.last + 1
      /\ m # p.last + 1 => m <= p.last
  <2>1. PackageLen(k) \in Nat
    BY DEF PackageLen
  <2>2. q \in Nat /\ o \in Nat /\ q < o /\ (q = 0 <=> place = base)
    <3> HIDE DEF m, base
    <3> QED BY <1>2, <1>3
  <2>3. p.last \in Nat /\ p.last = base + PackageLen(k) /\ m <= p.last + 1
    BY <1>2, <1>6, <1>7
  <2>4. o = PackageLen(k) + 1 <=> m = p.last + 1
    <3> HIDE DEF m, base, p
    <3> QED BY <1>2, <2>1, <2>3
  <2>5. m # p.last + 1 => m <= p.last
    <3> HIDE DEF m, base, p
    <3> QED BY <1>2, <2>3
  <2> QED BY <2>2, <2>4, <2>5
<1>9. /\ EndsPackage(o - q) <=> q = 0 /\ o = PackageLen(k) + 1
      /\ EndsPackage(o) <=> o = PackageLen(k) + 1
  <2>1. (q = 0 \/ Inner(q)) /\ (o = PackageLen(k) + 1 \/ Inner(o))
    BY <1>2, <1>8
  <2> HIDE DEF o, q
  <2> QED BY <1>8, <2>1, OnlyPackagesEnd
<1>10. Cover(all, base + 1, m)
  <2>1. IF place + 1 = base + 1 THEN comp = <<>> ELSE Cover(comp, base + 1, place)
    BY <1>1, <1>2, <1>3 DEF Apart
  <2>2. newlines \in SUBSET Nat
    BY <1>1 DEF Newlines
  <2>3. base + 1 \in Nat /\ base + 1 <= place + 1
    BY <1>2, <1>3
  <2> HIDE DEF m, base
  <2> QED BY <1>2, <1>3, <2>1, <2>2, <2>3, CoverNext
<1> HIDE DEF o, q, l, all, m
\* What is sent is the package.
<1>11. ASSUME NEW x, sent' = Append(sent, x), Cover(x, p.first, p.last + 1),
              m = p.last + 1, comp' = <<>>, read_count' = 0
       PROVE  Apart'
  <2>1. MakesUp(x, p)
    BY <1>11 DEF Cover, MakesUp, Last
  <2>2. x \in Seq(Nat \X Nat)
    BY <1>11 DEF Cover
  <2>3. /\ sent' \in Seq(Seq(Nat \X Nat)) /\ Len(sent') = j + 1 /\ DOMAIN sent' = 1..(j + 1)
        /\ sent'[j + 1] = x /\ \A i \in 1..j : sent'[i] = sent[i]
    BY <1>3, <1>11, <2>2
  <2>4. ASSUME NEW i \in 1..(j + 1) PROVE MakesUp(sent'[i], stored[i])
    <3>1. CASE i \in 1..j
      BY <1>1, <1>3, <2>3, <3>1 DEF Apart
    <3>2. CASE i = j + 1
      BY <2>1, <2>3, <3>2
    <3> QED BY <1>3, <3>1, <3>2
  <2>5. j + 1 <= Len(stored) /\ j + 1 # 0
    BY <1>1, <1>2, <1>3 DEF Ranges
  <2>6. Base(Len(sent))' = p.last + 1
    BY <1>1, <2>3, <2>5 DEF Base
  <2>7. /\ place' = Base(Len(sent))' /\ place' \in Nat
        /\ read_count' = place' - Base(Len(sent))'
    BY <1>2, <1>4, <1>6, <1>11, <2>6
  <2>8. \A i \in DOMAIN sent' : MakesUp(sent'[i], stored'[i])
    BY <1>1, <2>3, <2>4
  <2>9. Len(sent') <= Len(stored')
    BY <1>1, <2>3, <2>5
  <2> QED BY <1>11, <2>3, <2>7, <2>8, <2>9 DEF Apart
<1>12. Apart'
  <2>1. CASE EndsPackage(o - q)
    <3>1. q = 0 /\ m = p.last + 1 /\ comp = <<>> /\ read_count = 0
      BY <1>1, <1>3, <1>8, <1>9, <2>1 DEF Apart
    <3>2. all = <<l>>
      BY <3>1 DEF all
    <3>3. sent' = Append(sent, <<l>>) /\ comp' = <<>> /\ read_count' = 0
      BY <1>5, <2>1, <3>1
    <3>4. Cover(<<l>>, p.first, p.last + 1)
      BY <1>2, <1>10, <3>1, <3>2
    <3> QED BY <1>11, <3>1, <3>3, <3>4
  <2>2. CASE ~EndsPackage(o - q) /\ EndsPackage(o)
    <3>1. m = p.last + 1
      BY <1>8, <1>9, <2>2
    <3>2. sent' = Append(sent, all) /\ comp' = <<>> /\ read_count' = 0
      BY <1>5, <2>2
    <3>3. Cover(all, p.first, p.last + 1)
      BY <1>2, <1>10, <3>1
    <3> QED BY <1>11, <3>1, <3>2, <3>3
  <2>3. CASE ~EndsPackage(o - q) /\ ~EndsPackage(o)
    <3>1. m <= p.last
      BY <1>8, <1>9, <2>3
    <3>2. sent' = sent /\ comp' = all /\ read_count' = o
      BY <1>5, <2>3
    <3>3. Len(sent') = j /\ Base(Len(sent))' = base /\ stored'[Len(sent') + 1] = p
      BY <1>1, <3>2 DEF Base
    <3>4. comp' = all /\ newlines' = newlines /\ Cover(all, p.first, m)
      <4>1. Cover(all, p.first, m)
        BY <1>2, <1>10
      <4>2. newlines' = newlines
        BY <1>1
      <4> QED BY <3>2, <4>1, <4>2
    <3>5. j < Len(stored') /\ p.first <= place' /\ place' <= p.last /\ place' \in newlines'
          /\ place' # base
      <4>1. j < Len(stored)
        BY <1>1, <1>2, <1>3 DEF Ranges
      <4>2. base + 1 <= m
        BY <1>2, <1>3
      <4> QED BY <1>1, <1>2, <1>3, <1>4, <3>1, <4>1, <4>2
    <3>6. read_count' = place' - base /\ place' \in Nat
      BY <1>2, <1>4, <3>2 DEF o
    <3>7. \A i \in DOMAIN sent' : MakesUp(sent'[i], stored'[i])
      BY <1>1, <3>2 DEF Apart
    <3>8. Cover(comp, stored[Len(sent) + 1].first, place)'
      <4>1. stored'[Len(sent') + 1].first = p.first /\ place' = m
        BY <1>4, <3>3
      <4> QED BY <3>4, <4>1 DEF Cover
    <3> QED BY <1>1, <1>3, <3>2, <3>3, <3>5, <3>6, <3>7, <3>8 DEF Apart
  <2> QED BY <2>1, <2>2, <2>3
<1>13. Ranges' /\ Newlines'
  BY <1>1 DEF Ranges, Newlines
<1> QED BY <1>12, <1>13

\* Nothing is stored.
LEMMA NothingStored ==
  ASSUME stored = <<>>, newlines = {}, open = FALSE, have = FALSE, cut = FALSE,
         reading = FALSE, place = 0, comp = <<>>, read_count = 0, sent = <<>>
  PROVE  UnsentInv
<1>1. Len(stored) = 0 /\ DOMAIN stored = {} /\ stored \in Seq([first : Nat, last : Nat])
  OBVIOUS
<1>2. Apart
  BY <1>1, NothingRead
<1>3. Ranges /\ Newlines
  BY <1>1 DEF Ranges, Newlines
<1> QED BY <1>2, <1>3 DEF UnsentInv, Steps

LEMMA NextApart == UnsentInv /\ [UnsentNext]_unsentVars => UnsentInv'
<1> SUFFICES ASSUME UnsentInv, [UnsentNext]_unsentVars PROVE UnsentInv'
  OBVIOUS
<1>0. Steps /\ (~cut => Ranges /\ Newlines /\ Apart)
  BY DEF UnsentInv
<1>1. CASE Store
  <2>1. Steps' /\ cut' = cut
    <3>1. /\ open' = TRUE /\ ~reading /\ UNCHANGED <<have, cut, readVars>>
          /\ \E p : stored' = Append(stored, p)
      BY <1>1 DEF Store
    <3>2. stored' # <<>>
      BY <3>1
    <3> QED BY <1>0, <3>1, <3>2 DEF Steps, readVars
  <2> QED BY <1>0, <1>1, <2>1, StoreApart DEF UnsentInv
<1>2. CASE EndLine
  <2>1. Steps' /\ cut' = cut
    BY <1>0, <1>2 DEF EndLine, Steps, readVars
  <2> QED BY <1>0, <1>2, <2>1, EndLineApart DEF UnsentInv
<1>3. CASE StartAgain
  <2>1. /\ open' = FALSE /\ have' = TRUE /\ cut' = (cut \/ open)
        /\ UNCHANGED <<stored, newlines>> /\ reading' = FALSE
        /\ place' = 0 /\ comp' = <<>> /\ read_count' = 0 /\ sent' = <<>>
    BY <1>3 DEF StartAgain, Forget
  <2>2. Steps'
    BY <1>0, <2>1 DEF Steps
  <2>3. ASSUME ~cut' PROVE (Ranges /\ Newlines /\ Apart)'
    <3>1. ~cut /\ ~open /\ Ranges /\ Newlines
      BY <1>0, <2>1, <2>3
    <3>2. Ranges' /\ Newlines'
      BY <2>1, <3>1 DEF Ranges, Newlines
    <3>3. Len(stored') \in Nat
      BY <2>1, <3>1 DEF Ranges
    <3> QED BY <2>1, <3>2, <3>3, StartsApart
  <2> QED BY <2>2, <2>3 DEF UnsentInv
<1>4. CASE OpenFile
  <2>1. /\ ~open /\ ~reading /\ reading' = TRUE
        /\ UNCHANGED <<appendVars, place, comp, read_count, sent>>
    BY <1>4 DEF OpenFile
  <2>2. Steps'
    BY <1>0, <2>1 DEF Steps, appendVars
  <2>3. cut' = cut /\ (Ranges /\ Newlines /\ Apart => (Ranges /\ Newlines /\ Apart)')
    BY <2>1 DEF appendVars, Ranges, Newlines, Apart, Base, Cover
  <2> QED BY <1>0, <2>2, <2>3 DEF UnsentInv
<1>5. CASE ReadLine
  <2>1. reading /\ UNCHANGED <<appendVars, reading>>
    BY <1>5 DEF ReadLine
  <2>2. Steps' /\ cut' = cut
    BY <1>0, <2>1 DEF Steps, appendVars
  <2> QED BY <1>0, <1>5, <2>2, ReadLineApart DEF UnsentInv
<1>6. CASE RemoveSent
  <2>1. /\ stored' = <<>> /\ newlines' = {} /\ have' = FALSE /\ cut' = FALSE
        /\ reading /\ reading' = FALSE /\ open' = open
        /\ place' = 0 /\ comp' = <<>> /\ read_count' = 0 /\ sent' = <<>>
    BY <1>6 DEF RemoveSent, Forget
  <2>2. open' = FALSE
    BY <1>0, <2>1 DEF Steps
  <2>3. /\ Len(stored') = 0 /\ DOMAIN stored' = {}
        /\ stored' \in Seq([first : Nat, last : Nat])
    BY <2>1
  <2>4. Apart'
    BY <2>1, <2>3, StartsApart
  <2>5. Ranges' /\ Newlines'
    BY <2>1, <2>3 DEF Ranges, Newlines
  <2>6. Steps'
    BY <2>1, <2>2 DEF Steps
  <2> QED BY <2>4, <2>5, <2>6 DEF UnsentInv
<1>7. CASE UNCHANGED unsentVars
  <2>1. UNCHANGED <<stored, newlines, open, have, cut, reading, place, comp, read_count, sent>>
    BY <1>7 DEF unsentVars, appendVars, readVars
  <2>2. Steps' /\ cut' = cut
    BY <1>0, <2>1 DEF Steps
  <2>3. Ranges /\ Newlines /\ Apart => (Ranges /\ Newlines /\ Apart)'
    BY <2>1 DEF Ranges, Newlines, Apart, Base, Cover
  <2> QED BY <1>0, <2>2, <2>3 DEF UnsentInv
<1> QED BY <1>1, <1>2, <1>3, <1>4, <1>5, <1>6, <1>7 DEF UnsentNext

LEMMA InitApart == UnsentInit => UnsentInv
  BY NothingStored DEF UnsentInit

(***************************************************************************)
(* Lines are in line_comp in their order, and line_comp does not overflow  *)
(* as long as it has room for each package that is stored.                 *)
(***************************************************************************)
THEOREM UnsentTypeCorrect == Fits /\ UnsentSpec => []UnsentTypeOK
<1> SUFFICES ASSUME Fits PROVE UnsentSpec => []UnsentTypeOK
  OBVIOUS
<1>1. UnsentInv => UnsentTypeOK
  <2> SUFFICES ASSUME UnsentInv, ~cut, reading PROVE UnsentTypeOK
    <3>1. UnsentInv /\ cut => UnsentTypeOK
      BY DEF UnsentInv, Steps, UnsentTypeOK
    <3>2. UnsentInv /\ ~reading /\ ~cut => UnsentTypeOK
      <4> SUFFICES ASSUME UnsentInv, ~reading, ~cut PROVE UnsentTypeOK
        OBVIOUS
      <4>1. Steps /\ place = 0 /\ comp = <<>> /\ read_count = 0 /\ DOMAIN comp = {}
        BY DEF UnsentInv, Steps
      <4>2. FileLen \in Nat
        <5>1. Ranges
          BY DEF UnsentInv
        <5>2. CASE stored = <<>>
          BY <5>2 DEF FileLen
        <5>3. CASE stored # <<>>
          <6>1. Len(stored) \in DOMAIN stored
            BY <5>1, <5>3 DEF Ranges
          <6>2. stored[Len(stored)].last \in Nat
            BY <5>1, <6>1, OnePackage
          <6> QED BY <5>3, <6>2 DEF FileLen, Last
        <5> QED BY <5>2, <5>3
      <4> QED BY <4>1, <4>2 DEF UnsentTypeOK, Steps, CompSize
    <3> QED BY <3>1, <3>2
  <2> DEFINE j == Len(sent)
             p == stored[j + 1]
             base == Base(j)
  <2>1. Ranges /\ Newlines /\ Apart /\ ~open /\ Steps
    BY DEF UnsentInv, Steps
  <2>2. /\ j \in Nat /\ j <= Len(stored) /\ place \in Nat /\ read_count = place - base
        /\ Len(stored) \in Nat /\ DOMAIN stored = 1..Len(stored)
    BY <2>1 DEF Apart, Ranges
  <2>3. FileLen \in Nat /\ base \in Nat /\ base <= FileLen
    BY <2>1, <2>2, InFile
  <2>4. ASSUME j + 1 \in DOMAIN stored
        PROVE  /\ p.last \in Nat /\ p.first = base + 1 /\ p.last + 1 <= FileLen
               /\ p.last + 1 - base <= CompSize
    <3>1. p.last \in Nat /\ p.last + 1 <= FileLen /\ p.first = Base((j + 1) - 1) + 1
      BY <2>1, <2>4, InFile
    <3>2. PICK k \in Events : Size(p) = PackageLen(k)
      BY <2>1, <2>4 DEF Ranges
    <3>3. PackageLen(k) + 1 <= CompSize /\ PackageLen(k) \in Nat
      BY UnsentAssumption DEF Fits, PackageLen
    <3>4. p.first = base + 1
      BY <2>2, <3>1
    <3>5. p.last + 1 - base = PackageLen(k) + 1
      BY <2>3, <3>1, <3>2, <3>3, <3>4 DEF Size
    <3> QED BY <3>1, <3>3, <3>4, <3>5
  <2>5. place # base => /\ j + 1 \in DOMAIN stored /\ p.first <= place /\ place <= p.last
                        /\ place \in newlines /\ Cover(comp, p.first, place)
    <3> SUFFICES ASSUME place # base
                 PROVE  /\ j + 1 \in DOMAIN stored /\ p.first <= place /\ place <= p.last
                        /\ place \in newlines /\ Cover(comp, p.first, place)
      OBVIOUS
    <3>1. /\ j < Len(stored) /\ p.first <= place /\ place <= p.last
          /\ place \in newlines /\ Cover(comp, p.first, place)
      BY <2>1 DEF Apart
    <3> QED BY <2>2, <3>1
  <2>6. place \in 0..FileLen
    <3>1. CASE place = base
      BY <2>2, <2>3, <3>1
    <3>2. CASE place # base
      BY <2>2, <2>3, <2>4, <2>5, <3>2
    <3> QED BY <3>1, <3>2
  <2>7. place # 0 => place \in newlines
    <3>1. CASE place = base
      <4>1. j # 0 => j \in DOMAIN stored /\ base = stored[j].last + 1
        BY <2>2 DEF Base
      <4>2. j = 0 => base = 0
        BY DEF Base
      <4> QED BY <2>1, <3>1, <4>1, <4>2 DEF Newlines
    <3>2. CASE place # base
      BY <2>5, <3>2
    <3> QED BY <3>1, <3>2
  <2>8. \A i \in DOMAIN comp : comp[i][2] \in newlines /\ comp[i][2] <= place
    <3>1. CASE place = base
      <4>1. comp = <<>>
        BY <2>1, <3>1 DEF Apart
      <4>2. DOMAIN comp = {}
        BY <4>1
      <4> QED BY <4>2
    <3>2. CASE place # base
      BY <2>5, <3>2 DEF Cover
    <3> QED BY <3>1, <3>2
  <2>9. read_count \in 0..CompSize
    <3>1. CASE place = base
      <4> HIDE DEF base
      <4>1. read_count = 0
        BY <2>2, <2>3, <3>1
      <4> QED BY <4>1 DEF CompSize
    <3>2. CASE place # base
      <4>1. base + 1 <= place /\ place <= p.last /\ p.last + 1 - base <= CompSize
            /\ p.last \in Nat
        BY <2>4, <2>5, <3>2
      <4> HIDE DEF base, p
      <4>2. read_count \in Nat /\ read_count <= CompSize
        BY <2>2, <2>3, <4>1 DEF CompSize
      <4> QED BY <4>2 DEF CompSize
    <3> QED BY <3>1, <3>2
  <2>10. ASSUME place < FileLen PROVE read_count + LineLen(NextLine) <= CompSize
    <3> DEFINE m == Min({n \in newlines : n > place})
    <3>1. /\ j + 1 \in DOMAIN stored /\ m \in Nat /\ m <= p.last + 1
          /\ m \in newlines /\ place < m
      BY <2>1, <2>10, NextInPackage
    <3>2. p.last \in Nat /\ p.last + 1 - base <= CompSize
      BY <2>4, <3>1
    <3>3. NextLine = <<place + 1, m>>
      BY <3>1 DEF NextLine
    <3> HIDE DEF m
    <3>4. LineLen(NextLine) = m - (place + 1) + 1
      BY <3>3 DEF LineLen
    <3>5. read_count + LineLen(NextLine) = m - base
      BY <2>2, <2>3, <3>1, <3>4
    <3> QED BY <2>3, <3>1, <3>2, <3>5 DEF CompSize
  <2> QED BY <2>1, <2>6, <2>7, <2>8, <2>9, <2>10 DEF UnsentTypeOK, Steps
<1> QED BY <1>1, InitApart, NextApart, PTL DEF UnsentSpec

(***************************************************************************)
(* What could not be sent is sent later as it was stored: each package     *)
(* once, whole and by itself, in the order of the file, whichever of its   *)
(* bytes are newlines, and nothing is left over when the file is removed,  *)
(* as long as line_comp has room for each package and no life of the daemon*)
(* has ended between a package and its newline.                            *)
(***************************************************************************)
THEOREM PackagesComeApartCorrect == Fits /\ UnsentSpec => []PackagesComeApart
<1>1. UnsentInv => PackagesComeApart
  <2> SUFFICES ASSUME UnsentInv, ~cut PROVE PackagesComeApart
    BY DEF PackagesComeApart
  <2> DEFINE j == Len(sent)
  <2>1. Ranges /\ Newlines /\ Apart /\ (reading => ~open)
    BY DEF UnsentInv, Steps
  <2>2. /\ j \in Nat /\ j <= Len(stored) /\ place \in Nat
        /\ Len(stored) \in Nat /\ DOMAIN stored = 1..Len(stored)
        /\ \A i \in DOMAIN sent : MakesUp(sent[i], stored[i])
    BY <2>1 DEF Apart, Ranges
  <2>3. ASSUME reading, place = FileLen PROVE comp = <<>> /\ j = Len(stored)
    <3>1. place = Base(j)
      <4> SUFFICES ASSUME place # Base(j) PROVE FALSE
        OBVIOUS
      <4>1. j < Len(stored) /\ place <= stored[j + 1].last
        BY <2>1 DEF Apart
      <4>2. j + 1 \in DOMAIN stored
        BY <2>2, <4>1
      <4>3. stored[j + 1].last \in Nat /\ stored[j + 1].last + 1 <= FileLen
        BY <2>1, <2>3, <4>2, InFile
      <4> QED BY <2>2, <2>3, <4>1, <4>3
    <3>2. j = Len(stored)
      <4> SUFFICES ASSUME j < Len(stored) PROVE FALSE
        BY <2>2
      <4>1. j + 1 \in DOMAIN stored /\ (j + 1) - 1 = j
        BY <2>2
      <4>2. stored[j + 1].first = Base(j) + 1 /\ stored[j + 1].last + 1 <= FileLen
        BY <2>1, <2>3, <4>1, InFile
      <4>3. /\ stored[j + 1].first \in Nat /\ stored[j + 1].last \in Nat
            /\ stored[j + 1].first <= stored[j + 1].last
        BY <2>1, <4>1, OnePackage
      <4> QED BY <2>2, <2>3, <3>1, <4>2, <4>3
    <3>3. comp = <<>>
      BY <2>1, <3>1 DEF Apart
    <3> QED BY <3>2, <3>3
  <2> QED BY <2>2, <2>3 DEF PackagesComeApart
<1> QED BY <1>1, InitApart, NextApart, PTL DEF UnsentSpec
-------------------------------------------------------------------------------
(***************************************************************************)
(* SettingsPages for any users, any number of saves and any files that are *)
(* what the program writes. What a form holds is in the range of its       *)
(* field, or absent (Forms), and a field can be absent only on the page of *)
(* the serial ports and after that page has read a truncated file; until   *)
(* then the first twenty lines of its file are options, or it is empty.    *)
(* The file begins with the lines of the process that wrote last (OnFile), *)
(* so that what is read back depends on ComLines, FuncLines and the eight  *)
(* bits of a byte only.                                                    *)
(***************************************************************************)

\* What may be in a form, a complete one as long as no file was read while
\* it was truncated.
Forms ==
  {<<>>} \cup
  {f \in [Fields(page) -> Int] : \A i \in Fields(page) :
     f[i] \in Values(page, i) \/ (page = "com" /\ readOpen /\ f[i] = Absent)}

Asked ==
  /\ page \in Page /\ overruns \in BOOLEAN /\ readOpen \in BOOLEAN
  /\ saves \in 0..MaxSaves /\ kills \in 0..MaxKills
  /\ form \in [User -> Forms] /\ writing \in [User -> Forms] /\ kept \in Forms

OnFile ==
  /\ lines \in Seq(Line)
  /\ page = "com" /\ ~readOpen /\ lines # <<>> =>
       Len(lines) >= 20 /\ \A i \in 1..20 : lines[i] \in ComOptions[ComField(i)]
  /\ kept # <<>> =>
       /\ Len(lines) >= Len(Lines(kept))
       /\ \A i \in 1..Len(Lines(kept)) : lines[i] = Lines(kept)[i]

PagesInv == Asked /\ OnFile
-------------------------------------------------------------------------------
\* What holds at 0, and at n + 1 when at n, holds at every n up to m.
LEMMA UpTo ==
  ASSUME NEW m \in Nat, NEW S, 0 \in S,
         \A n \in 0..(m - 1) : n \in S => n + 1 \in S
  PROVE  0..m \subseteq S
<1> DEFINE T == {n \in 0..m : n \notin S}
<1>1. T \in SUBSET Nat
  OBVIOUS
<1> SUFFICES ASSUME T # {} PROVE FALSE
  OBVIOUS
<1> DEFINE n == Min(T)
<1>2. n \in T /\ \A y \in T : n <= y
  <2> HIDE DEF T
  <2> QED BY <1>1, LeastOf
<1>3. n \in 0..m /\ n \notin S
  BY <1>2
<1> HIDE DEF n
<1>4. n # 0 /\ n - 1 \in 0..(m - 1) /\ (n - 1) + 1 = n
  BY <1>3
<1>5. n - 1 \notin T
  <2>1. ~(n <= n - 1)
    BY <1>3
  <2> QED BY <1>2, <2>1
<1>6. n - 1 \in S
  BY <1>4, <1>5
<1> QED BY <1>3, <1>4, <1>6

LEMMA Options ==
  ASSUME NEW i \in 1..20
  PROVE  /\ ComField(i) \in 1..5 /\ ComOptions[ComField(i)] \subseteq Nat
         /\ \A l \in ComOptions[ComField(i)] : l \in Line /\ ComInput(i, l) = l
<1>1. ComField(i) \in 1..5
  BY DEF ComField
<1>2. /\ ComOptions[1] = {0, 1, 2, 3} /\ ComOptions[2] = {6, 7, 8}
      /\ ComOptions[3] = {1, OneAndHalf, 2} /\ ComOptions[4] = {0, 1, 2}
      /\ ComOptions[5] = {9600, 19200, 38400, 57600, 115200}
  BY DEF ComOptions
<1>3. /\ ComOptions[ComField(i)] \subseteq Nat
      /\ ComField(i) # 3 => 15 \notin ComOptions[ComField(i)]
  BY <1>1, <1>2 DEF OneAndHalf
<1>4. ASSUME NEW l \in ComOptions[ComField(i)] PROVE l \in Line /\ ComInput(i, l) = l
  <2>1. l \in Line
    BY <1>3 DEF Line, Absent
  <2>2. ComField(i) # 3 => l # OneAndHalf
    BY <1>3 DEF OneAndHalf
  <2> QED BY <2>1, <2>2 DEF ComInput, StopBit, atoi
<1> QED BY <1>1, <1>3, <1>4

\* What the process of a com_set has written after i of the lines.
IsWritten(f, g, n) ==
  g = [i \in 0..n |-> IF i = 0 THEN <<>>
                      ELSE IF f[i] = Absent THEN g[i - 1] ELSE Append(g[i - 1], f[i])]

LEMMA SomeWritten == \A f : \E g : IsWritten(f, g, 20)
<1> SUFFICES ASSUME NEW f PROVE \E g : IsWritten(f, g, 20)
  OBVIOUS
<1> DEFINE S == {n \in 0..20 : \E g : IsWritten(f, g, n)}
<1>1. 0 \in S
  <2> DEFINE g == [i \in 0..0 |-> <<>>]
  <2>1. IsWritten(f, g, 0)
    BY DEF IsWritten
  <2> HIDE DEF g
  <2> QED BY <2>1
<1>2. ASSUME NEW n \in 0..19, n \in S PROVE n + 1 \in S
  <2>1. PICK g : IsWritten(f, g, n)
    BY <1>2
  <2> DEFINE next == IF f[n + 1] = Absent THEN g[n] ELSE Append(g[n], f[n + 1])
             h == [i \in 0..(n + 1) |-> IF i = n + 1 THEN next ELSE g[i]]
  <2> HIDE DEF next
  <2>2. \A i \in 0..n : h[i] = g[i]
    OBVIOUS
  <2>3. h[n + 1] = next
    OBVIOUS
  <2>4. ASSUME NEW i \in 0..(n + 1)
        PROVE  h[i] = IF i = 0 THEN <<>>
                      ELSE IF f[i] = Absent THEN h[i - 1] ELSE Append(h[i - 1], f[i])
    <3>1. CASE i = n + 1
      <4>1. h[i - 1] = g[n] /\ i # 0
        BY <2>2, <3>1
      <4> QED BY <2>3, <3>1, <4>1 DEF next
    <3>2. CASE i # n + 1
      <4>1. i \in 0..n /\ (i # 0 => i - 1 \in 0..n)
        BY <3>2
      <4>2. g[i] = IF i = 0 THEN <<>>
                   ELSE IF f[i] = Absent THEN g[i - 1] ELSE Append(g[i - 1], f[i])
        BY <2>1, <4>1 DEF IsWritten
      <4>3. h[i] = g[i] /\ (i # 0 => h[i - 1] = g[i - 1])
        BY <2>2, <4>1
      <4> HIDE DEF h
      <4> QED BY <4>2, <4>3
    <3> QED BY <3>1, <3>2
  <2>5. h = [i \in 0..(n + 1) |-> h[i]]
    OBVIOUS
  <2> HIDE DEF h
  <2>6. IsWritten(f, h, n + 1)
    BY <2>4, <2>5 DEF IsWritten
  <2> QED BY <1>2, <2>6
<1>3. 0..20 \subseteq S
  <2>1. \A n \in 0..(20 - 1) : n \in S => n + 1 \in S
    BY <1>2
  <2> HIDE DEF S
  <2> QED BY <1>1, <2>1, UpTo
<1> QED BY <1>3

LEMMA ComWrites ==
  ASSUME NEW f, \A i \in 1..20 : f[i] \in Line \cup {Absent}
  PROVE  /\ ComLines(f) \in Seq(Line)
         /\ (\A i \in 1..20 : f[i] # Absent) =>
              Len(ComLines(f)) = 20 /\ \A i \in 1..20 : ComLines(f)[i] = f[i]
<1> DEFINE g == CHOOSE h : IsWritten(f, h, 20)
           whole == \A i \in 1..20 : f[i] # Absent
           S == {n \in 0..20 :
                   /\ g[n] \in Seq(Line)
                   /\ whole => Len(g[n]) = n /\ \A i \in 1..n : g[n][i] = f[i]}
<1>1. ComLines(f) = g[20]
  BY DEF ComLines, IsWritten
<1>2. IsWritten(f, g, 20)
  BY SomeWritten
<1> HIDE DEF g
<1>3. ASSUME NEW i \in 0..20
      PROVE  g[i] = IF i = 0 THEN <<>>
                    ELSE IF f[i] = Absent THEN g[i - 1] ELSE Append(g[i - 1], f[i])
  BY <1>2 DEF IsWritten
<1>4. 0 \in S
  <2>1. g[0] = <<>>
    BY <1>3
  <2>2. g[0] \in Seq(Line) /\ Len(g[0]) = 0
    BY <2>1
  <2> QED BY <2>2
<1>5. ASSUME NEW n \in 0..19, n \in S PROVE n + 1 \in S
  <2>1. /\ g[n] \in Seq(Line) /\ n + 1 \in 1..20 /\ (n + 1) - 1 = n
        /\ whole => Len(g[n]) = n /\ \A i \in 1..n : g[n][i] = f[i]
    BY <1>5
  <2>2. g[n + 1] = IF f[n + 1] = Absent THEN g[n] ELSE Append(g[n], f[n + 1])
    <3>1. n + 1 \in 0..20 /\ n + 1 # 0
      OBVIOUS
    <3>2. g[n + 1] = IF n + 1 = 0 THEN <<>>
                     ELSE IF f[n + 1] = Absent THEN g[(n + 1) - 1]
                     ELSE Append(g[(n + 1) - 1], f[n + 1])
      BY <1>3, <3>1, Zenon
    <3> QED BY <2>1, <3>1, <3>2, Zenon
  <2>3. CASE f[n + 1] = Absent
    <3>1. ~whole
      BY <2>1, <2>3
    <3>2. g[n + 1] = g[n]
      BY <2>2, <2>3
    <3> HIDE DEF whole
    <3> QED BY <2>1, <3>1, <3>2
  <2>4. CASE f[n + 1] # Absent
    <3>1. f[n + 1] \in Line
      BY <2>1, <2>4
    <3>2. /\ g[n + 1] \in Seq(Line) /\ Len(g[n + 1]) = Len(g[n]) + 1
          /\ g[n + 1][Len(g[n]) + 1] = f[n + 1]
          /\ \A i \in 1..Len(g[n]) : g[n + 1][i] = g[n][i]
      BY <2>1, <2>2, <2>4, <3>1
    <3>3. ASSUME whole
          PROVE  Len(g[n + 1]) = n + 1 /\ \A i \in 1..(n + 1) : g[n + 1][i] = f[i]
      <4>1. Len(g[n]) = n /\ \A i \in 1..n : g[n][i] = f[i]
        BY <2>1, <3>3
      <4>2. Len(g[n + 1]) = n + 1 /\ g[n + 1][n + 1] = f[n + 1]
        BY <3>2, <4>1
      <4>3. \A i \in 1..n : g[n + 1][i] = f[i]
        BY <3>2, <4>1
      <4>4. \A i \in 1..(n + 1) : i \in 1..n \/ i = n + 1
        OBVIOUS
      <4> QED BY <4>2, <4>3, <4>4
    <3> HIDE DEF whole
    <3> QED BY <2>1, <3>2, <3>3
  <2> QED BY <2>3, <2>4
<1>6. 0..20 \subseteq S
  <2> HIDE DEF S
  <2>1. \A n \in 0..(20 - 1) : n \in S => n + 1 \in S
    BY <1>5
  <2> QED BY <1>4, <2>1, UpTo
<1>7. 20 \in S
  <2> HIDE DEF S
  <2>1. 20 \in 0..20
    OBVIOUS
  <2> QED BY <1>6, <2>1
<1> QED BY <1>1, <1>7

\* A number of eight bits gives each of them back.
LEMMA Bits ==
  ASSUME NEW a \in [0..7 -> {0, 1}], NEW n,
         n = a[0] + 2 * a[1] + 4 * a[2] + 8 * a[3]
             + 16 * a[4] + 32 * a[5] + 64 * a[6] + 128 * a[7]
  PROVE  n \in 0..255 /\ n % 256 = n /\ \A b \in 0..7 : Bit(b, n) = a[b]
<1>1. /\ Mask[1] = 1 /\ Mask[2] = 2 /\ Mask[3] = 4 /\ Mask[4] = 8
      /\ Mask[5] = 16 /\ Mask[6] = 32 /\ Mask[7] = 64 /\ Mask[8] = 128
  BY DEF Mask
<1>2. /\ a[0] \in {0, 1} /\ a[1] \in {0, 1} /\ a[2] \in {0, 1} /\ a[3] \in {0, 1}
      /\ a[4] \in {0, 1} /\ a[5] \in {0, 1} /\ a[6] \in {0, 1} /\ a[7] \in {0, 1}
  OBVIOUS
<1>3. n \in 0..255 /\ n % 256 = n
  BY <1>2
\* What the bits from the kth on make.
<1> DEFINE q7 == a[7]
           q6 == a[6] + 2 * q7
           q5 == a[5] + 2 * q6
           q4 == a[4] + 2 * q5
           q3 == a[3] + 2 * q4
           q2 == a[2] + 2 * q3
           q1 == a[1] + 2 * q2
<1>4. /\ q1 \in Int /\ q2 \in Int /\ q3 \in Int /\ q4 \in Int
      /\ q5 \in Int /\ q6 \in Int /\ q7 \in Int
  <2>1. /\ a[0] \in Int /\ a[1] \in Int /\ a[2] \in Int /\ a[3] \in Int
        /\ a[4] \in Int /\ a[5] \in Int /\ a[6] \in Int /\ a[7] \in Int
    BY <1>2
  <2>2. \A x, y \in Int : x + 2 * y \in Int
    OBVIOUS
  <2> QED BY <2>1, <2>2, Zenon
<1>5. /\ n \div 1 = a[0] + 2 * q1
      /\ n \div 2 = q1
      /\ n \div 4 = q2
      /\ n \div 8 = q3
      /\ n \div 16 = q4
      /\ n \div 32 = q5
      /\ n \div 64 = q6
      /\ n \div 128 = q7
  BY <1>2
<1>6. ASSUME NEW x \in {0, 1}, NEW y \in Int PROVE (x + 2 * y) % 2 = x
  OBVIOUS
<1>7. /\ (n \div 1) % 2 = a[0]
      /\ (n \div 2) % 2 = a[1]
      /\ (n \div 4) % 2 = a[2]
      /\ (n \div 8) % 2 = a[3]
      /\ (n \div 16) % 2 = a[4]
      /\ (n \div 32) % 2 = a[5]
      /\ (n \div 64) % 2 = a[6]
      /\ (n \div 128) % 2 = a[7]
  <2>1. a[7] % 2 = a[7]
    BY <1>2
  <2>2. /\ (a[0] + 2 * q1) % 2 = a[0]
        /\ (a[1] + 2 * q2) % 2 = a[1]
        /\ (a[2] + 2 * q3) % 2 = a[2]
        /\ (a[3] + 2 * q4) % 2 = a[3]
        /\ (a[4] + 2 * q5) % 2 = a[4]
        /\ (a[5] + 2 * q6) % 2 = a[5]
        /\ (a[6] + 2 * q7) % 2 = a[6]
    <3> HIDE DEF q1, q2, q3, q4, q5, q6, q7
    <3> QED BY <1>2, <1>4, <1>6, Zenon
  <2> QED BY <1>5, <2>1, <2>2, Zenon
<1>8. /\ Bit(0, n) = (n \div 1) % 2 /\ Bit(1, n) = (n \div 2) % 2
      /\ Bit(2, n) = (n \div 4) % 2 /\ Bit(3, n) = (n \div 8) % 2
      /\ Bit(4, n) = (n \div 16) % 2 /\ Bit(5, n) = (n \div 32) % 2
      /\ Bit(6, n) = (n \div 64) % 2 /\ Bit(7, n) = (n \div 128) % 2
  BY <1>1 DEF Bit
<1>9. ASSUME NEW b \in 0..7 PROVE Bit(b, n) = a[b]
  <2>1. b \in {0, 1, 2, 3, 4, 5, 6, 7}
    OBVIOUS
  <2> HIDE DEF Bit
  <2> QED BY <1>7, <1>8, <2>1
<1> QED BY <1>3, <1>9

\* What dev_func writes, and what it says of the switches.
LEMMA FuncWrites ==
  ASSUME NEW f \in [1..21 -> Int], \A i \in 1..21 : f[i] \in Values("func", i)
  PROVE  /\ FuncLines(f) \in Seq(Line) /\ Len(FuncLines(f)) = 8
         /\ \A i \in 16..21 : FuncLines(f)[i - 13] = f[i]
         /\ \A i \in 1..15 : i \notin 5..7 =>
              IF i <= 8 THEN Bit(ShownBit[i], FuncLines(f)[1] % 256) = f[i]
              ELSE Bit(ShownBit[i] - 8, FuncLines(f)[2] % 256) = f[i]
<1>1. /\ \A i \in 1..15 : f[i] \in {0, 1}
      /\ \A i \in 16..21 : f[i] \in Line
  <2>1. \A i \in 1..15 : Values("func", i) = {0, 1}
    BY DEF Values, Switches
  <2>2. \A i \in 18..21 : Values("func", i) = 0..4
    BY DEF Values, Switches
  <2>3. \A i \in 16..17 : Values("func", i) = Line
    BY DEF Values, Switches
  <2>4. 0..4 \subseteq Line
    BY DEF Line, Absent
  <2> QED BY <2>1, <2>2, <2>3, <2>4
<1>2. ASSUME NEW v \in {0, 1}
      PROVE  /\ On(v, 0) = v /\ On(v, 1) = 2 * v /\ On(v, 2) = 4 * v /\ On(v, 3) = 8 * v
             /\ On(v, 4) = 16 * v /\ On(v, 5) = 32 * v /\ On(v, 6) = 64 * v
             /\ On(v, 7) = 128 * v
  <2>1. /\ Mask[1] = 1 /\ Mask[2] = 2 /\ Mask[3] = 4 /\ Mask[4] = 8
        /\ Mask[5] = 16 /\ Mask[6] = 32 /\ Mask[7] = 64 /\ Mask[8] = 128
    BY DEF Mask
  <2> QED BY <2>1 DEF On
<1>3. Byte0(f) = f[1] + 2 * f[2] + 4 * f[3] + 8 * f[4]
                 + 16 * f[5] + 32 * f[6] + 64 * f[7] + 128 * f[8]
  <2>1. /\ On(f[1], 0) = f[1] /\ On(f[2], 1) = 2 * f[2] /\ On(f[3], 2) = 4 * f[3]
        /\ On(f[4], 3) = 8 * f[4] /\ On(f[5], 4) = 16 * f[5] /\ On(f[6], 5) = 32 * f[6]
        /\ On(f[7], 6) = 64 * f[7] /\ On(f[8], 7) = 128 * f[8]
    BY <1>1, <1>2
  <2> QED BY <2>1 DEF Byte0
<1>4. Byte1(f) = f[9] + 2 * f[10] + 4 * f[11] + 8 * f[12]
                 + 16 * f[13] + 32 * f[14] + 64 * f[15] + 128 * 0
  <2>1. /\ On(f[9], 0) = f[9] /\ On(f[10], 1) = 2 * f[10] /\ On(f[11], 2) = 4 * f[11]
        /\ On(f[12], 3) = 8 * f[12] /\ On(f[13], 4) = 16 * f[13]
        /\ On(f[14], 5) = 32 * f[14] /\ On(f[15], 6) = 64 * f[15]
    BY <1>1, <1>2
  <2>2. \A i \in 9..15 : f[i] \in Int
    BY <1>1
  <2> QED BY <2>1, <2>2 DEF Byte1
<1>5. /\ Byte0(f) \in 0..255 /\ Byte0(f) % 256 = Byte0(f)
      /\ \A i \in 1..8 : Bit(i - 1, Byte0(f)) = f[i]
  <2> DEFINE a == [b \in 0..7 |-> f[b + 1]]
  <2>1. /\ a \in [0..7 -> {0, 1}] /\ \A i \in 1..8 : a[i - 1] = f[i]
    BY <1>1
  <2>2. Byte0(f) = a[0] + 2 * a[1] + 4 * a[2] + 8 * a[3]
                   + 16 * a[4] + 32 * a[5] + 64 * a[6] + 128 * a[7]
    BY <1>3
  <2> HIDE DEF a
  <2>3. /\ Byte0(f) \in 0..255 /\ Byte0(f) % 256 = Byte0(f)
        /\ \A b \in 0..7 : Bit(b, Byte0(f)) = a[b]
    BY <2>1, <2>2, Bits
  <2> QED BY <2>1, <2>3
<1>6. /\ Byte1(f) \in 0..255 /\ Byte1(f) % 256 = Byte1(f)
      /\ \A i \in 9..15 : Bit((i - 1) - 8, Byte1(f)) = f[i]
  <2> DEFINE a == [b \in 0..7 |-> IF b = 7 THEN 0 ELSE f[b + 9]]
  <2>1. /\ a \in [0..7 -> {0, 1}] /\ \A i \in 9..15 : a[(i - 1) - 8] = f[i]
    BY <1>1
  <2>2. Byte1(f) = a[0] + 2 * a[1] + 4 * a[2] + 8 * a[3]
                   + 16 * a[4] + 32 * a[5] + 64 * a[6] + 128 * a[7]
    BY <1>4
  <2> HIDE DEF a
  <2>3. /\ Byte1(f) \in 0..255 /\ Byte1(f) % 256 = Byte1(f)
        /\ \A b \in 0..7 : Bit(b, Byte1(f)) = a[b]
    BY <2>1, <2>2, Bits
  <2> QED BY <2>1, <2>3
<1> DEFINE two == <<Byte0(f), Byte1(f)>>
           rest == SubSeq(f, 16, 21)
<1>7. /\ rest \in Seq(Line) /\ Len(rest) = 6
      /\ \A i \in 1..6 : rest[i] = f[15 + i]
  <2>1. \A i \in 16..21 : f[i] \in Line
    BY <1>1
  <2>2. /\ rest \in Seq(Line) /\ Len(rest) = IF 16 <= 21 THEN 21 - 16 + 1 ELSE 0
        /\ \A i \in 1..(21 - 16 + 1) : rest[i] = f[16 + i - 1]
    BY <2>1, SubSeqProperties
  <2> HIDE DEF rest
  <2> QED BY <2>2
<1>8. two \in Seq(Line) /\ Len(two) = 2 /\ two[1] = Byte0(f) /\ two[2] = Byte1(f)
  <2>1. Byte0(f) \in Line /\ Byte1(f) \in Line
    BY <1>5, <1>6 DEF Line, Absent
  <2> QED BY <2>1
<1>9. FuncLines(f) = two \o rest
  BY DEF FuncLines
<1> HIDE DEF two, rest
<1>10. /\ FuncLines(f) \in Seq(Line) /\ Len(FuncLines(f)) = 8
       /\ FuncLines(f)[1] = Byte0(f) /\ FuncLines(f)[2] = Byte1(f)
       /\ \A i \in 16..21 : FuncLines(f)[i - 13] = f[i]
  <2>1. /\ two \o rest \in Seq(Line) /\ Len(two \o rest) = Len(two) + Len(rest)
        /\ \A i \in 1..(Len(two) + Len(rest)) :
             (two \o rest)[i] = IF i <= Len(two) THEN two[i] ELSE rest[i - Len(two)]
    BY <1>7, <1>8, ConcatProperties
  <2> DEFINE all == two \o rest
  <2> HIDE DEF all
  <2>2. /\ all \in Seq(Line) /\ Len(all) = 8
        /\ \A i \in 1..8 : all[i] = IF i <= 2 THEN two[i] ELSE rest[i - 2]
    <3>1. Len(two) = 2 /\ Len(rest) = 6
      BY <1>7, <1>8
    <3>2. /\ all \in Seq(Line) /\ Len(all) = 2 + 6
          /\ \A i \in 1..(2 + 6) : all[i] = IF i <= 2 THEN two[i] ELSE rest[i - 2]
      BY <2>1, <3>1, Zenon DEF all
    <3> QED BY <3>2
  <2>3. all[1] = two[1] /\ all[2] = two[2]
    BY <2>2
  <2>4. ASSUME NEW i \in 16..21 PROVE all[i - 13] = f[i]
    <3>1. i - 13 \in 1..8 /\ ~(i - 13 <= 2) /\ (i - 13) - 2 \in 1..6 /\ 15 + ((i - 13) - 2) = i
      OBVIOUS
    <3>2. all[i - 13] = rest[(i - 13) - 2]
      BY <2>2, <3>1
    <3> QED BY <1>7, <3>1, <3>2
  <2> QED BY <1>8, <1>9, <2>2, <2>3, <2>4 DEF all
<1>11. /\ \A i \in {1, 2, 3, 4, 8} : ShownBit[i] = i - 1
       /\ \A i \in 9..15 : ShownBit[i] = i - 1
  BY DEF ShownBit, Switches
<1>12. ASSUME NEW i \in 1..15, i \notin 5..7
       PROVE  IF i <= 8 THEN Bit(ShownBit[i], FuncLines(f)[1] % 256) = f[i]
              ELSE Bit(ShownBit[i] - 8, FuncLines(f)[2] % 256) = f[i]
  <2>1. FuncLines(f)[1] % 256 = Byte0(f) /\ FuncLines(f)[2] % 256 = Byte1(f)
    BY <1>5, <1>6, <1>10
  <2>2. CASE i \in {1, 2, 3, 4, 8}
    <3>1. Bit(i - 1, Byte0(f)) = f[i] /\ i <= 8 /\ ShownBit[i] = i - 1
      BY <1>5, <1>11, <2>2
    <3> QED BY <2>1, <3>1
  <2>3. CASE i \in 9..15
    <3>1. Bit((i - 1) - 8, Byte1(f)) = f[i] /\ ~(i <= 8) /\ ShownBit[i] = i - 1
      BY <1>6, <1>11, <2>3
    <3> QED BY <2>1, <3>1, Zenon
  <2> QED BY <1>12, <2>2, <2>3
<1> QED BY <1>10, <1>12

\* The lines a process writes: all of them when its form is complete.
LEMMA Writes ==
  ASSUME Asked, NEW f \in Forms, f # <<>>
  PROVE  /\ Lines(f) \in Seq(Line) /\ (page # "com" => Complete(f))
         /\ Complete(f) =>
              /\ Len(Lines(f)) = NLines(page)
              /\ page = "com" => \A i \in 1..20 : /\ Lines(f)[i] = f[i]
                                                  /\ f[i] \in ComOptions[ComField(i)]
              /\ page = "func" => Lines(f) = FuncLines(f)
              /\ page = "phone" => \A i \in 1..5 : Lines(f)[i] = f[i]
<1>1. page \in {"com", "func", "phone"}
  BY SettingsAssumption DEF Asked
<1>2. /\ f \in [Fields(page) -> Int]
      /\ \A i \in Fields(page) :
           f[i] \in Values(page, i) \/ (page = "com" /\ readOpen /\ f[i] = Absent)
  BY DEF Forms
<1>3. CASE page = "com"
  <2>1. Fields(page) = 1..20 /\ NLines(page) = 20 /\ Lines(f) = ComLines(f)
    BY <1>3 DEF Fields, NLines, Lines
  <2>2. ASSUME NEW i \in 1..20
        PROVE  /\ f[i] \in Line \cup {Absent}
               /\ f[i] # Absent => f[i] \in ComOptions[ComField(i)]
    <3>1. f[i] \in ComOptions[ComField(i)] \/ f[i] = Absent
      BY <1>2, <1>3, <2>1 DEF Values
    <3> QED BY <3>1, Options
  <2>3. Complete(f) => \A i \in 1..20 : f[i] # Absent
    BY <1>2, <2>1 DEF Complete
  <2>4. /\ ComLines(f) \in Seq(Line)
        /\ (\A i \in 1..20 : f[i] # Absent) =>
             Len(ComLines(f)) = 20 /\ \A i \in 1..20 : ComLines(f)[i] = f[i]
    BY <2>2, ComWrites
  <2> QED BY <1>3, <2>1, <2>2, <2>3, <2>4
<1>4. CASE page = "func"
  <2>1. Fields(page) = 1..21 /\ NLines(page) = 8 /\ Lines(f) = FuncLines(f)
    BY <1>4 DEF Fields, NLines, Lines
  <2>2. f \in [1..21 -> Int] /\ \A i \in 1..21 : f[i] \in Values("func", i)
    BY <1>2, <1>4, <2>1
  <2>3. Complete(f)
    <3>1. \A i \in 1..21 : Absent \notin Values("func", i)
      BY DEF Values, Switches, Line, Absent
    <3> QED BY <2>2, <3>1 DEF Complete
  <2> QED BY <1>4, <2>1, <2>2, <2>3, FuncWrites
<1>5. CASE page = "phone"
  <2>1. Fields(page) = 1..5 /\ NLines(page) = 5 /\ Lines(f) = f
    BY <1>5 DEF Fields, NLines, Lines
  <2>2. f \in [1..5 -> Line]
    <3>1. \A i \in 1..5 : f[i] \in Line
      BY <1>2, <1>5, <2>1 DEF Values
    <3>2. f \in [1..5 -> Int]
      BY <1>2, <2>1
    <3> QED BY <3>1, <3>2
  <2>3. f \in Seq(Line) /\ Len(f) = 5
    <3>1. \A n \in Nat : \A s \in [1..n -> Line] : s \in Seq(Line) /\ Len(s) = n
      OBVIOUS
    <3> QED BY <2>2, <3>1
  <2>4. Complete(f)
    BY <2>2 DEF Complete, Line
  <2> QED BY <1>5, <2>1, <2>3, <2>4
<1> QED BY <1>1, <1>3, <1>4, <1>5

\* A process writes its lines at the beginning of the file.
LEMMA Overlaid ==
  ASSUME NEW new \in Seq(Line), NEW old \in Seq(Line), NEW ls \in Overlay(new, old)
  PROVE  /\ ls \in Seq(Line) /\ Len(ls) >= Len(new)
         /\ \A i \in 1..Len(new) : ls[i] = new[i]
<1> DEFINE rest == {i \in 1..Len(old) : Bytes(SubSeq(old, 1, i - 1)) >= Bytes(new)}
           first == Len(old) - Cardinality(rest) + 1
           tail == SubSeq(old, first, Len(old))
<1>1. ls = new \o tail \/ \E c \in {0, Junk} : ls = new \o <<c>> \o tail
  BY DEF Overlay
<1>2. Cardinality(rest) \in Nat /\ Cardinality(rest) <= Len(old)
  <2>1. rest \subseteq 1..Len(old)
    OBVIOUS
  <2> HIDE DEF rest
  <2>2. IsFiniteSet(1..Len(old)) /\ Cardinality(1..Len(old)) = Len(old)
    <3>1. Len(old) \in Nat /\ Len(old) \in Int /\ 1 \in Int
      BY LenProperties
    <3>2. /\ IsFiniteSet(1..Len(old))
          /\ Cardinality(1..Len(old)) = IF 1 > Len(old) THEN 0 ELSE Len(old) - 1 + 1
      BY <3>1, FS_Interval
    <3> QED BY <3>1, <3>2
  <2>3. IsFiniteSet(rest) /\ Cardinality(rest) <= Len(old)
    BY <2>1, <2>2, FS_Subset
  <2> QED BY <2>3, FS_CardinalityType
<1> HIDE DEF rest
<1>3. first \in Int /\ 1 <= first
  BY <1>2, LenProperties
<1> HIDE DEF first
<1>4. tail \in Seq(Line)
  <2>1. \A i \in first..Len(old) : old[i] \in Line
    BY <1>3
  <2> QED BY <1>3, <2>1, SubSeqProperties, LenProperties
<1> HIDE DEF tail
<1>5. ASSUME NEW t \in Seq(Line), ls = new \o t
      PROVE  /\ ls \in Seq(Line) /\ Len(ls) >= Len(new)
             /\ \A i \in 1..Len(new) : ls[i] = new[i]
  <2>1. /\ ls \in Seq(Line) /\ Len(ls) = Len(new) + Len(t)
        /\ \A i \in 1..(Len(new) + Len(t)) :
             ls[i] = IF i <= Len(new) THEN new[i] ELSE t[i - Len(new)]
    BY <1>5, ConcatProperties
  <2>2. Len(new) \in Nat /\ Len(t) \in Nat
    BY LenProperties
  <2> QED BY <2>1, <2>2
<1>6. ASSUME NEW c \in {0, Junk}, ls = new \o <<c>> \o tail
      PROVE  /\ ls \in Seq(Line) /\ Len(ls) >= Len(new)
             /\ \A i \in 1..Len(new) : ls[i] = new[i]
  <2>1. c \in Line
    BY DEF Line, Absent, Junk
  <2>2. <<c>> \in Seq(Line)
    BY <2>1
  <2>3. <<c>> \o tail \in Seq(Line)
    BY <1>4, <2>2, ConcatProperties
  <2>4. ls = new \o (<<c>> \o tail)
    BY <1>4, <1>6, <2>2, ConcatAssociative
  <2> QED BY <1>5, <2>3, <2>4
<1> QED BY <1>1, <1>4, <1>5, <1>6

LEMMA Got ==
  ASSUME page \in {"com", "func", "phone"}, lines \in Seq(Line), NEW g \in Line
  PROVE  /\ Gets(g) \in [1..NLines(page) -> Line]
         /\ \A i \in 1..NLines(page) : i <= Len(lines) => Gets(g)[i] = lines[i]
<1>1. NLines(page) \in Nat
  BY DEF NLines
<1>2. lines # <<>> => Last(lines) \in Line
  BY DEF Last
<1>3. ASSUME NEW i \in 1..NLines(page)
      PROVE  /\ i <= Len(lines) => lines[i] \in Line
  BY <1>1
<1> QED BY <1>2, <1>3 DEF Gets

LEMMA OneBit == ASSUME NEW b \in 0..7, NEW n \in Int PROVE Bit(b, n) \in {0, 1}
<1> DEFINE m == Mask[b + 1]
<1>1. m \in Nat /\ m # 0
  BY DEF Mask
<1> HIDE DEF m
<1>2. n \div m \in Int
  BY <1>1
<1> DEFINE q == n \div m
<1> HIDE DEF q
<1>3. q % 2 \in {0, 1}
  BY <1>2 DEF q
<1> QED BY <1>3 DEF Bit, m, q

\* What a page shows of a file is in full, except for a com_show of a
\* truncated file, or after one.
LEMMA Shown ==
  ASSUME Asked, OnFile, NEW g \in Leftovers
  PROVE  /\ Show(g) \in [Fields(page) -> Int]
         /\ \A i \in Fields(page) :
              \/ Show(g)[i] \in Values(page, i)
              \/ /\ page = "com" /\ Show(g)[i] = Absent
                 /\ readOpen \/ lines = <<>>
<1> DEFINE ls == Gets(g)
<1>1. page \in {"com", "func", "phone"}
  BY SettingsAssumption DEF Asked
<1>2. g \in Line
  BY SettingsAssumption
<1>3. /\ ls \in [1..NLines(page) -> Line]
      /\ \A i \in 1..NLines(page) : i <= Len(lines) => ls[i] = lines[i]
  BY <1>1, <1>2, Got DEF OnFile
<1>4. CASE page = "com"
  <2>1. Fields(page) = 1..20 /\ NLines(page) = 20
    BY <1>4 DEF Fields, NLines
  <2>2. Show(g) = [i \in 1..20 |-> ComInput(i, ls[i])]
    BY <1>4, <2>1 DEF Show
  <2> HIDE DEF ls
  <2>3. ASSUME NEW i \in 1..20
        PROVE  /\ Show(g)[i] \in Int
               /\ \/ Show(g)[i] \in Values(page, i)
                  \/ Show(g)[i] = Absent /\ (readOpen \/ lines = <<>>)
    <3>1. Values(page, i) = ComOptions[ComField(i)]
      BY <1>4 DEF Values
    <3>2. Show(g)[i] = ComInput(i, ls[i])
      BY <2>2
    <3>3. ComInput(i, ls[i]) \in ComOptions[ComField(i)] \/ ComInput(i, ls[i]) = Absent
      BY DEF ComInput
    <3>4. ComOptions[ComField(i)] \subseteq Int /\ Absent \in Int
      BY Options DEF Absent
    <3>5. CASE readOpen \/ lines = <<>>
      BY <3>1, <3>2, <3>3, <3>4, <3>5
    <3>6. CASE ~readOpen /\ lines # <<>>
      <4>1. Len(lines) >= 20 /\ lines[i] \in ComOptions[ComField(i)]
        BY <1>4, <3>6 DEF OnFile
      <4>2. ls[i] = lines[i]
        <5>1. Len(lines) \in Nat
          BY DEF OnFile
        <5>2. i <= Len(lines) /\ i \in 1..NLines(page)
          BY <2>1, <4>1, <5>1
        <5> QED BY <1>3, <5>2
      <4>3. ComInput(i, ls[i]) = ls[i]
        BY <4>1, <4>2, Options
      <4> QED BY <3>1, <3>2, <3>4, <4>1, <4>2, <4>3
    <3> QED BY <3>5, <3>6
  <2> QED BY <1>4, <2>1, <2>2, <2>3
<1>5. CASE page = "func"
  <2>1. Fields(page) = 1..21 /\ NLines(page) = 8
    BY <1>5 DEF Fields, NLines
  <2>2. Show(g) = [i \in 1..21 |-> FuncInput(i, ls)]
    BY <1>5, <2>1 DEF Show
  <2> HIDE DEF ls
  <2>4. ASSUME NEW i \in 1..21
        PROVE  FuncInput(i, ls) \in Int /\ FuncInput(i, ls) \in Values(page, i)
    <3>1. \A k \in 1..8 : ls[k] \in Int /\ ls[k] \in Line
      BY <1>3, <2>1 DEF Line
    <3>2. CASE i \in 1..8
      <4>1. ls[1] % 256 \in 0..255 /\ ShownBit[i] \in 0..7
        BY <3>1, <3>2 DEF ShownBit, Switches
      <4>2. FuncInput(i, ls) = Bit(ShownBit[i], ls[1] % 256) /\ Values(page, i) = {0, 1}
        BY <1>5, <3>2 DEF FuncInput, Values, Switches
      <4>3. Bit(ShownBit[i], ls[1] % 256) \in {0, 1}
        BY <4>1, OneBit
      <4> QED BY <4>2, <4>3
    <3>3. CASE i \in 9..15
      <4>1. ls[2] % 256 \in 0..255 /\ ShownBit[i] - 8 \in 0..7
        BY <3>1, <3>3 DEF ShownBit, Switches
      <4>2. FuncInput(i, ls) = Bit(ShownBit[i] - 8, ls[2] % 256) /\ Values(page, i) = {0, 1}
        BY <1>5, <3>3 DEF FuncInput, Values, Switches
      <4>3. Bit(ShownBit[i] - 8, ls[2] % 256) \in {0, 1}
        BY <4>1, OneBit
      <4> QED BY <4>2, <4>3
    <3>4. CASE i \in 16..17
      <4>1. FuncInput(i, ls) = ls[i - 13] /\ Values(page, i) = Line /\ i - 13 \in 1..8
        BY <1>5, <3>4 DEF FuncInput, Values, Switches
      <4> QED BY <3>1, <4>1
    <3>5. CASE i \in 18..21
      <4>1. /\ FuncInput(i, ls) = IF ls[i - 13] \in 0..4 THEN ls[i - 13] ELSE 1
            /\ Values(page, i) = 0..4
        BY <1>5, <3>5 DEF FuncInput, Values, Switches
      <4> QED BY <4>1
    <3> QED BY <3>2, <3>3, <3>4, <3>5
  <2> QED BY <1>5, <2>1, <2>2, <2>4
<1>6. CASE page = "phone"
  <2>1. Fields(page) = 1..5 /\ NLines(page) = 5
    BY <1>6 DEF Fields, NLines
  <2>2. Show(g) = [i \in 1..5 |-> PhoneInput(i, ls)]
    BY <1>6, <2>1 DEF Show
  <2>3. ASSUME NEW i \in 1..5
        PROVE  PhoneInput(i, ls) \in Int /\ PhoneInput(i, ls) \in Values(page, i)
    <3>1. ls[i] \in Line /\ 0 \in Line /\ Line \subseteq Int
      BY <1>3, <2>1 DEF Line, Absent
    <3>2. Values(page, i) = Line
      BY <1>6 DEF Values
    <3> QED BY <3>1, <3>2 DEF PhoneInput
  <2> QED BY <1>6, <2>1, <2>2, <2>3
<1> QED BY <1>1, <1>4, <1>5, <1>6

\* More fields may be absent once a truncated file has been read.
LEMMA MoreForms ==
  ASSUME page' = page, readOpen \in BOOLEAN, readOpen => readOpen'
  PROVE  Forms \subseteq Forms'
  BY DEF Forms

LEMMA InitPages == SettingsInit => PagesInv
<1> SUFFICES ASSUME SettingsInit PROVE PagesInv
  OBVIOUS
<1>1. /\ page \in Page /\ lines = Stored[page] /\ kept = <<>> /\ readOpen = FALSE
      /\ form = [u \in User |-> <<>>] /\ writing = [u \in User |-> <<>>]
      /\ saves = 0 /\ kills = 0 /\ overruns \in BOOLEAN
  BY DEF SettingsInit
<1>2. <<>> \in Forms
  BY DEF Forms
<1>3. Asked
  <2>1. form \in [User -> Forms] /\ writing \in [User -> Forms] /\ kept \in Forms
    BY <1>1, <1>2
  <2>2. saves \in 0..MaxSaves /\ kills \in 0..MaxKills
    BY <1>1, SettingsAssumption
  <2> QED BY <1>1, <2>1, <2>2 DEF Asked
<1>4. lines \in Seq(Line) /\ Len(lines) = NLines(page)
  BY <1>1, SettingsAssumption
<1>5. page = "com" =>
        Len(lines) >= 20 /\ \A i \in 1..20 : lines[i] \in ComOptions[ComField(i)]
  BY <1>1, <1>4, SettingsAssumption DEF NLines
<1>6. OnFile
  BY <1>1, <1>4, <1>5 DEF OnFile
<1> QED BY <1>3, <1>6 DEF PagesInv

LEMMA NextPages == PagesInv /\ [SettingsNext]_settingsVars => PagesInv'
<1> SUFFICES ASSUME PagesInv, [SettingsNext]_settingsVars PROVE PagesInv'
  OBVIOUS
<1>1. Asked /\ OnFile /\ page \in {"com", "func", "phone"}
  BY SettingsAssumption DEF PagesInv, Asked
<1>2. /\ form \in [User -> Forms] /\ writing \in [User -> Forms] /\ kept \in Forms
      /\ <<>> \in Forms /\ readOpen \in BOOLEAN /\ lines \in Seq(Line)
      /\ page \in Page /\ overruns \in BOOLEAN
      /\ saves \in 0..MaxSaves /\ kills \in 0..MaxKills
      /\ MaxSaves \in Nat /\ MaxKills \in Nat
  BY <1>1, SettingsAssumption DEF Asked, OnFile, Forms
<1>3. ASSUME NEW u \in User, OpenPage(u) PROVE PagesInv'
  <2>1. PICK g \in Leftovers : form' = [form EXCEPT ![u] = Show(g)]
    BY <1>3 DEF OpenPage
  <2>2. /\ readOpen' = (readOpen \/ lines = <<>>)
        /\ UNCHANGED <<page, overruns, lines, writing, kept, saves, kills>>
    BY <1>3 DEF OpenPage
  <2>3. readOpen' \in BOOLEAN /\ (readOpen => readOpen') /\ Forms \subseteq Forms'
    BY <1>2, <2>2, MoreForms
  <2>4. Show(g) \in Forms'
    <3>1. /\ Show(g) \in [Fields(page) -> Int]
          /\ \A i \in Fields(page) :
               \/ Show(g)[i] \in Values(page, i)
               \/ page = "com" /\ Show(g)[i] = Absent /\ readOpen'
      BY <1>1, <2>2, Shown
    <3>2. Forms' = {<<>>} \cup
                   {s \in [Fields(page) -> Int] : \A i \in Fields(page) :
                      s[i] \in Values(page, i) \/ (page = "com" /\ readOpen' /\ s[i] = Absent)}
      BY <2>2 DEF Forms
    <3> DEFINE s == Show(g)
    <3> HIDE DEF s
    <3>3. /\ s \in [Fields(page) -> Int]
          /\ \A i \in Fields(page) :
               s[i] \in Values(page, i) \/ (page = "com" /\ readOpen' /\ s[i] = Absent)
      BY <3>1 DEF s
    <3>4. s \in Forms'
      BY <3>2, <3>3
    <3> QED BY <3>4 DEF s
  <2>5. form' \in [User -> Forms'] /\ writing' \in [User -> Forms'] /\ kept' \in Forms'
    BY <1>2, <2>1, <2>2, <2>3, <2>4
  <2>6. Asked'
    BY <1>2, <2>2, <2>3, <2>5 DEF Asked
  <2>7. OnFile'
    BY <1>1, <2>2, <2>3 DEF OnFile, Lines
  <2> QED BY <2>6, <2>7 DEF PagesInv
<1>4. ASSUME NEW u \in User, Submit(u) PROVE PagesInv'
  <2>1. /\ form[u] # <<>> /\ form[u] \in Forms
        /\ saves < MaxSaves /\ saves' = saves + 1
        /\ lines' = <<>> /\ kept' = <<>> /\ form' = [form EXCEPT ![u] = <<>>]
        /\ UNCHANGED <<page, overruns, readOpen, kills>>
    BY <1>2, <1>4 DEF Submit
  <2>2. PICK f \in {form[u]} \cup
                   {[form[u] EXCEPT ![e[1]] = e[2]] :
                      e \in {e \in Edits[page] : form[u][e[1]] # Absent}} :
          writing' = [writing EXCEPT ![u] = f]
    BY <1>4 DEF Submit
  <2>3. Forms' = Forms
    BY <2>1 DEF Forms
  <2>4. f \in Forms
    <3>1. CASE f = form[u]
      BY <2>1, <3>1
    <3>2. ASSUME NEW e \in Edits[page], f = [form[u] EXCEPT ![e[1]] = e[2]]
          PROVE  f \in Forms
      <4>1. e[1] \in Fields(page) /\ e[2] \in Values(page, e[1])
        BY <1>2, SettingsAssumption
      <4>2. \A i \in Fields(page) : Values(page, i) \subseteq Int
        <5>1. CASE page = "com"
          BY <5>1, Options DEF Values, Fields
        <5>2. CASE page # "com"
          BY <5>2 DEF Values, Line
        <5> QED BY <5>1, <5>2
      <4>3. /\ form[u] \in [Fields(page) -> Int]
            /\ \A i \in Fields(page) :
                 \/ form[u][i] \in Values(page, i)
                 \/ page = "com" /\ readOpen /\ form[u][i] = Absent
        BY <2>1 DEF Forms
      <4>4. /\ f \in [Fields(page) -> Int]
            /\ \A i \in Fields(page) : f[i] = IF i = e[1] THEN e[2] ELSE form[u][i]
        BY <3>2, <4>1, <4>2, <4>3
      <4>5. \A i \in Fields(page) :
              \/ f[i] \in Values(page, i)
              \/ page = "com" /\ readOpen /\ f[i] = Absent
        <5>1. f[e[1]] \in Values(page, e[1])
          BY <4>1, <4>4
        <5>2. \A i \in Fields(page) : i = e[1] \/ f[i] = form[u][i]
          BY <4>4
        <5> QED BY <4>3, <5>1, <5>2
      <4> QED BY <4>4, <4>5 DEF Forms
    <3> QED BY <3>1, <3>2
  <2>5. Asked'
    BY <1>2, <2>1, <2>2, <2>3, <2>4 DEF Asked
  <2>6. OnFile'
    BY <2>1 DEF OnFile
  <2> QED BY <2>5, <2>6 DEF PagesInv
<1>5. ASSUME NEW u \in User, Finish(u) PROVE PagesInv'
  <2> DEFINE f == writing[u]
             new == Lines(f)
  <2>1. /\ f # <<>> /\ f \in Forms /\ lines' \in Overlay(new, lines) /\ kept' = f
        /\ writing' = [writing EXCEPT ![u] = <<>>]
        /\ UNCHANGED <<page, overruns, form, readOpen, saves, kills>>
    BY <1>2, <1>5 DEF Finish, Idle
  <2>2. Forms' = Forms
    BY <2>1 DEF Forms
  <2>3. Asked'
    BY <1>2, <2>1, <2>2 DEF Asked
  <2>4. /\ new \in Seq(Line)
        /\ Complete(f) => /\ Len(new) = NLines(page)
                          /\ page = "com" => \A i \in 1..20 :
                               new[i] = f[i] /\ f[i] \in ComOptions[ComField(i)]
    BY <1>1, <2>1, Writes
  <2>5. /\ lines' \in Seq(Line) /\ Len(lines') >= Len(new)
        /\ \A i \in 1..Len(new) : lines'[i] = new[i]
    BY <1>2, <2>1, <2>4, Overlaid
  <2>6. Lines(kept)' = new
    BY <2>1 DEF Lines
  <2>7. ASSUME page = "com", ~readOpen
        PROVE  /\ Len(lines') >= 20
               /\ \A i \in 1..20 : lines'[i] \in ComOptions[ComField(i)]
    <3>1. Fields(page) = 1..20 /\ NLines(page) = 20
      BY <2>7 DEF Fields, NLines
    <3>2. \A i \in 1..20 : f[i] \in ComOptions[ComField(i)]
      BY <2>1, <2>7, <3>1 DEF Forms, Values
    <3>3. Complete(f)
      <4>1. f \in [1..20 -> Int]
        BY <2>1, <3>1 DEF Forms
      <4>2. \A i \in 1..20 : f[i] \in Nat
        BY <3>2, Options
      <4> QED BY <4>1, <4>2 DEF Complete, Absent
    <3> HIDE DEF new, f
    <3>4. Len(new) = 20 /\ \A i \in 1..20 : new[i] \in ComOptions[ComField(i)]
      BY <2>4, <2>7, <3>1, <3>3
    <3> QED BY <2>5, <3>4
  <2> HIDE DEF new
  <2>8. OnFile'
    BY <2>1, <2>5, <2>6, <2>7 DEF OnFile
  <2> QED BY <2>3, <2>8 DEF PagesInv
<1>6. ASSUME NEW u \in User, Kill(u) PROVE PagesInv'
  <2>1. /\ kills < MaxKills /\ kills' = kills + 1
        /\ writing' = [writing EXCEPT ![u] = <<>>]
        /\ UNCHANGED <<page, overruns, lines, form, kept, readOpen, saves>>
    BY <1>6 DEF Kill
  <2>2. Forms' = Forms
    BY <2>1 DEF Forms
  <2>3. Asked'
    BY <1>2, <2>1, <2>2 DEF Asked
  <2>4. OnFile'
    BY <1>1, <2>1 DEF OnFile, Lines
  <2> QED BY <2>3, <2>4 DEF PagesInv
<1>7. CASE UNCHANGED settingsVars
  <2>1. UNCHANGED <<page, overruns, lines, form, writing, kept, readOpen, saves, kills>>
    BY <1>7 DEF settingsVars
  <2>2. Forms' = Forms
    BY <2>1 DEF Forms
  <2> QED BY <1>1, <2>1, <2>2 DEF PagesInv, Asked, OnFile, Lines
<1> QED BY <1>3, <1>4, <1>5, <1>6, <1>7 DEF SettingsNext

(***************************************************************************)
(* Every form of a page, and what every process will write, has a value    *)
(* for each of its fields, and the file is a sequence of lines.            *)
(***************************************************************************)
THEOREM SettingsTypeCorrect == SettingsSpec => []SettingsTypeOK
<1>1. PagesInv => SettingsTypeOK
  <2> SUFFICES ASSUME PagesInv PROVE SettingsTypeOK
    OBVIOUS
  <2>1. Asked /\ lines \in Seq(Line)
    BY DEF PagesInv, OnFile
  <2>2. Line \subseteq Int
    BY DEF Line
  <2>3. lines \in Seq(Int)
    BY <2>1, <2>2, SeqMonotonic
  <2>4. ASSUME NEW f \in Forms, f # <<>> PROVE f \in [Fields(page) -> Int]
    BY <2>4 DEF Forms
  <2>5. {form[u] : u \in User} \cup {writing[u] : u \in User} \cup {kept} \subseteq Forms
    BY <2>1 DEF Asked
  <2> QED BY <2>1, <2>3, <2>4, <2>5 DEF SettingsTypeOK, Asked
<1> QED BY <1>1, InitPages, NextPages, PTL DEF SettingsSpec

(***************************************************************************)
(* com_show and com_set lose fields only when com_show has read the file   *)
(* between the truncation and the write of a com_set; the other two pages  *)
(* lose none, whoever saves at the same time, is killed, or leaves a file  *)
(* that is too short.                                                      *)
(***************************************************************************)
THEOREM LostOnlyByOpenReadCorrect == SettingsSpec => []LostOnlyByOpenRead
<1>1. PagesInv => LostOnlyByOpenRead
  <2> SUFFICES ASSUME PagesInv, kept # <<>>, ~Complete(kept) PROVE page = "com" /\ readOpen
    BY DEF LostOnlyByOpenRead
  <2>1. Asked /\ kept \in Forms
    BY DEF PagesInv, Asked
  <2>2. page = "com"
    BY <2>1, Writes
  <2>3. PICK i \in Fields(page) : kept[i] = Absent
    BY <2>1 DEF Forms, Complete
  <2>4. Absent \notin Values(page, i)
    <3>1. i \in 1..20 /\ Values(page, i) = ComOptions[ComField(i)]
      BY <2>2 DEF Fields, Values
    <3>2. Absent \notin Nat
      BY DEF Absent
    <3> QED BY <3>1, <3>2, Options
  <2> QED BY <2>1, <2>2, <2>3, <2>4 DEF Forms
<1> QED BY <1>1, InitPages, NextPages, PTL DEF SettingsSpec

(***************************************************************************)
(* Whatever com_set, dev_func or phonenum_set write last is what the page  *)
(* shows, for any number of users and of saves that overlap, whatever a    *)
(* longer file leaves behind the new lines and whatever memory holds.      *)
(***************************************************************************)
THEOREM LastSaveWinsCorrect == SettingsSpec => []LastSaveWins
<1>1. PagesInv => LastSaveWins
  <2> SUFFICES ASSUME PagesInv, kept # <<>>, Complete(kept),
                      NEW g \in Leftovers, NEW i \in Fields(page)
               PROVE  \/ Show(g)[i] = kept[i]
                      \/ page = "func" /\ i \in 5..7
                      \/ page = "phone" /\ overruns /\ Show(g)[i] = 0 /\ kept[i + 1] \in Mobile
    BY DEF LastSaveWins
  <2> DEFINE ls == Gets(g)
  <2>1. Asked /\ OnFile /\ kept \in Forms /\ page \in {"com", "func", "phone"}
    BY SettingsAssumption DEF PagesInv, Asked
  <2>2. g \in Line /\ lines \in Seq(Line)
    BY <2>1, SettingsAssumption DEF OnFile
  <2>3. /\ Lines(kept) \in Seq(Line) /\ Len(Lines(kept)) = NLines(page)
        /\ page = "com" => \A j \in 1..20 : /\ Lines(kept)[j] = kept[j]
                                            /\ kept[j] \in ComOptions[ComField(j)]
        /\ page = "func" => Lines(kept) = FuncLines(kept)
        /\ page = "phone" => \A j \in 1..5 : Lines(kept)[j] = kept[j]
    BY <2>1, Writes
  \* What is read is what was written.
  <2>4. /\ ls \in [1..NLines(page) -> Line]
        /\ \A j \in 1..NLines(page) : ls[j] = Lines(kept)[j]
    <3>1. /\ ls \in [1..NLines(page) -> Line]
          /\ \A j \in 1..NLines(page) : j <= Len(lines) => ls[j] = lines[j]
      BY <2>1, <2>2, Got
    <3>2. Len(lines) >= NLines(page) /\ \A j \in 1..NLines(page) : lines[j] = Lines(kept)[j]
      BY <2>1, <2>3 DEF OnFile
    <3>3. Len(lines) \in Nat /\ NLines(page) \in Nat
      BY <2>2 DEF NLines
    <3> HIDE DEF ls
    <3> QED BY <3>1, <3>2, <3>3
  <2>5. CASE page = "com"
    <3>1. i \in 1..20 /\ NLines(page) = 20
      BY <2>5 DEF Fields, NLines
    <3>2. Show(g)[i] = ComInput(i, ls[i])
      BY <2>5 DEF Show
    <3> HIDE DEF ls
    <3>3. ls[i] = kept[i] /\ kept[i] \in ComOptions[ComField(i)]
      BY <2>3, <2>4, <2>5, <3>1
    <3> QED BY <3>1, <3>2, <3>3, Options
  <2>6. CASE page = "func"
    <3>1. Fields(page) = 1..21 /\ NLines(page) = 8
      BY <2>6 DEF Fields, NLines
    <3>2. Show(g)[i] = FuncInput(i, ls)
      BY <2>6 DEF Show
    <3> HIDE DEF ls
    <3>3. kept \in [1..21 -> Int] /\ \A j \in 1..21 : kept[j] \in Values("func", j)
      BY <2>1, <2>6, <3>1 DEF Forms
    <3>4. /\ \A j \in 16..21 : FuncLines(kept)[j - 13] = kept[j]
          /\ \A j \in 1..15 : j \notin 5..7 =>
               IF j <= 8 THEN Bit(ShownBit[j], FuncLines(kept)[1] % 256) = kept[j]
               ELSE Bit(ShownBit[j] - 8, FuncLines(kept)[2] % 256) = kept[j]
      BY <3>3, FuncWrites
    <3>5. \A j \in 1..8 : ls[j] = FuncLines(kept)[j]
      BY <2>3, <2>4, <2>6, <3>1
    <3>6. CASE i \in 1..8 /\ i \notin 5..7
      <4>1. FuncInput(i, ls) = Bit(ShownBit[i], ls[1] % 256)
        BY <3>6 DEF FuncInput
      <4>2. Bit(ShownBit[i], FuncLines(kept)[1] % 256) = kept[i]
        BY <3>4, <3>6
      <4> QED BY <3>2, <3>5, <4>1, <4>2
    <3>7. CASE i \in 9..15
      <4>1. FuncInput(i, ls) = Bit(ShownBit[i] - 8, ls[2] % 256)
        BY <3>7 DEF FuncInput
      <4>2. Bit(ShownBit[i] - 8, FuncLines(kept)[2] % 256) = kept[i]
        <5>1. i \in 1..15 /\ i \notin 5..7 /\ ~(i <= 8)
          BY <3>7
        <5> QED BY <3>4, <5>1, Zenon
      <4> QED BY <3>2, <3>5, <4>1, <4>2
    <3>8. CASE i \in 16..21
      <4>1. ls[i - 13] = kept[i]
        <5>1. i - 13 \in 1..8
          BY <3>8
        <5> QED BY <3>4, <3>5, <3>8, <5>1
      <4>2. FuncInput(i, ls) = kept[i]
        <5>1. CASE i \in 16..17
          <6>1. i \notin 1..8 /\ i \notin 9..15
            BY <5>1
          <6> QED BY <4>1, <5>1, <6>1 DEF FuncInput
        <5>2. CASE i \in 18..21
          <6>1. kept[i] \in 0..4
            <7>1. i \in 1..21 /\ i \notin Switches
              BY <5>2 DEF Switches
            <7>2. Values("func", i) = 0..4
              BY <5>2, <7>1 DEF Values
            <7> QED BY <3>3, <7>1, <7>2
          <6>2. i \notin 1..8 /\ i \notin 9..15 /\ i \notin 16..17
            BY <5>2
          <6>3. FuncInput(i, ls) = IF ls[i - 13] \in 0..4 THEN ls[i - 13] ELSE 1
            BY <6>2, Zenon DEF FuncInput
          <6> QED BY <4>1, <6>1, <6>3
        <5> QED BY <3>8, <5>1, <5>2
      <4> QED BY <3>2, <4>2
    <3>9. i \in 1..21
      BY <3>1
    <3> QED BY <2>6, <3>6, <3>7, <3>8, <3>9
  <2>7. CASE page = "phone"
    <3>1. i \in 1..5 /\ NLines(page) = 5
      BY <2>7 DEF Fields, NLines
    <3>2. Show(g)[i] = PhoneInput(i, ls)
      BY <2>7 DEF Show
    <3> HIDE DEF ls
    <3>3. \A j \in 1..5 : ls[j] = kept[j]
      BY <2>3, <2>4, <2>7, <3>1
    <3>4. CASE overruns /\ i < 5 /\ ls[i + 1] \in Mobile
      <4>1. i + 1 \in 1..5
        BY <3>1, <3>4
      <4> QED BY <2>7, <3>2, <3>3, <3>4, <4>1 DEF PhoneInput
    <3>5. CASE ~(overruns /\ i < 5 /\ ls[i + 1] \in Mobile)
      BY <3>1, <3>2, <3>3, <3>5 DEF PhoneInput
    <3> QED BY <3>4, <3>5
  <2> QED BY <2>1, <2>5, <2>6, <2>7
<1> QED BY <1>1, InitPages, NextPages, PTL DEF SettingsSpec
===============================================================================
