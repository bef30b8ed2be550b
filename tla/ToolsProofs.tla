----------------------------- MODULE ToolsProofs -----------------------------
(***************************************************************************)
(* Proofs about Tools.  Every run is followed through libfs: what each     *)
(* operation leaves on the device at each of its writes and in memory at   *)
(* its end.  The invariant IInv is about the volume and about all that the *)
(* run in progress will still write, so that a kill between two writes     *)
(* needs no argument of its own.                                           *)
(***************************************************************************)
EXTENDS Tools, FiniteSetTheorems, SequenceTheorems, TLAPS

-----------------------------------------------------------------------------
(* Induction over data, without an induction theorem: a recursive function *)
(* on the subsets of 1 .. n exists, so that the folds of the model, which  *)
(* are chosen, have the values that their recursion says.                  *)

(* A set of natural numbers that is not empty has a least element.         *)
LEMMA Least == ASSUME NEW T \in SUBSET Nat, T # {} PROVE \E x \in T : \A y \in T : x <= y
<1> DEFINE Up == {1 .. x : x \in T}
           R == StrictSubsetOrdering(Nat)
           F == FiniteSubsetsOf(Nat)
<1>1. IsWellFoundedOn(R, F)
  BY FS_StrictSubsetOrderingWellFounded
<1>2. Up \subseteq F /\ Up # {}
  <2>1. \A x \in T : IsFiniteSet(1 .. x)
    BY FS_Interval
  <2>2. \A x \in T : 1 .. x \in SUBSET Nat
    OBVIOUS
  <2>3. \A u \in Up : u \in F
    <3> SUFFICES ASSUME NEW x \in T PROVE 1 .. x \in F
      OBVIOUS
    <3> QED BY <2>1, <2>2 DEF FiniteSubsetsOf
  <2>4. Up # {}
    OBVIOUS
  <2> QED BY <2>3, <2>4
<1>3. \E u \in Up : \A w \in Up : ~ (<<w, u>> \in R)
  <2> HIDE DEF Up, R, F
  <2> QED BY <1>1, <1>2, WFMin
<1>4. PICK x \in T : \A y \in T : ~ (<<1 .. y, 1 .. x>> \in R)
  BY <1>3
<1>5. \A y \in T : x <= y
  <2> SUFFICES ASSUME NEW y \in T, ~ (x <= y) PROVE FALSE
    OBVIOUS
  <2>1. y \in Nat /\ x \in Nat /\ y < x
    OBVIOUS
  <2>2. 1 .. y \subseteq 1 .. x /\ x \in 1 .. x /\ x \notin 1 .. y
    BY <2>1
  <2>3. <<1 .. y, 1 .. x>> \in R
    BY <2>2 DEF StrictSubsetOrdering
  <2>4. QED BY <2>3, <1>4
<1>6. QED BY <1>5

(* Induction, first-order: a set with 0 and the successor of each of its   *)
(* members has every natural number.                                       *)
LEMMA SetInduction ==
  ASSUME NEW S, 0 \in S, \A n \in Nat : n \in S => n + 1 \in S
  PROVE  Nat \subseteq S
<1>1. SUFFICES ASSUME Nat \ S # {} PROVE FALSE
  OBVIOUS
<1>2. PICK x \in Nat \ S : \A y \in Nat \ S : x <= y
  BY <1>1, Least
<1>3. x # 0 /\ x - 1 \in Nat
  BY <1>2
<1>4. x - 1 \in S
  BY <1>2, <1>3
<1>5. QED BY <1>2, <1>3, <1>4

(* A recursive function on the subsets of 1 .. n exists.                   *)
Steps(n, X, step) == \A x \in X : \A k \in 1 .. n : step[<<x, k>>] \in X
Chooses(n, ch) == \A S \in SUBSET (1 .. n) : S # {} => ch[S] \in S
Folds(n, X, base, step, ch) ==
  \E f \in [SUBSET (1 .. n) -> X] : \A S \in SUBSET (1 .. n) :
    f[S] = IF S = {} THEN base ELSE step[<<f[S \ {ch[S]}], ch[S]>>]

(* The fold exists, whatever the choice: by induction on the size of the   *)
(* subsets.                                                                *)
LEMMA FoldExists ==
  ASSUME NEW n \in Nat, NEW X, NEW base \in X, NEW step, NEW ch,
         Chooses(n, ch), Steps(n, X, step)
  PROVE  Folds(n, X, base, step, ch)
<1>a. /\ \A S \in SUBSET (1 .. n) : S # {} => ch[S] \in S
      /\ \A x \in X : \A k \in 1 .. n : step[<<x, k>>] \in X
  BY DEF Chooses, Steps
<1> USE <1>a
<1> DEFINE Small(k) == {S \in SUBSET (1 .. n) : Cardinality(S) <= k}
           Is(f, k) == /\ f \in [SUBSET (1 .. n) -> X]
                       /\ \A S \in Small(k) :
                            f[S] = IF S = {} THEN base ELSE step[<<f[S \ {ch[S]}], ch[S]>>]
           Good == {k \in Nat : \E f : Is(f, k)}
<1>0. \A S \in SUBSET (1 .. n) : IsFiniteSet(S) /\ Cardinality(S) \in Nat /\ Cardinality(S) <= n
  <2>1. IsFiniteSet(1 .. n) /\ Cardinality(1 .. n) = n
    BY FS_Interval
  <2> SUFFICES ASSUME NEW S \in SUBSET (1 .. n)
               PROVE  IsFiniteSet(S) /\ Cardinality(S) \in Nat /\ Cardinality(S) <= n
    OBVIOUS
  <2>2. IsFiniteSet(S) /\ Cardinality(S) <= Cardinality(1 .. n)
    BY <2>1, FS_Subset
  <2>3. Cardinality(S) \in Nat
    BY <2>2, FS_CardinalityType
  <2>4. QED BY <2>1, <2>2, <2>3
<1>1. 0 \in Good
  <2> DEFINE f == [S \in SUBSET (1 .. n) |-> base]
  <2>1. \A S \in Small(0) : S = {}
    BY <1>0, FS_EmptySet
  <2>2. Is(f, 0)
    BY <2>1
  <2>3. QED BY <2>2
<1>2. ASSUME NEW k \in Nat, k \in Good PROVE k + 1 \in Good
  <2>1. PICK f : Is(f, k)
    BY <1>2
  <2> DEFINE g == [S \in SUBSET (1 .. n) |->
                     IF Cardinality(S) <= k THEN f[S] ELSE step[<<f[S \ {ch[S]}], ch[S]>>]]
  <2>2. \A S \in SUBSET (1 .. n) : S \ {ch[S]} \in SUBSET (1 .. n)
    OBVIOUS
  <2>3. \A S \in SUBSET (1 .. n) : ~ (Cardinality(S) <= k) => S # {} /\ ch[S] \in 1 .. n
    <3> SUFFICES ASSUME NEW S \in SUBSET (1 .. n), ~ (Cardinality(S) <= k)
                 PROVE  S # {} /\ ch[S] \in 1 .. n
      OBVIOUS
    <3>1. Cardinality({}) = 0
      BY FS_EmptySet
    <3>2. S # {}
      <4> SUFFICES ASSUME S = {} PROVE FALSE
        OBVIOUS
      <4>1. Cardinality(S) = 0
        BY <3>1
      <4>2. QED BY <4>1
    <3>3. QED BY <3>2
  <2>4. g \in [SUBSET (1 .. n) -> X]
    <3> SUFFICES ASSUME NEW S \in SUBSET (1 .. n)
                 PROVE  (IF Cardinality(S) <= k THEN f[S]
                         ELSE step[<<f[S \ {ch[S]}], ch[S]>>]) \in X
      OBVIOUS
    <3>1. f[S] \in X /\ f[S \ {ch[S]}] \in X
      BY <2>1, <2>2
    <3>2. QED BY <3>1, <2>3
  <2>5. ASSUME NEW S \in Small(k + 1), S # {}
        PROVE  Cardinality(S \ {ch[S]}) <= k /\ S \ {ch[S]} \in SUBSET (1 .. n)
    <3>1. ch[S] \in S /\ IsFiniteSet(S) /\ Cardinality(S) \in Nat
      BY <2>5, <1>0
    <3>2. Cardinality(S \ {ch[S]}) = Cardinality(S) - 1
      BY <3>1, FS_RemoveElement
    <3>3. Cardinality(S) <= k + 1 /\ S \in SUBSET (1 .. n)
      OBVIOUS
    <3>4. Cardinality(S \ {ch[S]}) <= k
      BY <3>1, <3>2, <3>3
    <3>5. QED BY <3>3, <3>4
  <2>6. ASSUME NEW S \in Small(k + 1)
        PROVE  g[S] = IF S = {} THEN base ELSE step[<<g[S \ {ch[S]}], ch[S]>>]
    <3>1. CASE S = {}
      <4>1. Cardinality(S) = 0
        BY <3>1, FS_EmptySet
      <4>2. g[S] = f[S] /\ S \in Small(k)
        BY <4>1
      <4>3. QED BY <4>2, <3>1, <2>1
    <3>2. CASE S # {}
      <4>1. g[S \ {ch[S]}] = f[S \ {ch[S]}]
        BY <2>5, <3>2
      <4>2. g[S] = step[<<f[S \ {ch[S]}], ch[S]>>]
        <5>1. CASE Cardinality(S) <= k
          <6>1. g[S] = f[S] /\ S \in Small(k)
            BY <5>1
          <6>2. QED BY <6>1, <3>2, <2>1
        <5>2. CASE ~ (Cardinality(S) <= k)
          BY <5>2
        <5>3. QED BY <5>1, <5>2
      <4>3. QED BY <4>1, <4>2, <3>2
    <3>3. QED BY <3>1, <3>2
  <2>7. Is(g, k + 1)
    BY <2>4, <2>6
  <2> HIDE DEF g, Is
  <2>8. \E h : Is(h, k + 1)
    BY <2>7
  <2>9. QED BY <2>8
<1>3. n \in Good
  <2> HIDE DEF Good
  <2>1. Nat \subseteq Good
    BY <1>1, <1>2, SetInduction
  <2>2. QED BY <2>1
<1>4. PICK f : Is(f, n)
  BY <1>3
<1>5. \A S \in SUBSET (1 .. n) : S \in Small(n)
  BY <1>0
<1>6. QED BY <1>4, <1>5 DEF Folds

-----------------------------------------------------------------------------
(* Arithmetic.                                                             *)

(* What the assumptions on the constants say of the volume.                *)
LEMMA Geometry ==
  /\ NDir \in Nat /\ NDir > 0 /\ NInd \in Nat /\ NInd > 0 /\ CPB \in Nat /\ CPB > 0
  /\ ISize \in Nat /\ ISize > 1 /\ NData \in Nat /\ NData > 0
  /\ Root \in Inum /\ SInd = NDir /\ SInd \in 0 .. SInd
  /\ Inum \subseteq Nat /\ Block \subseteq Nat /\ 0 \notin Block /\ 0 \notin Inum
  /\ MaxCells = (NDir + NInd) * CPB /\ MaxCells \in Nat /\ MaxCells > 1
BY GeometryAssumption DEF Root, Inum, SInd, Block, MaxCells

(* The largest and the smallest of a set of numbers.                       *)
LEMMA MinIs ==
  ASSUME NEW T \in SUBSET Nat, T # {}
  PROVE  Min(T) \in T /\ \A y \in T : Min(T) <= y
BY Least DEF Min

LEMMA MaxIs ==
  ASSUME NEW T \in SUBSET Nat, T # {}, NEW n \in Nat, \A y \in T : y <= n
  PROVE  Max(T) \in T /\ \A y \in T : y <= Max(T)
<1> DEFINE Up == {m \in Nat : \A y \in T : y <= m}
<1>1. n \in Up /\ Up \in SUBSET Nat
  OBVIOUS
<1>2. PICK m \in Up : \A k \in Up : m <= k
  BY <1>1, Least
<1>3. m \in T
  <2> SUFFICES ASSUME m \notin T PROVE FALSE
    OBVIOUS
  <2>1. PICK t \in T : TRUE
    OBVIOUS
  <2>2. \A y \in T : y < m
    OBVIOUS
  <2>3. m - 1 \in Nat
    BY <2>1, <2>2
  <2>4. m - 1 \in Up
    BY <2>2, <2>3
  <2>5. QED BY <2>3, <2>4, <1>2
<1>4. QED BY <1>3, <1>2 DEF Max

LEMMA MaxOfTwo ==
  ASSUME NEW a \in Nat, NEW b \in Nat
  PROVE  Max({a, b}) = IF a > b THEN a ELSE b
<1>1. /\ (IF a > b THEN a ELSE b) \in {a, b}
      /\ \A y \in {a, b} : y <= (IF a > b THEN a ELSE b)
  OBVIOUS
<1>2. /\ Max({a, b}) \in {a, b} /\ \A y \in {a, b} : y <= Max({a, b})
  BY <1>1, MaxIs
<1>3. QED BY <1>2

LEMMA MinOfTwo ==
  ASSUME NEW a \in Nat, NEW b \in Nat
  PROVE  Min({a, b}) = IF a < b THEN a ELSE b
<1>1. /\ Min({a, b}) \in {a, b} /\ \A y \in {a, b} : Min({a, b}) <= y
  BY MinIs
<1>2. QED BY <1>1

(* Arithmetic of positions in a file.                                      *)
LEMMA Division ==
  ASSUME NEW a \in Nat, NEW b \in Nat \ {0}
  PROVE  \E q \in Nat : \E r \in 0 .. b - 1 :
           q = a \div b /\ r = a % b /\ a = b * q + r
<1>. DEFINE q == a \div b
            r == a % b
<1>1. a \in Int /\ b \in Int /\ b > 0
  OBVIOUS
<1>2. a - r = b * q
  BY ONLY <1>1, SMTT(30)
<1>3. q \in Nat /\ r \in 0 .. b - 1
  OBVIOUS
<1>4. q = a \div b /\ r = a % b
  OBVIOUS
<1>. HIDE DEF q, r
<1>5. b * q \in Int /\ r \in Int
  BY <1>3
<1>6. a = b * q + r
  BY <1>1, <1>2, <1>5
<1>. QED  BY <1>3, <1>4, <1>6

(* A larger quotient leaves room for the divisor.                          *)
LEMMA Monotone ==
  ASSUME NEW b \in Nat \ {0}, NEW p \in Nat, NEW q \in Nat, p < q
  PROVE  b * p + b <= b * q
<1>1. PICK d \in Nat : q = p + 1 + d
  <2>1. q - p - 1 \in Nat /\ q = p + 1 + (q - p - 1)
    OBVIOUS
  <2>. QED  BY <2>1
<1>2. b * q = b * p + b + b * d
  BY <1>1
<1>3. b * d >= 0
  OBVIOUS
<1>4. b * p \in Nat /\ b * q \in Nat /\ b * d \in Nat
  OBVIOUS
<1>. QED  BY <1>2, <1>3, <1>4

(* Quotient and remainder are unique.                                      *)
LEMMA Unique ==
  ASSUME NEW b \in Nat \ {0}, NEW p \in Nat, NEW q \in Nat,
         NEW r \in 0 .. b - 1, NEW s \in 0 .. b - 1, b * p + r = b * q + s
  PROVE  p = q /\ r = s
<1>1. b * p \in Nat /\ b * q \in Nat
  OBVIOUS
<1>2. ~(p < q)
  BY <1>1, Monotone
<1>3. ~(q < p)
  BY <1>1, Monotone
<1>4. p = q
  BY <1>2, <1>3
<1>. QED  BY <1>1, <1>4

(* A number made of a quotient and a remainder has these two.              *)
LEMMA Parts ==
  ASSUME NEW b \in Nat \ {0}, NEW p \in Nat, NEW r \in 0 .. b - 1,
         NEW a, a = b * p + r
  PROVE  a \div b = p /\ a % b = r
<1>1. a \in Nat
  <2>1. b * p \in Nat /\ r \in Nat
    OBVIOUS
  <2>. QED  BY <2>1
<1>2. PICK q \in Nat : \E s \in 0 .. b - 1 : q = a \div b /\ s = a % b /\ a = b * q + s
  BY <1>1, Division
<1>3. PICK s \in 0 .. b - 1 : q = a \div b /\ s = a % b /\ a = b * q + s
  BY <1>2
<1>4. b * q + s = b * p + r
  BY <1>3
<1>5. q = p /\ s = r
  BY ONLY <1>4, Unique, b \in Nat \ {0}, p \in Nat, r \in 0 .. b - 1, q \in Nat, s \in 0 .. b - 1
<1>. QED  BY <1>3, <1>5


(* A position in a file is that of a block and of a cell in it.            *)
LEMMA Position ==
  ASSUME NEW off \in Nat
  PROVE  /\ off \div CPB \in Nat /\ off % CPB \in 0 .. CPB - 1
         /\ off = CPB * (off \div CPB) + (off % CPB)
<1>1. CPB \in Nat \ {0}
  BY Geometry
<1>2. QED BY <1>1, Division

(* The cells before the end of a write are in its block or before its      *)
(* start.                                                                  *)
LEMMA Positions ==
  ASSUME NEW off \in Nat, NEW n \in Nat, n <= CPB - (off % CPB),
         NEW k \in Nat, k < off + n
  PROVE  k \div CPB <= off \div CPB /\ (k \div CPB < off \div CPB => k < off)
<1> DEFINE r == off % CPB
           s == k % CPB
           p == k \div CPB
           q == off \div CPB
<1>1. /\ p \in Nat /\ s \in 0 .. CPB - 1 /\ k = CPB * p + s
      /\ q \in Nat /\ r \in 0 .. CPB - 1 /\ off = CPB * q + r
  BY Position
<1>2. CPB \in Nat \ {0}
  BY Geometry
<1>8. r <= CPB /\ n <= CPB - r
  BY <1>1, <1>2
<1> HIDE DEF p, q, r, s
<1>3. CPB * p \in Nat /\ CPB * q \in Nat
  BY <1>1, <1>2
<1>4. ~ (q < p)
  <2> SUFFICES ASSUME q < p PROVE FALSE
    OBVIOUS
  <2>1. CPB * q + CPB <= CPB * p
    BY <1>1, <1>2, Monotone
  <2>2. QED BY <1>1, <1>2, <1>3, <1>8, <2>1
<1>5. p < q => k < off
  <2> SUFFICES ASSUME p < q PROVE k < off
    OBVIOUS
  <2>1. CPB * p + CPB <= CPB * q
    BY <1>1, <1>2, Monotone
  <2>2. QED BY <1>1, <1>2, <1>3, <1>8, <2>1
<1>6. p <= q
  BY <1>1, <1>4
<1>7. QED BY <1>5, <1>6 DEF p, q

(* A write within a block that bmap can reach ends within the largest      *)
(* file.                                                                   *)
LEMMA InReach ==
  ASSUME NEW off \in Nat, off \div CPB < NDir + NInd, NEW n \in Nat, n <= CPB - (off % CPB)
  PROVE  off + n <= MaxCells
<1> DEFINE r == off % CPB
           q == off \div CPB
           m == NDir + NInd
<1>1. q \in Nat /\ r \in 0 .. CPB - 1 /\ off = CPB * q + r
  BY Position
<1>2. CPB \in Nat \ {0} /\ m \in Nat /\ q < m
  BY Geometry
<1>3. MaxCells = m * CPB
  BY Zenon DEF MaxCells
<1>8. n <= CPB - r
  OBVIOUS
<1> HIDE DEF q, m, r
<1>4. CPB * q + CPB <= CPB * m
  BY <1>1, <1>2, Monotone
<1>5. CPB * m = m * CPB /\ CPB * q \in Nat /\ CPB * m \in Nat
  BY <1>1, <1>2
<1>6. QED BY <1>8, <1>1, <1>2, <1>3, <1>4, <1>5

(* A cell of a file is in a block that bmap can reach.                     *)
LEMMA Reached ==
  ASSUME NEW off \in Nat, off < MaxCells
  PROVE  off \div CPB < NDir + NInd
<1> DEFINE r == off % CPB
           q == off \div CPB
           m == NDir + NInd
<1>1. q \in Nat /\ r \in 0 .. CPB - 1 /\ off = CPB * q + r
  BY Position
<1>2. CPB \in Nat \ {0} /\ m \in Nat
  BY Geometry
<1>3. off < m * CPB
  BY DEF MaxCells
<1> SUFFICES ASSUME ~ (q < m) PROVE FALSE
  OBVIOUS
<1> HIDE DEF q, m, r
<1>4. m = q \/ m < q
  BY <1>1, <1>2
<1>5. CPB * m <= CPB * q
  <2>1. CPB * m \in Nat /\ CPB * q \in Nat
    BY <1>1, <1>2
  <2>2. CASE m = q
    BY <2>1, <2>2
  <2>3. CASE m < q
    <3>1. CPB * m + CPB <= CPB * q
      BY <1>1, <1>2, <2>3, Monotone
    <3>2. QED BY <3>1, <2>1, <1>2
  <2>4. QED BY <2>2, <2>3, <1>4
<1>6. CPB * m = m * CPB /\ CPB * q \in Nat /\ CPB * m \in Nat
  BY <1>1, <1>2
<1>7. QED BY <1>1, <1>2, <1>3, <1>5, <1>6

-----------------------------------------------------------------------------
(* Types of volumes and runs.                                              *)

(* What a volume and the run of a program are.                             *)
Width == Max({CPB, NInd})
Word == Names \union {"", ".", ".."} \union {src.name : src \in Sources}
          \union UNION {{old[c].s : c \in 0 .. Width - 1} : old \in Former}
CellSet == [n : Nat, s : Word]
Content == [0 .. Width - 1 -> CellSet]
Zone == {0} \union Block
Volume == [valid : BOOLEAN, clean : BOOLEAN, free : SUBSET Block,
           ino : [Inum -> InodeRecord], blk : [Block -> Content]]
Run == [dev : Volume, ino : [Inum -> InodeRecord], log : Seq(Volume), r : Int,
        status : {"ok", "format", "dies", "wild"}]

(* Where a block of an inode is looked for.                                *)
Slot == Inum \X (-1 .. NDir + NInd - 1)

(* A block holds CPB cells and NInd addresses.                             *)
LEMMA Widths ==
  /\ Width \in Nat /\ 0 \in 0 .. Width - 1
  /\ 0 .. CPB - 1 \subseteq 0 .. Width - 1 /\ 0 .. NInd - 1 \subseteq 0 .. Width - 1
<1>1. Width = IF CPB > NInd THEN CPB ELSE NInd
  BY Geometry, MaxOfTwo DEF Width
<1>2. QED BY <1>1, Geometry

(* The cells that the tools write are cells, a zeroed block is a content.  *)
LEMMA Cells0 ==
  /\ "" \in Word /\ "." \in Word /\ ".." \in Word
  /\ \A n \in Nat, s \in Word : Cell(n, s) \in CellSet
  /\ ZeroCell \in CellSet /\ ZeroBlock \in Content
  /\ \A c \in 0 .. Width - 1 : ZeroBlock[c].n = 0
<1>1. "" \in Word /\ "." \in Word /\ ".." \in Word
  BY DEF Word
<1>2. \A n \in Nat, s \in Word : Cell(n, s) \in CellSet
  BY DEF Cell, CellSet
<1>3. ZeroCell \in CellSet /\ ZeroCell.n = 0
  BY <1>1, <1>2 DEF ZeroCell, Cell
<1>4. ZeroBlock = [c \in 0 .. Width - 1 |-> ZeroCell]
  BY DEF ZeroBlock, Width
<1>5. QED BY <1>1, <1>2, <1>3, <1>4 DEF Content

(* So is a block of an image that was used before.                         *)
LEMMA OldBlocks ==
  ASSUME NEW old \in Former
  PROVE  old \in Content
<1> DEFINE S == DOMAIN ZeroBlock
           T == 0 .. Width - 1
<1>1. S = T
  BY DEF ZeroBlock, Width
<1>2. ASSUME NEW c \in T PROVE old[c].s \in Word
  <2>1. old[c].s \in UNION {{o[k].s : k \in 0 .. Width - 1} : o \in Former}
    OBVIOUS
  <2>2. QED BY <2>1 DEF Word
<1>3. Content = [T -> CellSet]
  BY DEF Content
<1>4. old = [c \in S |-> Cell(old[c].n, old[c].s)] /\ \A c \in S : old[c].n \in Nat
  BY VolumeAssumption, Zenon
<1> HIDE DEF S, T
<1>5. old = [c \in T |-> Cell(old[c].n, old[c].s)] /\ \A c \in T : old[c].n \in Nat
  BY <1>1, <1>4
<1>6. \A c \in T : Cell(old[c].n, old[c].s) \in CellSet
  BY <1>2, <1>5, Cells0
<1>7. QED BY <1>3, <1>5, <1>6

(* The parts of a volume.                                                  *)
LEMMA VolumeParts ==
  ASSUME NEW d \in Volume
  PROVE  /\ d.valid \in BOOLEAN /\ d.clean \in BOOLEAN /\ d.free \in SUBSET Block
         /\ d.ino \in [Inum -> InodeRecord] /\ d.blk \in [Block -> Content]
         /\ \A b \in Block, c \in 0 .. Width - 1 : d.blk[b] \in Content /\ d.blk[b][c] \in CellSet
                                                  /\ d.blk[b][c].n \in Nat
         /\ \A i \in Inum : d.ino[i] \in InodeRecord
BY DEF Volume, Content, CellSet

(* The parts of an inode.                                                  *)
LEMMA InodeParts ==
  ASSUME NEW p \in InodeRecord
  PROVE  /\ p.flags \in {0, ALOC} /\ p.nlink \in Nat /\ p.size \in 0 .. MaxCells
         /\ p.mode \in {g * 4096 : g \in Garbage} \union {0, DirMode, RegMode}
         /\ p.zones \in [0 .. SInd -> Zone] /\ p.size \in Nat
         /\ \A z \in 0 .. SInd : p.zones[z] \in Zone
BY Geometry DEF InodeRecord, Zone

(* A new number of links, size or type, or a new zone.                     *)
LEMMA InodeChange ==
  ASSUME NEW p \in InodeRecord
  PROVE  /\ \A n \in Nat : [p EXCEPT !.nlink = n] \in InodeRecord
         /\ \A n \in 0 .. MaxCells : [p EXCEPT !.size = n] \in InodeRecord
         /\ \A m \in {g * 4096 : g \in Garbage} \union {0, DirMode, RegMode} :
              [p EXCEPT !.mode = m] \in InodeRecord
         /\ [p EXCEPT !.flags = ALOC] \in InodeRecord
         /\ \A z \in 0 .. SInd, b \in Zone :
              /\ [p.zones EXCEPT ![z] = b] \in [0 .. SInd -> Zone]
              /\ [p EXCEPT !.zones = [@ EXCEPT ![z] = b]] \in InodeRecord
<1>1. /\ \A n \in Nat : [p EXCEPT !.nlink = n] \in InodeRecord
      /\ \A n \in 0 .. MaxCells : [p EXCEPT !.size = n] \in InodeRecord
  BY DEF InodeRecord
<1>2. /\ \A m \in {g * 4096 : g \in Garbage} \union {0, DirMode, RegMode} :
           [p EXCEPT !.mode = m] \in InodeRecord
      /\ [p EXCEPT !.flags = ALOC] \in InodeRecord
  BY DEF InodeRecord
<1>3. ASSUME NEW z \in 0 .. SInd, NEW b \in Zone
      PROVE  /\ [p.zones EXCEPT ![z] = b] \in [0 .. SInd -> Zone]
             /\ [p EXCEPT !.zones = [@ EXCEPT ![z] = b]] \in InodeRecord
  BY DEF InodeRecord, Zone
<1>4. QED BY <1>1, <1>2, <1>3

(* The inode that mkfs writes.                                             *)
LEMMA NewInode ==
  /\ ZeroInode \in InodeRecord
  /\ ZeroInode.flags = 0 /\ ZeroInode.size = 0 /\ ZeroInode.nlink = 0 /\ ZeroInode.mode = 0
  /\ \A z \in 0 .. SInd : ZeroInode.zones[z] = 0
BY Geometry DEF ZeroInode, InodeRecord

-----------------------------------------------------------------------------
(* The block a slot leads to.                                              *)
LEMMA OwnedIs ==
  ASSUME NEW d, NEW i \in Inum
  PROVE  /\ Owned(d, <<i, -1>>) = d.ino[i].zones[SInd]
         /\ \A n \in 0 .. NDir - 1 : Owned(d, <<i, n>>) = d.ino[i].zones[n]
         /\ \A k \in 0 .. NInd - 1 :
              Owned(d, <<i, NDir + k>>) = IF d.ino[i].zones[SInd] = 0 THEN 0
                                          ELSE d.blk[d.ino[i].zones[SInd]][k].n
         /\ \A n \in 0 .. NDir + NInd - 1 : Owned(d, <<i, n>>) = BlockAt(d, d.ino[i], n)
<1>1. \A n \in 0 .. NDir + NInd - 1 : n # -1 /\ Owned(d, <<i, n>>) = BlockAt(d, d.ino[i], n)
  BY Geometry DEF Owned
<1>2. Owned(d, <<i, -1>>) = d.ino[i].zones[SInd]
  BY DEF Owned
<1>3. \A n \in 0 .. NDir - 1 : n \in 0 .. NDir + NInd - 1 /\ n < NDir
  BY Geometry
<1>4. \A k \in 0 .. NInd - 1 : /\ NDir + k \in 0 .. NDir + NInd - 1 /\ (NDir + k) - NDir = k
                               /\ ~ (NDir + k < NDir) /\ ~ (NDir + k >= NDir + NInd)
  BY Geometry
<1>5. \A n \in 0 .. NDir - 1 : BlockAt(d, d.ino[i], n) = d.ino[i].zones[n]
  BY <1>3 DEF BlockAt
<1>6. \A k \in 0 .. NInd - 1 :
        BlockAt(d, d.ino[i], NDir + k) = IF d.ino[i].zones[SInd] = 0 THEN 0
                                         ELSE d.blk[d.ino[i].zones[SInd]][k].n
  BY <1>4 DEF BlockAt
<1>7. QED BY <1>1, <1>2, <1>3, <1>4, <1>5, <1>6

(* Every slot is the indirect block's, a direct zone's or an address's.    *)
LEMMA Slots ==
  ASSUME NEW x \in Slot
  PROVE  /\ x = <<x[1], x[2]>> /\ x[1] \in Inum
         /\ \/ x[2] = -1
            \/ x[2] \in 0 .. NDir - 1
            \/ \E k \in 0 .. NInd - 1 : x[2] = NDir + k
<1>1. x = <<x[1], x[2]>> /\ x[1] \in Inum /\ x[2] \in -1 .. NDir + NInd - 1
  BY DEF Slot
<1>2. ASSUME x[2] # -1, x[2] \notin 0 .. NDir - 1
      PROVE  \E k \in 0 .. NInd - 1 : x[2] = NDir + k
  <2>1. x[2] - NDir \in 0 .. NInd - 1 /\ x[2] = NDir + (x[2] - NDir)
    BY <1>1, <1>2, Geometry
  <2>2. QED BY <2>1
<1>3. QED BY <1>1, <1>2

(* The slots of an inode.                                                  *)
LEMMA SlotIn ==
  ASSUME NEW i \in Inum
  PROVE  /\ <<i, -1>> \in Slot
         /\ \A n \in 0 .. NDir + NInd - 1 : <<i, n>> \in Slot
         /\ \A n \in 0 .. NDir - 1 : <<i, n>> \in Slot
         /\ \A k \in 0 .. NInd - 1 : <<i, NDir + k>> \in Slot
BY Geometry DEF Slot

(* The block a slot of an inode leads to, for each kind of slot.           *)
LEMMA OwnedHead ==
  ASSUME NEW d, NEW i \in Inum
  PROVE  Owned(d, <<i, -1>>) = d.ino[i].zones[SInd]
BY OwnedIs

LEMMA OwnedDirect ==
  ASSUME NEW d, NEW i \in Inum, NEW n \in 0 .. NDir - 1
  PROVE  Owned(d, <<i, n>>) = d.ino[i].zones[n]
BY OwnedIs

LEMMA OwnedFar ==
  ASSUME NEW d, NEW i \in Inum, NEW k \in 0 .. NInd - 1
  PROVE  Owned(d, <<i, NDir + k>>) = IF d.ino[i].zones[SInd] = 0 THEN 0
                                     ELSE d.blk[d.ino[i].zones[SInd]][k].n
BY OwnedIs

(* What the blocks of an inode depend on.                                  *)
LEMMA SameOwned ==
  ASSUME NEW d, NEW e, NEW x \in Slot,
         e.ino[x[1]].zones = d.ino[x[1]].zones,
         d.ino[x[1]].zones[SInd] # 0 =>
           e.blk[d.ino[x[1]].zones[SInd]] = d.blk[d.ino[x[1]].zones[SInd]]
  PROVE  Owned(e, x) = Owned(d, x)
<1>1. PICK i \in Inum : x = <<i, x[2]>> /\ x[1] = i
  BY Slots
<1>2. CASE x[2] = -1
  <2>1. x = <<i, -1>>
    BY <1>1, <1>2
  <2>2. Owned(d, <<i, -1>>) = d.ino[i].zones[SInd] /\ Owned(e, <<i, -1>>) = e.ino[i].zones[SInd]
    BY OwnedHead
  <2>3. QED BY <2>1, <2>2, <1>1
<1>3. CASE x[2] \in 0 .. NDir - 1
  <2>1. PICK n \in 0 .. NDir - 1 : x = <<i, n>>
    BY <1>1, <1>3
  <2>2. Owned(d, <<i, n>>) = d.ino[i].zones[n] /\ Owned(e, <<i, n>>) = e.ino[i].zones[n]
    BY OwnedDirect
  <2>3. QED BY <2>1, <2>2, <1>1
<1>4. CASE \E k \in 0 .. NInd - 1 : x[2] = NDir + k
  <2>1. PICK k \in 0 .. NInd - 1 : x[2] = NDir + k
    BY <1>4
  <2>2. x = <<i, NDir + k>>
    BY <2>1, <1>1
  <2> DEFINE p == d.ino[i].zones[SInd]
             q == e.ino[i].zones[SInd]
  <2>3. /\ Owned(d, <<i, NDir + k>>) = IF p = 0 THEN 0 ELSE d.blk[p][k].n
        /\ Owned(e, <<i, NDir + k>>) = IF q = 0 THEN 0 ELSE e.blk[q][k].n
    BY OwnedFar
  <2>4. q = p /\ (p # 0 => e.blk[p] = d.blk[p])
    BY <1>1
  <2> HIDE DEF p, q
  <2>5. QED BY <2>2, <2>3, <2>4
<1>5. QED BY <1>2, <1>3, <1>4, Slots

-----------------------------------------------------------------------------
(* Where the inodes lead when a block or an inode is replaced.             *)

(* The superblock leads nowhere.                                           *)
LEMMA SuperChange ==
  ASSUME NEW d, NEW e, e.ino = d.ino, e.blk = d.blk
  PROVE  \A x \in Slot : Owned(e, x) = Owned(d, x)
BY SameOwned

(* A write to a block that holds no addresses.                             *)
BlkSet(d, b, cells) == [d EXCEPT !.blk = [@ EXCEPT ![b] = cells]]
InoSet(d, i, p) == [d EXCEPT !.ino = [@ EXCEPT ![i] = p]]

(* A volume with a block of it replaced.                                   *)
LEMMA BlkSetIs ==
  ASSUME NEW d \in Volume, NEW b \in Block, NEW cells \in Content
  PROVE  /\ BlkSet(d, b, cells) \in Volume
         /\ BlkSet(d, b, cells).valid = d.valid /\ BlkSet(d, b, cells).clean = d.clean
         /\ BlkSet(d, b, cells).free = d.free /\ BlkSet(d, b, cells).ino = d.ino
         /\ BlkSet(d, b, cells).blk[b] = cells
         /\ \A a \in Block : a # b => BlkSet(d, b, cells).blk[a] = d.blk[a]
<1>1. [d.blk EXCEPT ![b] = cells] \in [Block -> Content]
  BY DEF Volume
<1>2. QED BY <1>1 DEF Volume, BlkSet

(* A volume with an inode of it replaced.                                  *)
LEMMA InoSetIs ==
  ASSUME NEW d \in Volume, NEW i \in Inum, NEW p \in InodeRecord
  PROVE  /\ InoSet(d, i, p) \in Volume
         /\ InoSet(d, i, p).valid = d.valid /\ InoSet(d, i, p).clean = d.clean
         /\ InoSet(d, i, p).free = d.free /\ InoSet(d, i, p).blk = d.blk
         /\ InoSet(d, i, p).ino[i] = p
         /\ \A j \in Inum : j # i => InoSet(d, i, p).ino[j] = d.ino[j]
<1>1. [d.ino EXCEPT ![i] = p] \in [Inum -> InodeRecord]
  BY DEF Volume
<1>2. QED BY <1>1 DEF Volume, InoSet

(* What holds of every zone and address, seen as slots.                    *)
LEMMA DataWrite ==
  ASSUME NEW d \in Volume, NEW b \in Block, NEW cells \in Content,
         \A i \in Inum : Owned(d, <<i, -1>>) # b,
         \A x \in Slot : Owned(d, x) \in Zone
  PROVE  \A x \in Slot : Owned(BlkSet(d, b, cells), x) = Owned(d, x)
<1> DEFINE e == BlkSet(d, b, cells)
<1>1. e \in Volume /\ e.ino = d.ino /\ \A a \in Block : a # b => e.blk[a] = d.blk[a]
  BY BlkSetIs
<1> HIDE DEF e
<1> SUFFICES ASSUME NEW x \in Slot PROVE Owned(e, x) = Owned(d, x)
  BY DEF e
<1>2. PICK i \in Inum : x = <<i, x[2]>>
  BY Slots
<1>3. d.ino[i].zones[SInd] # b /\ d.ino[i].zones[SInd] \in Zone
  BY OwnedHead, SlotIn
<1>4. x[1] = i
  BY <1>2
<1>5. d.ino[i].zones[SInd] # 0 => e.blk[d.ino[i].zones[SInd]] = d.blk[d.ino[i].zones[SInd]]
  BY <1>3, <1>1 DEF Zone
<1>6. QED BY <1>1, <1>4, <1>5, SameOwned

(* An inode that keeps its zones, and one that loses them.                 *)
LEMMA SameZones ==
  ASSUME NEW d \in Volume, NEW i \in Inum, NEW p \in InodeRecord, p.zones = d.ino[i].zones
  PROVE  \A x \in Slot : Owned(InoSet(d, i, p), x) = Owned(d, x)
<1> DEFINE e == InoSet(d, i, p)
<1>1. e.blk = d.blk /\ \A j \in Inum : e.ino[j].zones = d.ino[j].zones
  BY InoSetIs
<1> HIDE DEF e
<1> SUFFICES ASSUME NEW x \in Slot PROVE Owned(e, x) = Owned(d, x)
  BY DEF e
<1>2. x[1] \in Inum
  BY Slots
<1>3. QED BY <1>1, <1>2, SameOwned

(* An inode without zones leads nowhere.                                   *)
LEMMA NoZones ==
  ASSUME NEW d, NEW i \in Inum, \A z \in 0 .. SInd : d.ino[i].zones[z] = 0
  PROVE  \A x \in Slot : x[1] = i => Owned(d, x) = 0
<1> SUFFICES ASSUME NEW x \in Slot, x[1] = i PROVE Owned(d, x) = 0
  OBVIOUS
<1>0. SInd \in 0 .. SInd /\ \A n \in 0 .. NDir - 1 : n \in 0 .. SInd
  BY Geometry
<1>1. CASE x[2] = -1
  <2>1. x = <<i, -1>>
    BY <1>1, Slots
  <2>2. QED BY <2>1, <1>0, OwnedIs
<1>2. CASE x[2] \in 0 .. NDir - 1
  <2>1. PICK n \in 0 .. NDir - 1 : x = <<i, n>>
    BY <1>2, Slots
  <2>2. QED BY <2>1, <1>0, OwnedIs
<1>3. CASE \E k \in 0 .. NInd - 1 : x[2] = NDir + k
  <2>1. PICK k \in 0 .. NInd - 1 : x[2] = NDir + k
    BY <1>3
  <2>2. x = <<i, NDir + k>>
    BY <2>1, Slots
  <2>3. QED BY <2>2, <1>0, OwnedFar
<1>4. QED BY <1>1, <1>2, <1>3, Slots

(* An inode does not change where the others lead.                         *)
LEMMA OtherInode ==
  ASSUME NEW d \in Volume, NEW i \in Inum, NEW p \in InodeRecord
  PROVE  \A x \in Slot : x[1] # i => Owned(InoSet(d, i, p), x) = Owned(d, x)
<1> DEFINE e == InoSet(d, i, p)
<1>1. e.blk = d.blk /\ \A j \in Inum : j # i => e.ino[j].zones = d.ino[j].zones
  BY InoSetIs
<1> HIDE DEF e
<1> SUFFICES ASSUME NEW x \in Slot, x[1] # i PROVE Owned(e, x) = Owned(d, x)
  BY DEF e
<1>2. x[1] \in Inum
  BY Slots
<1>3. QED BY <1>1, <1>2, SameOwned

(* A block becomes a direct zone, an indirect block without addresses, or  *)
(* an address.                                                             *)
ZoneSet(p, z, b) == [p EXCEPT !.zones = [@ EXCEPT ![z] = b]]

(* An inode with a zone of it replaced.                                    *)
LEMMA ZoneSetIs ==
  ASSUME NEW p \in InodeRecord, NEW z \in 0 .. SInd, NEW b \in Zone
  PROVE  /\ ZoneSet(p, z, b) \in InodeRecord
         /\ ZoneSet(p, z, b).zones[z] = b
         /\ \A y \in 0 .. SInd : y # z => ZoneSet(p, z, b).zones[y] = p.zones[y]
         /\ ZoneSet(p, z, b).size = p.size /\ ZoneSet(p, z, b).mode = p.mode
         /\ ZoneSet(p, z, b).nlink = p.nlink /\ ZoneSet(p, z, b).flags = p.flags
BY DEF ZoneSet, InodeRecord, Zone

(* A new direct zone leads to one block more.                              *)
LEMMA NewDirect ==
  ASSUME NEW d \in Volume, NEW i \in Inum, NEW z \in 0 .. NDir - 1, NEW b \in Block
  PROVE  \A x \in Slot : Owned(InoSet(d, i, ZoneSet(d.ino[i], z, b)), x)
                           = IF x = <<i, z>> THEN b ELSE Owned(d, x)
<1> DEFINE p == ZoneSet(d.ino[i], z, b)
           e == InoSet(d, i, p)
<1>0. z \in 0 .. SInd /\ b \in Zone /\ d.ino[i] \in InodeRecord /\ SInd \in 0 .. SInd /\ z # SInd
  BY Geometry DEF Volume, Zone
<1>1. /\ p \in InodeRecord /\ p.zones[z] = b
      /\ \A y \in 0 .. SInd : y # z => p.zones[y] = d.ino[i].zones[y]
  BY <1>0, ZoneSetIs
<1>2. e.blk = d.blk /\ e.ino[i] = p
  BY <1>1, InoSetIs
<1>3. \A x \in Slot : x[1] # i => Owned(e, x) = Owned(d, x)
  BY <1>1, OtherInode
<1> HIDE DEF e, p
<1> SUFFICES ASSUME NEW x \in Slot
             PROVE  Owned(e, x) = IF x = <<i, z>> THEN b ELSE Owned(d, x)
  BY DEF e, p
<1>4. CASE x[1] # i
  BY <1>4, <1>3
<1>5. CASE x[1] = i
  <2>1. CASE x[2] = -1
    <3>1. x = <<i, -1>> /\ x # <<i, z>>
      BY <1>5, <2>1, Slots
    <3>2. QED BY <3>1, <1>0, <1>1, <1>2, OwnedIs
  <2>2. CASE x[2] \in 0 .. NDir - 1
    <3>1. PICK n \in 0 .. NDir - 1 : x = <<i, n>> /\ n \in 0 .. SInd
      BY <1>5, <2>2, Slots, Geometry
    <3>2. Owned(e, x) = p.zones[n] /\ Owned(d, x) = d.ino[i].zones[n]
      BY <3>1, <1>2, OwnedIs
    <3>3. x = <<i, z>> <=> n = z
      BY <3>1
    <3>4. QED BY <3>1, <3>2, <3>3, <1>1
  <2>3. CASE \E k \in 0 .. NInd - 1 : x[2] = NDir + k
    <3>0. PICK k \in 0 .. NInd - 1 : x[2] = NDir + k
      BY <2>3
    <3>1. x = <<i, NDir + k>>
      BY <3>0, <1>5, Slots
    <3>2. NDir + k # z
      BY Geometry
    <3>3. x # <<i, z>>
      BY <3>1, <3>2
    <3>4. p.zones[SInd] = d.ino[i].zones[SInd]
      BY <1>0, <1>1
    <3>5. Owned(d, x) = IF d.ino[i].zones[SInd] = 0 THEN 0 ELSE d.blk[d.ino[i].zones[SInd]][k].n
      BY <3>1, OwnedFar
    <3>6. Owned(e, x) = IF e.ino[i].zones[SInd] = 0 THEN 0 ELSE e.blk[e.ino[i].zones[SInd]][k].n
      BY <3>1, OwnedFar
    <3>7. QED BY <3>3, <3>4, <3>5, <3>6, <1>2
  <2>4. QED BY <2>1, <2>2, <2>3, Slots
<1>6. QED BY <1>4, <1>5

(* A new indirect block, all zeroes, leads to no block but itself.         *)
LEMMA NewIndirect ==
  ASSUME NEW d \in Volume, NEW i \in Inum, NEW b \in Block, d.ino[i].zones[SInd] = 0,
         \A k \in 0 .. NInd - 1 : d.blk[b][k].n = 0
  PROVE  \A x \in Slot : Owned(InoSet(d, i, ZoneSet(d.ino[i], SInd, b)), x)
                           = IF x = <<i, -1>> THEN b ELSE Owned(d, x)
<1> DEFINE p == ZoneSet(d.ino[i], SInd, b)
           e == InoSet(d, i, p)
<1>0. b \in Zone /\ b # 0 /\ d.ino[i] \in InodeRecord /\ SInd \in 0 .. SInd
  BY Geometry DEF Volume, Zone
<1>1. /\ p \in InodeRecord /\ p.zones[SInd] = b
      /\ \A y \in 0 .. SInd : y # SInd => p.zones[y] = d.ino[i].zones[y]
  BY <1>0, ZoneSetIs
<1>2. e.blk = d.blk /\ e.ino[i] = p
  BY <1>1, InoSetIs
<1>3. \A x \in Slot : x[1] # i => Owned(e, x) = Owned(d, x)
  BY <1>1, OtherInode
<1> HIDE DEF e, p
<1> SUFFICES ASSUME NEW x \in Slot
             PROVE  Owned(e, x) = IF x = <<i, -1>> THEN b ELSE Owned(d, x)
  BY DEF e, p
<1>4. CASE x[1] # i
  BY <1>4, <1>3
<1>5. CASE x[1] = i
  <2>1. CASE x[2] = -1
    <3>1. x = <<i, -1>>
      BY <1>5, <2>1, Slots
    <3>2. QED BY <3>1, <1>1, <1>2, OwnedIs
  <2>2. CASE x[2] \in 0 .. NDir - 1
    <3>0. PICK n \in 0 .. NDir - 1 : x = <<i, n>>
      BY <1>5, <2>2, Slots
    <3>1. n \in 0 .. SInd /\ n # SInd
      BY Geometry
    <3>2. Owned(e, x) = p.zones[n] /\ Owned(d, x) = d.ino[i].zones[n]
      BY <3>0, <1>2, OwnedDirect
    <3>3. x # <<i, -1>>
      BY <3>0
    <3>4. QED BY <3>1, <3>2, <3>3, <1>1
  <2>3. CASE \E k \in 0 .. NInd - 1 : x[2] = NDir + k
    <3>0. PICK k \in 0 .. NInd - 1 : x[2] = NDir + k
      BY <2>3
    <3>1. x = <<i, NDir + k>>
      BY <3>0, <1>5, Slots
    <3>2. NDir + k # -1
      BY Geometry
    <3>3. x # <<i, -1>>
      BY <3>1, <3>2
    <3>4. Owned(e, x) = IF e.ino[i].zones[SInd] = 0 THEN 0 ELSE e.blk[e.ino[i].zones[SInd]][k].n
      BY <3>1, OwnedFar
    <3>7. Owned(e, x) = 0
      BY <3>4, <1>0, <1>1, <1>2
    <3>5. Owned(d, x) = 0
      BY <3>1, OwnedFar
    <3>6. QED BY <3>3, <3>7, <3>5
  <2>4. QED BY <2>1, <2>2, <2>3, Slots
<1>6. QED BY <1>4, <1>5

(* A new address in an indirect block leads to one block more.             *)
LEMMA NewAddress ==
  ASSUME NEW d \in Volume, NEW i \in Inum, NEW k \in 0 .. NInd - 1, NEW c,
         NEW cells \in Content,
         \A x \in Slot : Owned(d, x) \in Zone,
         d.ino[i].zones[SInd] # 0,
         \A j \in Inum : j # i => d.ino[j].zones[SInd] # d.ino[i].zones[SInd],
         cells[k].n = c,
         \A m \in 0 .. NInd - 1 : m # k => cells[m].n = d.blk[d.ino[i].zones[SInd]][m].n
  PROVE  \A x \in Slot : Owned(BlkSet(d, d.ino[i].zones[SInd], cells), x)
                           = IF x = <<i, NDir + k>> THEN c ELSE Owned(d, x)
<1> DEFINE b == d.ino[i].zones[SInd]
           e == BlkSet(d, b, cells)
<1>0. b \in Block
  BY OwnedHead, SlotIn DEF Zone
<1>1. /\ e \in Volume /\ e.ino = d.ino /\ e.blk[b] = cells
      /\ \A a \in Block : a # b => e.blk[a] = d.blk[a]
  BY <1>0, BlkSetIs
<1> HIDE DEF e
<1> SUFFICES ASSUME NEW x \in Slot
             PROVE  Owned(e, x) = IF x = <<i, NDir + k>> THEN c ELSE Owned(d, x)
  BY DEF e
<1>2. PICK j \in Inum : x = <<j, x[2]>>
  BY Slots
<1>4. CASE x[2] = -1
  <2>1. x = <<j, -1>> /\ NDir + k # -1
    BY <1>2, <1>4, Geometry
  <2>2. x # <<i, NDir + k>>
    BY <2>1
  <2>3. QED BY <2>1, <2>2, <1>1, OwnedIs
<1>5. CASE x[2] \in 0 .. NDir - 1
  <2>1. PICK n \in 0 .. NDir - 1 : x = <<j, n>>
    BY <1>2, <1>5
  <2>2. x # <<i, NDir + k>>
    BY <2>1, Geometry
  <2>3. Owned(e, x) = e.ino[j].zones[n] /\ Owned(d, x) = d.ino[j].zones[n]
    BY <2>1, OwnedDirect
  <2>4. QED BY <2>2, <2>3, <1>1
<1>6. CASE \E m \in 0 .. NInd - 1 : x[2] = NDir + m
  <2>0. PICK m \in 0 .. NInd - 1 : x[2] = NDir + m
    BY <1>6
  <2>1. x = <<j, NDir + m>>
    BY <1>2, <2>0
  <2>2. x = <<i, NDir + k>> <=> j = i /\ m = k
    BY <2>1, Geometry
  <2>3. CASE j = i
    <3>1. e.ino[i].zones[SInd] = b /\ b # 0 /\ x = <<i, NDir + m>>
      BY <1>1, <2>1, <2>3
    <3>2. Owned(d, x) = d.blk[b][m].n
      BY <3>1, OwnedFar
    <3>3. Owned(e, x) = e.blk[b][m].n
      <4> HIDE DEF b
      <4>1. Owned(e, x) = IF e.ino[i].zones[SInd] = 0 THEN 0 ELSE e.blk[e.ino[i].zones[SInd]][m].n
        BY <3>1, OwnedFar
      <4>2. QED BY <4>1, <3>1
    <3>4. QED BY <3>2, <3>3, <1>1, <2>2, <2>3
  <2>4. CASE j # i
    <3>1. d.ino[j].zones[SInd] \in Zone /\ d.ino[j].zones[SInd] # b
      <4>1. <<j, -1>> \in Slot /\ Owned(d, <<j, -1>>) = d.ino[j].zones[SInd]
        BY OwnedHead, SlotIn
      <4>2. QED BY <4>1, <2>4
    <3>2. d.ino[j].zones[SInd] # 0 => e.blk[d.ino[j].zones[SInd]] = d.blk[d.ino[j].zones[SInd]]
      BY <3>1, <1>1 DEF Zone
    <3>3. x[1] = j /\ e.ino[j].zones = d.ino[j].zones
      BY <1>1, <1>2
    <3>4. Owned(e, x) = Owned(d, x)
      BY <3>2, <3>3, SameOwned
    <3>5. QED BY <3>4, <2>2, <2>4
  <2>5. QED BY <2>3, <2>4
<1>7. QED BY <1>4, <1>5, <1>6, Slots

-----------------------------------------------------------------------------
(* What is true of a volume at every write: no block has two owners or is  *)
(* both owned and free, no inode has a hole, and an inode that is not in   *)
(* use is empty.                                                           *)
Sound(d) ==
  /\ \A x \in Slot : Owned(d, x) \in Zone /\ Owned(d, x) \notin d.free
  /\ \A x, y \in Slot : Owned(d, x) = Owned(d, y) /\ Owned(d, x) # 0 => x = y

(* A block for every cell below the size of each inode.                    *)
NoHole(d) ==
  \A i \in Inum : \A off \in 0 .. d.ino[i].size - 1 : Owned(d, <<i, off \div CPB>>) # 0

(* An inode that was never used, or only zeroed.                           *)
EmptyInode(p) ==
  p.size = 0 /\ p.nlink = 0 /\ p.mode = 0 /\ \A z \in 0 .. SInd : p.zones[z] = 0
(* Inodes that are not allocated are empty: fs_inode_alloc depends on it.  *)
Unused(d) == \A i \in Inum : d.ino[i].flags = 0 => EmptyInode(d.ino[i])

(* No block is lost.                                                       *)
Full(d) == \A b \in Block : b \in d.free \/ \E x \in Slot : Owned(d, x) = b

(* What d leads to is there in e, with the same cells.                     *)
Leads(d, e) == \A x \in Slot : Owned(d, x) # 0 => Owned(e, x) = Owned(d, x)
(* Every slot of d leads to the same block in e, which holds what it held. *)
Reads(d, e) ==
  /\ Leads(d, e)
  /\ \A x \in Slot : x[2] >= 0 /\ Owned(d, x) # 0 => e.blk[Owned(d, x)] = d.blk[Owned(d, x)]

LEMMA ReadsTransitive ==
  ASSUME NEW d, NEW e, NEW f, Reads(d, e), Reads(e, f)
  PROVE  Reads(d, f)
BY DEF Reads, Leads

(* A volume with the same owners is as sound, and nothing more is lost.    *)
LEMMA SoundSame ==
  ASSUME NEW d, NEW e, Sound(d), \A x \in Slot : Owned(e, x) = Owned(d, x),
         e.free \subseteq d.free
  PROVE  Sound(e) /\ Leads(d, e)
BY DEF Sound, Leads

(* Nor is a block lost.                                                    *)
LEMMA FullSame ==
  ASSUME NEW d, NEW e, Full(d), \A x \in Slot : Owned(e, x) = Owned(d, x), e.free = d.free
  PROVE  Full(e)
BY DEF Full

(* The slot of a cell below the size of an inode.                          *)
LEMMA SlotOf ==
  ASSUME NEW i \in Inum, NEW s \in 0 .. MaxCells, NEW off \in 0 .. s - 1
  PROVE  /\ off \in Nat /\ off < MaxCells
         /\ off \div CPB \in 0 .. NDir + NInd - 1 /\ <<i, off \div CPB>> \in Slot
<1>1. off \in Nat /\ off < MaxCells
  BY Geometry
<1>2. off \div CPB \in Nat
  BY <1>1, Position
<1>3. off \div CPB < NDir + NInd
  BY <1>1, Reached
<1>4. off \div CPB \in 0 .. NDir + NInd - 1
  <2> DEFINE q == off \div CPB
  <2> HIDE DEF q
  <2>1. q \in Nat /\ q < NDir + NInd
    BY <1>2, <1>3 DEF q
  <2>2. q \in 0 .. NDir + NInd - 1
    BY <2>1, Geometry
  <2>3. QED BY <2>2 DEF q
<1>5. QED BY <1>1, <1>4, SlotIn

(* No hole appears as long as the sizes stay and no slot is lost.          *)
LEMMA HoleSame ==
  ASSUME NEW d \in Volume, NEW e, NoHole(d), Leads(d, e),
         \A i \in Inum : e.ino[i].size = d.ino[i].size
  PROVE  NoHole(e)
<1> SUFFICES ASSUME NEW i \in Inum, NEW off \in 0 .. e.ino[i].size - 1
             PROVE  Owned(e, <<i, off \div CPB>>) # 0
  BY DEF NoHole
<1>1. off \in 0 .. d.ino[i].size - 1
  OBVIOUS
<1>2. d.ino[i].size \in 0 .. MaxCells
  BY VolumeParts, InodeParts
<1>3. <<i, off \div CPB>> \in Slot
  BY <1>1, <1>2, SlotOf
<1>4. Owned(d, <<i, off \div CPB>>) # 0
  BY <1>1 DEF NoHole
<1>5. QED BY <1>3, <1>4 DEF Leads

(* A block that nothing leads to gets an owner.                            *)
LEMMA SoundMore ==
  ASSUME NEW d, NEW e, NEW s \in Slot, NEW b \in Block, Sound(d), Owned(d, s) = 0,
         \A x \in Slot : Owned(d, x) # b, b \notin d.free, e.free = d.free,
         \A x \in Slot : Owned(e, x) = IF x = s THEN b ELSE Owned(d, x)
  PROVE  Sound(e) /\ Leads(d, e)
BY DEF Sound, Leads, Zone

(* Nor is it lost, when a slot leads to it.                                *)
LEMMA FullMore ==
  ASSUME NEW d, NEW e, NEW s \in Slot, NEW b \in Block, Owned(d, s) = 0, e.free = d.free,
         \A a \in Block : a \in d.free \/ a = b \/ \E x \in Slot : Owned(d, x) = a,
         \A x \in Slot : Owned(e, x) = IF x = s THEN b ELSE Owned(d, x)
  PROVE  Full(e)
<1> SUFFICES ASSUME NEW a \in Block, a \notin d.free
             PROVE  \E x \in Slot : Owned(e, x) = a
  BY DEF Full
<1>1. CASE a = b
  <2>1. Owned(e, s) = a
    BY <1>1
  <2>2. QED BY <2>1
<1>2. CASE a # b
  <2>1. PICK x \in Slot : Owned(d, x) = a
    BY <1>2
  <2>2. x # s
    BY <2>1, Geometry
  <2>3. Owned(e, x) = a
    BY <2>1, <2>2
  <2>4. QED BY <2>3
<1>3. QED BY <1>1, <1>2

(* Less leads to the same blocks.                                          *)
LEMMA SoundLess ==
  ASSUME NEW d \in Volume, NEW e, Sound(e), Leads(d, e), d.free = e.free,
         \A x \in Slot : Owned(d, x) \in Zone
  PROVE  Sound(d)
<1>0. 0 \notin d.free
  BY VolumeParts, Geometry
<1>1. \A x \in Slot : Owned(d, x) \notin d.free
  BY <1>0 DEF Sound, Leads, Zone
<1>2. QED BY <1>1 DEF Sound, Leads

-----------------------------------------------------------------------------
(* fs_balloc's two writes: a block leaves the free ones, and is cleared.   *)
Freed(d, b) == [d EXCEPT !.free = @ \ {b}, !.clean = FALSE]
Taken(d, b) == BlkSet(Freed(d, b), b, ZeroBlock)

(* The free list without a block.                                          *)
LEMMA FreedIs ==
  ASSUME NEW d \in Volume, NEW b
  PROVE  /\ Freed(d, b) \in Volume
         /\ Freed(d, b).ino = d.ino /\ Freed(d, b).blk = d.blk
         /\ Freed(d, b).free = d.free \ {b}
         /\ \A x \in Slot : Owned(Freed(d, b), x) = Owned(d, x)
<1>1. /\ Freed(d, b) \in Volume
      /\ Freed(d, b).ino = d.ino /\ Freed(d, b).blk = d.blk
      /\ Freed(d, b).free = d.free \ {b}
  BY DEF Freed, Volume
<1>2. QED BY <1>1, SuperChange

(* The block that fs_balloc took is cleared, and no slot leads to it.      *)
LEMMA TakenIs ==
  ASSUME NEW d \in Volume, NEW b \in d.free, Sound(d)
  PROVE  /\ b \in Block /\ Taken(d, b) \in Volume
         /\ Taken(d, b).ino = d.ino /\ Taken(d, b).blk[b] = ZeroBlock
         /\ Taken(d, b).free = d.free \ {b}
         /\ \A a \in Block : a # b => Taken(d, b).blk[a] = d.blk[a]
         /\ \A x \in Slot : Owned(Taken(d, b), x) = Owned(d, x) /\ Owned(d, x) # b
<1>1. b \in Block
  BY VolumeParts
<1>2. /\ Freed(d, b) \in Volume
      /\ Freed(d, b).ino = d.ino /\ Freed(d, b).blk = d.blk
      /\ Freed(d, b).free = d.free \ {b}
      /\ \A x \in Slot : Owned(Freed(d, b), x) = Owned(d, x)
  BY FreedIs
<1>3. \A x \in Slot : Owned(d, x) # b /\ Owned(d, x) \in Zone
  BY DEF Sound
<1>4. ZeroBlock \in Content
  BY Cells0
<1>5. \A i \in Inum : Owned(Freed(d, b), <<i, -1>>) # b
  BY <1>2, <1>3, SlotIn
<1>6. \A x \in Slot : Owned(Freed(d, b), x) \in Zone
  BY <1>2, <1>3
<1>7. \A x \in Slot : Owned(Taken(d, b), x) = Owned(Freed(d, b), x)
  BY <1>1, <1>2, <1>4, <1>5, <1>6, DataWrite DEF Taken
<1>8. /\ Taken(d, b) \in Volume /\ Taken(d, b).ino = Freed(d, b).ino
      /\ Taken(d, b).free = Freed(d, b).free /\ Taken(d, b).blk[b] = ZeroBlock
      /\ \A a \in Block : a # b => Taken(d, b).blk[a] = Freed(d, b).blk[a]
  BY <1>1, <1>2, <1>4, BlkSetIs DEF Taken
<1>9. QED BY <1>1, <1>2, <1>3, <1>7, <1>8

(* The volume reads as before while it is taken.                           *)
LEMMA TakenReads ==
  ASSUME NEW d \in Volume, NEW b \in d.free, Sound(d)
  PROVE  /\ Sound(Freed(d, b)) /\ Sound(Taken(d, b))
         /\ Reads(d, Freed(d, b)) /\ Reads(d, Taken(d, b))
<1>1. /\ b \in Block /\ Taken(d, b) \in Volume
      /\ Taken(d, b).ino = d.ino /\ Taken(d, b).blk[b] = ZeroBlock
      /\ Taken(d, b).free = d.free \ {b}
      /\ \A a \in Block : a # b => Taken(d, b).blk[a] = d.blk[a]
      /\ \A x \in Slot : Owned(Taken(d, b), x) = Owned(d, x) /\ Owned(d, x) # b
  BY TakenIs
<1>2. /\ Freed(d, b).blk = d.blk /\ Freed(d, b).free = d.free \ {b}
      /\ \A x \in Slot : Owned(Freed(d, b), x) = Owned(d, x)
  BY FreedIs
<1>3. Sound(Freed(d, b)) /\ Leads(d, Freed(d, b))
  BY <1>2, SoundSame
<1>4. Sound(Taken(d, b)) /\ Leads(d, Taken(d, b))
  BY <1>1, SoundSame
<1>5. \A x \in Slot : Owned(d, x) \in Zone
  BY DEF Sound
<1>6. \A x \in Slot : Owned(d, x) # 0 => Taken(d, b).blk[Owned(d, x)] = d.blk[Owned(d, x)]
  BY <1>1, <1>5 DEF Zone
<1>7. QED BY <1>2, <1>3, <1>4, <1>6 DEF Reads

-----------------------------------------------------------------------------
(* Entries, good volumes and writes.                                       *)

-----------------------------------------------------------------------------
(* The entries that name an inode, and the counts they bound.              *)
Named(d, i) == {e \in Entries(d) : CellAt(d, d.ino[e[1]], e[2] - 1).n = i}
(* No inode counts more links than entries that name it.                   *)
Linked(d) == \A i \in Inum : d.ino[i].nlink <= Cardinality(Named(d, i))

(* A cell of a file, in terms of the slot that leads to it.                *)
LEMMA CellAtIs ==
  ASSUME NEW d \in Volume, NEW i \in Inum, NEW off \in Nat, off < MaxCells
  PROVE  /\ off \div CPB \in 0 .. NDir + NInd - 1 /\ <<i, off \div CPB>> \in Slot
         /\ off % CPB \in 0 .. CPB - 1 /\ off % CPB \in 0 .. Width - 1
         /\ CellAt(d, d.ino[i], off) = IF Owned(d, <<i, off \div CPB>>) = 0 THEN ZeroCell
                                       ELSE d.blk[Owned(d, <<i, off \div CPB>>)][off % CPB]
<1>1. off \div CPB \in 0 .. NDir + NInd - 1 /\ <<i, off \div CPB>> \in Slot
  <2>1. off \in 0 .. MaxCells - 1
    BY Geometry
  <2>2. MaxCells \in 0 .. MaxCells
    BY Geometry
  <2>3. QED BY <2>1, <2>2, SlotOf
<1>2. off % CPB \in 0 .. CPB - 1
  BY Position
<1>3. off % CPB \in 0 .. Width - 1
  BY <1>2, Widths
<1> DEFINE q == off \div CPB
           r == off % CPB
<1>4. BlockAt(d, d.ino[i], q) = Owned(d, <<i, q>>)
  BY <1>1, OwnedIs
<1>5. CellAt(d, d.ino[i], off) = IF BlockAt(d, d.ino[i], q) = 0 THEN ZeroCell
                                 ELSE d.blk[BlockAt(d, d.ino[i], q)][r]
  BY DEF CellAt
<1> HIDE DEF q, r
<1>6. CellAt(d, d.ino[i], off) = IF Owned(d, <<i, q>>) = 0 THEN ZeroCell
                                 ELSE d.blk[Owned(d, <<i, q>>)][r]
  BY <1>4, <1>5
<1>7. QED BY <1>1, <1>2, <1>3, <1>6 DEF q, r

(* What an entry is.                                                       *)
LEMMA EntryIs ==
  ASSUME NEW d \in Volume, NEW e
  PROVE  e \in Entries(d) <=>
           /\ e \in Inum \X (1 .. MaxCells) /\ IsDir(d, e[1]) /\ e[2] <= d.ino[e[1]].size
           /\ CellAt(d, d.ino[e[1]], e[2] - 1).n # 0
BY DEF Entries

(* A cell below the size reads as before.                                  *)
LEMMA CellKept ==
  ASSUME NEW d \in Volume, NEW e \in Volume, Reads(d, e), NoHole(d),
         NEW i \in Inum, NEW off \in 0 .. d.ino[i].size - 1
  PROVE  CellAt(e, e.ino[i], off) = CellAt(d, d.ino[i], off)
<1>1. d.ino[i].size \in 0 .. MaxCells
  BY VolumeParts, InodeParts
<1>2. off \in Nat /\ off < MaxCells
  BY <1>1, SlotOf
<1> DEFINE q == off \div CPB
           r == off % CPB
<1>3. /\ <<i, q>> \in Slot /\ q \in 0 .. NDir + NInd - 1
      /\ CellAt(d, d.ino[i], off) = IF Owned(d, <<i, q>>) = 0 THEN ZeroCell
                                    ELSE d.blk[Owned(d, <<i, q>>)][r]
      /\ CellAt(e, e.ino[i], off) = IF Owned(e, <<i, q>>) = 0 THEN ZeroCell
                                    ELSE e.blk[Owned(e, <<i, q>>)][r]
  BY <1>2, CellAtIs
<1>4. Owned(d, <<i, q>>) # 0
  BY DEF NoHole
<1> HIDE DEF q, r
<1>5. <<i, q>>[2] >= 0
  BY <1>3
<1>6. /\ Owned(e, <<i, q>>) = Owned(d, <<i, q>>)
      /\ e.blk[Owned(d, <<i, q>>)] = d.blk[Owned(d, <<i, q>>)]
  BY <1>3, <1>4, <1>5 DEF Reads, Leads
<1>7. QED BY <1>3, <1>4, <1>6

(* The entries are what they were when the volume reads as before.         *)
LEMMA EntriesKept ==
  ASSUME NEW d \in Volume, NEW e \in Volume, Reads(d, e), NoHole(d),
         \A i \in Inum : /\ e.ino[i].size = d.ino[i].size
                        /\ (e.ino[i].mode = d.ino[i].mode \/ d.ino[i].size = 0)
  PROVE  /\ Entries(e) = Entries(d)
         /\ \A i : Named(e, i) = Named(d, i)
<1>1. ASSUME NEW x \in Inum \X (1 .. MaxCells), x[2] <= d.ino[x[1]].size
      PROVE  CellAt(e, e.ino[x[1]], x[2] - 1) = CellAt(d, d.ino[x[1]], x[2] - 1)
  <2>1. x[1] \in Inum /\ x[2] \in 1 .. MaxCells /\ x[2] - 1 \in 0 .. d.ino[x[1]].size - 1
    <3>1. x[1] \in Inum /\ x[2] \in 1 .. MaxCells
      OBVIOUS
    <3>2. d.ino[x[1]].size \in Nat
      BY <3>1, VolumeParts, InodeParts
    <3>3. QED BY <1>1, <3>1, <3>2, Geometry
  <2>2. QED BY <2>1, CellKept
<1>2. ASSUME NEW x \in Inum \X (1 .. MaxCells)
      PROVE  /\ e.ino[x[1]].size = d.ino[x[1]].size
             /\ x[2] <= d.ino[x[1]].size => (IsDir(e, x[1]) <=> IsDir(d, x[1]))
  <2>1. x[1] \in Inum /\ x[2] # 0 /\ x[2] \in Nat /\ ~ (x[2] <= 0)
    OBVIOUS
  <2>2. d.ino[x[1]].size # 0 => e.ino[x[1]].mode = d.ino[x[1]].mode
    BY <2>1
  <2>3. x[2] <= d.ino[x[1]].size => (IsDir(e, x[1]) <=> IsDir(d, x[1]))
    <3>1. CASE d.ino[x[1]].size = 0
      BY <3>1, <2>1
    <3>2. CASE d.ino[x[1]].size # 0
      BY <3>2, <2>2 DEF IsDir, Type
    <3>3. QED BY <3>1, <3>2
  <2>4. QED BY <2>1, <2>3
<1>3. Entries(e) = Entries(d)
  <2>1. ASSUME NEW x \in Inum \X (1 .. MaxCells) PROVE x \in Entries(e) <=> x \in Entries(d)
    <3>1. CASE x[2] <= d.ino[x[1]].size
      BY <3>1, <1>1, <1>2, EntryIs
    <3>2. CASE ~ (x[2] <= d.ino[x[1]].size)
      BY <3>2, <1>2, EntryIs
    <3>3. QED BY <3>1, <3>2
  <2>2. Entries(e) \subseteq Inum \X (1 .. MaxCells) /\ Entries(d) \subseteq Inum \X (1 .. MaxCells)
    BY DEF Entries
  <2>3. QED BY <2>1, <2>2
<1>4. ASSUME NEW x \in Entries(d)
      PROVE  CellAt(e, e.ino[x[1]], x[2] - 1) = CellAt(d, d.ino[x[1]], x[2] - 1)
  BY <1>1, EntryIs
<1>5. QED BY <1>3, <1>4 DEF Named

-----------------------------------------------------------------------------
(* What the root directory shows.                                          *)

(* A cell of inode i on the device.                                        *)
At(d, i, off) == CellAt(d, d.ino[i], off)

(* A root directory has the two entries of mkfs, and behind them names     *)
(* inodes in use.                                                          *)
Rooted(d) ==
  /\ d.ino[Root].size >= 2
  /\ \A k \in 0 .. d.ino[Root].size - 1 : At(d, Root, k).n \in Inum
  /\ \A k \in 2 .. d.ino[Root].size - 1 :
       At(d, Root, k).n # Root /\ d.ino[At(d, Root, k).n].flags = ALOC

(* An inode that the root directory does not show.                         *)
Hidden(d, i) == i # Root /\ \A k \in 2 .. d.ino[Root].size - 1 : At(d, Root, k).n # i

(* An inode has the same type and the same cells in e as in d.             *)
Same(d, e, j) ==
  /\ e.ino[j].flags = d.ino[j].flags /\ e.ino[j].size = d.ino[j].size
  /\ Type(e.ino[j].mode) = Type(d.ino[j].mode)
  /\ \A k \in 0 .. d.ino[j].size - 1 : At(e, j, k) = At(d, j, k)

(* Every cell of the root directory of d is there in e, and every inode it *)
(* may show but i is the same.                                             *)
Shows(d, e, i) ==
  /\ IsDir(d, Root) /\ IsDir(e, Root)
  /\ \A k \in 0 .. d.ino[Root].size - 1 : At(e, Root, k) = At(d, Root, k)
  /\ i = Root \/ Hidden(d, i)
  /\ \A j \in Inum : j # Root /\ j # i => Same(d, e, j)

(* The step of Namespace, or none, that a write makes.                     *)
Follows(d, e) ==
  \/ Visible(e) = Visible(d)
  \/ \E c \in CompleteEntries : Visible(e) = Append(Visible(d), c)

(* The cells of an inode, as a sequence.                                   *)
LEMMA CellsIs ==
  ASSUME NEW d \in Volume, NEW i \in Inum
  PROVE  /\ d.ino[i].size \in Nat
         /\ Cells(d, i) = [k \in 1 .. d.ino[i].size |-> At(d, i, k - 1)]
         /\ Len(Cells(d, i)) = d.ino[i].size
<1>1. d.ino[i].size \in Nat
  BY VolumeParts, InodeParts
<1>2. Cells(d, i) = [k \in 1 .. d.ino[i].size |-> At(d, i, k - 1)]
  BY DEF Cells, At
<1> DEFINE n == d.ino[i].size
           S == {At(d, i, k - 1) : k \in 1 .. n}
<1>3. Cells(d, i) \in [1 .. n -> S]
  BY <1>2
<1> HIDE DEF n, S
<1>4. Len(Cells(d, i)) = n
  <2>1. n \in Nat
    BY <1>1 DEF n
  <2>2. Cells(d, i) \in Seq(S) /\ DOMAIN Cells(d, i) = 1 .. n
    BY <1>3, <2>1
  <2>3. QED BY <2>1, <2>2, LenProperties
<1>5. QED BY <1>1, <1>2, <1>4 DEF n

(* What the root directory shows, cell by cell.                            *)
LEMMA VisibleIs ==
  ASSUME NEW d \in Volume, IsDir(d, Root)
  PROVE  Visible(d) = [k \in 1 .. d.ino[Root].size - 2 |-> Shown(d, At(d, Root, k + 1))]
<1> DEFINE n == d.ino[Root].size
           seen == Cells(d, Root)
<1>1. Root \in Inum
  BY Geometry
<1>2. n \in Nat /\ Len(seen) = n /\ seen = [k \in 1 .. n |-> At(d, Root, k - 1)]
  BY <1>1, CellsIs
<1>3. Visible(d) = [k \in 1 .. Len(seen) - 2 |-> Shown(d, seen[k + 2])]
  BY DEF Visible
<1> HIDE DEF n, seen
<1>4. \A k \in 1 .. n - 2 : seen[k + 2] = At(d, Root, k + 1)
  <2> SUFFICES ASSUME NEW k \in 1 .. n - 2 PROVE seen[k + 2] = At(d, Root, k + 1)
    OBVIOUS
  <2>1. k + 2 \in 1 .. n /\ (k + 2) - 1 = k + 1
    BY <1>2
  <2>2. QED BY <2>1, <1>2
<1>5. Visible(d) = [k \in 1 .. n - 2 |-> Shown(d, At(d, Root, k + 1))]
  BY <1>2, <1>3, <1>4
<1>6. QED BY <1>5 DEF n

(* An inode that is the same shows the same.                               *)
LEMMA ShownSame ==
  ASSUME NEW d \in Volume, NEW e \in Volume, NEW j \in Inum, Same(d, e, j), NEW c, c.n = j
  PROVE  Shown(e, c) = Shown(d, c)
<1>1. /\ Cells(d, j) = [k \in 1 .. d.ino[j].size |-> At(d, j, k - 1)]
      /\ Cells(e, j) = [k \in 1 .. e.ino[j].size |-> At(e, j, k - 1)]
      /\ d.ino[j].size \in Nat
  BY CellsIs
<1>2. \A k \in 1 .. d.ino[j].size : At(e, j, k - 1) = At(d, j, k - 1)
  <2> SUFFICES ASSUME NEW k \in 1 .. d.ino[j].size PROVE At(e, j, k - 1) = At(d, j, k - 1)
    OBVIOUS
  <2>1. k - 1 \in 0 .. d.ino[j].size - 1
    BY <1>1
  <2>2. QED BY <2>1 DEF Same
<1>3. Cells(e, j) = Cells(d, j)
  BY <1>1, <1>2 DEF Same
<1>4. Type(e.ino[j].mode) = Type(d.ino[j].mode)
  BY DEF Same
<1>5. QED BY <1>3, <1>4 DEF Shown

(* The entries of d show the same in e.                                    *)
LEMMA EntryKept ==
  ASSUME NEW d \in Volume, NEW e \in Volume, NEW i, Rooted(d), Shows(d, e, i),
         NEW k \in 2 .. d.ino[Root].size - 1
  PROVE  /\ Shown(e, At(e, Root, k)) = Shown(d, At(d, Root, k))
         /\ At(e, Root, k).n # Root /\ e.ino[At(e, Root, k).n].flags = ALOC
<1> DEFINE c == At(d, Root, k)
<1>1. k \in 0 .. d.ino[Root].size - 1
  <2>1. d.ino[Root].size \in Nat
    BY Geometry, VolumeParts, InodeParts
  <2>2. QED BY <2>1
<1>2. c.n \in Inum /\ c.n # Root /\ d.ino[c.n].flags = ALOC
  BY <1>1 DEF Rooted
<1>3. At(e, Root, k) = c
  BY <1>1 DEF Shows
<1>4. c.n # i
  BY <1>2 DEF Shows, Hidden
<1>5. Same(d, e, c.n)
  BY <1>2, <1>4 DEF Shows
<1> HIDE DEF c
<1>6. Shown(e, c) = Shown(d, c)
  BY <1>2, <1>5, ShownSame
<1>7. e.ino[c.n].flags = ALOC
  BY <1>2, <1>5 DEF Same
<1>8. QED BY <1>2, <1>3, <1>6, <1>7 DEF c

(* A write that shows nothing new.                                         *)
LEMMA VisibleSame ==
  ASSUME NEW d \in Volume, NEW e \in Volume, NEW i, Rooted(d), Shows(d, e, i),
         e.ino[Root].size = d.ino[Root].size
  PROVE  Visible(e) = Visible(d) /\ Rooted(e)
<1> DEFINE n == d.ino[Root].size
<1>1. n \in Nat
  BY Geometry, VolumeParts, InodeParts
<1>2. /\ Visible(d) = [k \in 1 .. n - 2 |-> Shown(d, At(d, Root, k + 1))]
      /\ Visible(e) = [k \in 1 .. n - 2 |-> Shown(e, At(e, Root, k + 1))]
  BY VisibleIs DEF Shows
<1>3. \A k \in 1 .. n - 2 : Shown(e, At(e, Root, k + 1)) = Shown(d, At(d, Root, k + 1))
  <2> SUFFICES ASSUME NEW k \in 1 .. n - 2
               PROVE  Shown(e, At(e, Root, k + 1)) = Shown(d, At(d, Root, k + 1))
    OBVIOUS
  <2>1. k + 1 \in 2 .. d.ino[Root].size - 1
    BY <1>1
  <2>2. QED BY <2>1, EntryKept
<1>4. Visible(e) = Visible(d)
  <2> HIDE DEF n
  <2>1. QED BY <1>2, <1>3
<1>5. \A k \in 0 .. n - 1 : At(e, Root, k).n \in Inum
  BY DEF Rooted, Shows
<1>6. \A k \in 2 .. n - 1 : At(e, Root, k).n # Root /\ e.ino[At(e, Root, k).n].flags = ALOC
  BY EntryKept
<1>7. n >= 2
  BY DEF Rooted
<1>8. QED BY <1>4, <1>5, <1>6, <1>7 DEF Rooted

(* A sequence that is one longer.                                          *)
LEMMA OneMore ==
  ASSUME NEW n \in Nat, NEW m, m = n + 1, NEW S, NEW f \in [1 .. n -> S],
         NEW g \in [1 .. m -> S], \A k \in 1 .. n : g[k] = f[k]
  PROVE  g = Append(f, g[m])
<1>1. m \in 1 .. m /\ g[m] \in S
  OBVIOUS
<1>2. f \in Seq(S) /\ Len(f) = n
  <2>1. f \in Seq(S) /\ DOMAIN f = 1 .. n
    OBVIOUS
  <2>2. QED BY <2>1, LenProperties
<1> DEFINE h == Append(f, g[m])
<1>3. /\ h \in Seq(S) /\ Len(h) = n + 1 /\ h[n + 1] = g[m]
      /\ \A k \in 1 .. n : h[k] = f[k]
  BY <1>1, <1>2, AppendProperties
<1> HIDE DEF h
<1>4. h \in [1 .. m -> S]
  BY <1>3, LenProperties
<1>5. \A k \in 1 .. m : h[k] = g[k]
  <2> SUFFICES ASSUME NEW k \in 1 .. m PROVE h[k] = g[k]
    OBVIOUS
  <2>1. k \in 1 .. n \/ k = m
    OBVIOUS
  <2>2. QED BY <2>1, <1>3
<1>6. h = g
  BY <1>4, <1>5
<1>7. QED BY <1>6 DEF h

(* A write that shows an entry behind those that are there.                *)
LEMMA VisibleMore ==
  ASSUME NEW d \in Volume, NEW e \in Volume, Rooted(d), Shows(d, e, Root),
         e.ino[Root].size = d.ino[Root].size + 1,
         NEW t \in Inum, t # Root, d.ino[t].flags = ALOC, NEW s,
         At(e, Root, d.ino[Root].size) = Cell(t, s)
  PROVE  Visible(e) = Append(Visible(d), Shown(d, Cell(t, s))) /\ Rooted(e)
<1> DEFINE n == d.ino[Root].size
           c == Cell(t, s)
<1>1. n \in Nat /\ n >= 2 /\ n - 2 \in Nat /\ (n + 1) - 2 = (n - 2) + 1
  BY Geometry, VolumeParts, InodeParts DEF Rooted
<1>2. /\ Visible(d) = [k \in 1 .. n - 2 |-> Shown(d, At(d, Root, k + 1))]
      /\ Visible(e) = [k \in 1 .. (n - 2) + 1 |-> Shown(e, At(e, Root, k + 1))]
  BY <1>1, VisibleIs DEF Shows
<1>3. \A k \in 1 .. n - 2 : Shown(e, At(e, Root, k + 1)) = Shown(d, At(d, Root, k + 1))
  <2> SUFFICES ASSUME NEW k \in 1 .. n - 2
               PROVE  Shown(e, At(e, Root, k + 1)) = Shown(d, At(d, Root, k + 1))
    OBVIOUS
  <2>1. k + 1 \in 2 .. d.ino[Root].size - 1
    BY <1>1
  <2>2. QED BY <2>1, EntryKept
<1>4. c.n = t
  BY DEF Cell
<1>5. Same(d, e, t)
  BY DEF Shows
<1>6. Shown(e, c) = Shown(d, c)
  <2> HIDE DEF c
  <2>1. QED BY <1>4, <1>5, ShownSame
<1>7. Visible(e)[(n - 2) + 1] = Shown(d, c)
  <2>1. (n - 2) + 1 \in 1 .. (n - 2) + 1 /\ ((n - 2) + 1) + 1 = n
    BY <1>1
  <2>2. At(e, Root, n) = c
    OBVIOUS
  <2> HIDE DEF n, c
  <2>3. QED BY <1>2, <1>6, <2>1, <2>2
<1>8. Visible(e) = Append(Visible(d), Visible(e)[(n - 2) + 1])
  <2> DEFINE m == (n - 2) + 1
             f == Visible(d)
             g == Visible(e)
             S == {g[k] : k \in 1 .. m}
  <2>1. n - 2 \in Nat /\ \A k \in 1 .. n - 2 : k \in 1 .. m
    BY <1>1
  <2>2. \A k \in 1 .. n - 2 : g[k] = f[k]
    BY <2>1, <1>2, <1>3
  <2>3. g \in [1 .. m -> S]
    BY <1>2
  <2>4. f \in [1 .. n - 2 -> S]
    <3>1. f = [k \in 1 .. n - 2 |-> f[k]] /\ \A k \in 1 .. n - 2 : f[k] \in S
      BY <1>2, <2>1, <2>2
    <3> HIDE DEF n, m, f, S
    <3>2. QED BY <3>1
  <2>5. m = (n - 2) + 1
    OBVIOUS
  <2> HIDE DEF n, m, f, g, S
  <2>6. g = Append(f, g[m])
    BY ONLY <2>1, <2>2, <2>3, <2>4, <2>5, OneMore
  <2>7. QED BY <2>6 DEF m, f, g
<1>9. \A k \in 0 .. n : At(e, Root, k).n \in Inum
  <2> SUFFICES ASSUME NEW k \in 0 .. n PROVE At(e, Root, k).n \in Inum
    OBVIOUS
  <2>1. CASE k = n
    BY <2>1, <1>4
  <2>2. CASE k \in 0 .. n - 1
    BY <2>2 DEF Rooted, Shows
  <2>3. k = n \/ k \in 0 .. n - 1
    BY <1>1
  <2>4. QED BY <2>1, <2>2, <2>3
<1>10. \A k \in 2 .. n : At(e, Root, k).n # Root /\ e.ino[At(e, Root, k).n].flags = ALOC
  <2> SUFFICES ASSUME NEW k \in 2 .. n
               PROVE  At(e, Root, k).n # Root /\ e.ino[At(e, Root, k).n].flags = ALOC
    OBVIOUS
  <2>1. CASE k = n
    BY <2>1, <1>4, <1>5 DEF Same
  <2>2. CASE k \in 2 .. n - 1
    BY <2>2, EntryKept
  <2>3. k = n \/ k \in 2 .. n - 1
    BY <1>1
  <2>4. QED BY <2>1, <2>2, <2>3
<1>11. (n + 1) - 1 = n /\ n + 1 >= 2
  BY <1>1
<1>12. Rooted(e)
  <2> HIDE DEF c
  <2>1. QED BY <1>9, <1>10, <1>11 DEF Rooted
<1>13. QED BY <1>7, <1>8, <1>12

-----------------------------------------------------------------------------
(* What a run may leave on the device.                                     *)
Good(d, l) ==
  /\ d \in Volume /\ Sound(d) /\ NoHole(d) /\ Unused(d)
  /\ l => Linked(d) /\ IsDir(d, Root) /\ Rooted(d)

(* The content that write k of a run in progress follows.                  *)
Before(s, k) == IF k = 1 THEN disk ELSE s[k - 1]

(* Every write so far showed at most one more entry, a complete one.       *)
Tells(s) == \A k \in 1 .. Len(s) : Follows(Before(s, k), s[k])

(* Every write of a run so far left a good volume, the last one dev.       *)
Logged(v, l) ==
  /\ Good(v.dev, l)
  /\ \A k \in 1 .. Len(v.log) : Good(v.log[k], l)
  /\ v.dev = IF Len(v.log) = 0 THEN disk ELSE v.log[Len(v.log)]
  /\ l => Tells(v.log)

(* A write that changes nothing an inode leads to shows what was shown.    *)
LEMMA VisibleCalm ==
  ASSUME NEW d \in Volume, NEW e \in Volume, NoHole(d), Reads(d, e), e.ino = d.ino,
         IsDir(d, Root), Rooted(d)
  PROVE  Visible(e) = Visible(d) /\ Rooted(e)
<1>1. \A j \in Inum : \A k \in 0 .. d.ino[j].size - 1 : At(e, j, k) = At(d, j, k)
  BY CellKept DEF At
<1>2. \A j \in Inum : Same(d, e, j)
  BY <1>1 DEF Same
<1>3. IsDir(e, Root)
  BY DEF IsDir
<1>4. Shows(d, e, Root)
  BY <1>1, <1>2, <1>3, Geometry DEF Shows
<1>5. QED BY <1>4, VisibleSame

(* A write that changes nothing an inode leads to.                         *)
LEMMA GoodCalm ==
  ASSUME NEW d, NEW l \in BOOLEAN, Good(d, l), NEW e \in Volume, Sound(e), Reads(d, e),
         e.ino = d.ino
  PROVE  Good(e, l) /\ (l => Visible(e) = Visible(d))
<1>1. d \in Volume /\ NoHole(d) /\ Unused(d)
  BY DEF Good
<1>2. NoHole(e)
  BY <1>1, HoleSame DEF Reads
<1>3. Unused(e)
  BY <1>1 DEF Unused
<1>4. l => Linked(e) /\ IsDir(e, Root)
  BY <1>1, EntriesKept DEF Good, Linked, IsDir
<1>5. l => Rooted(e) /\ Visible(e) = Visible(d)
  BY <1>1, VisibleCalm DEF Good
<1>6. QED BY <1>2, <1>3, <1>4, <1>5 DEF Good

(* The parts of a run.                                                     *)
LEMMA RunParts ==
  ASSUME NEW v \in Run
  PROVE  /\ v.dev \in Volume /\ v.ino \in [Inum -> InodeRecord] /\ v.log \in Seq(Volume)
         /\ v.r \in Int /\ Len(v.log) \in Nat
         /\ \A i \in Inum : v.ino[i] \in InodeRecord
BY DEF Run

(* A write of a good volume.                                               *)
LEMMA Emitted ==
  ASSUME NEW v \in Run, v.status = "ok", NEW d, NEW l \in BOOLEAN, Logged(v, l), Good(d, l),
         l => Follows(v.dev, d)
  PROVE  /\ Emit(v, d) \in Run /\ Emit(v, d).dev = d /\ Emit(v, d).ino = v.ino
         /\ Emit(v, d).r = v.r /\ Emit(v, d).status = "ok" /\ Logged(Emit(v, d), l)
<1>1. d \in Volume /\ v.log \in Seq(Volume)
  BY RunParts DEF Good
<1>2. /\ Append(v.log, d) \in Seq(Volume) /\ Len(Append(v.log, d)) = Len(v.log) + 1
      /\ Len(v.log) \in Nat
      /\ \A k \in 1 .. Len(v.log) : Append(v.log, d)[k] = v.log[k]
      /\ Append(v.log, d)[Len(v.log) + 1] = d
  BY <1>1
<1>3. Emit(v, d) = [v EXCEPT !.dev = d, !.log = Append(@, d)]
  BY DEF Emit
<1>4. /\ Emit(v, d) \in Run /\ Emit(v, d).dev = d /\ Emit(v, d).ino = v.ino
      /\ Emit(v, d).r = v.r /\ Emit(v, d).status = "ok" /\ Emit(v, d).log = Append(v.log, d)
  BY <1>1, <1>2, <1>3 DEF Run
<1>5. \A k \in 1 .. Len(v.log) + 1 : Good(Append(v.log, d)[k], l)
  <2> SUFFICES ASSUME NEW k \in 1 .. Len(v.log) + 1 PROVE Good(Append(v.log, d)[k], l)
    OBVIOUS
  <2>1. k \in 1 .. Len(v.log) \/ k = Len(v.log) + 1
    BY <1>2
  <2>2. QED BY <2>1, <1>2 DEF Logged
<1>6. l => Tells(Append(v.log, d))
  <2> SUFFICES ASSUME l, NEW k \in 1 .. Len(v.log) + 1
               PROVE  Follows(Before(Append(v.log, d), k), Append(v.log, d)[k])
    BY <1>2 DEF Tells
  <2> DEFINE s == Append(v.log, d)
             n == Len(v.log)
  <2>1. CASE k \in 1 .. n
    <3>1. Before(s, k) = Before(v.log, k) /\ s[k] = v.log[k]
      BY <2>1, <1>2 DEF Before
    <3>2. QED BY <3>1, <2>1 DEF Logged, Tells
  <2>2. CASE k = n + 1
    <3>1. Before(s, k) = v.dev
      <4>1. CASE n = 0
        BY <4>1, <2>2 DEF Before, Logged
      <4>2. CASE n # 0
        BY <4>2, <2>2, <1>2 DEF Before, Logged
      <4>3. QED BY <4>1, <4>2
    <3>2. s[k] = d
      BY <2>2, <1>2
    <3>3. QED BY <3>1, <3>2
  <2>3. k \in 1 .. n \/ k = n + 1
    BY <1>2
  <2>4. QED BY <2>1, <2>2, <2>3
<1>7. Logged(Emit(v, d), l)
  <2> DEFINE u == Emit(v, d)
  <2>1. u.dev = u.log[Len(u.log)] /\ Len(u.log) # 0
    BY <1>2, <1>4
  <2>2. Good(u.dev, l) /\ \A k \in 1 .. Len(u.log) : Good(u.log[k], l)
    BY <1>2, <1>4, <1>5
  <2>3. l => Tells(u.log)
    BY <1>4, <1>6
  <2> HIDE DEF u
  <2>4. QED BY <2>1, <2>2, <2>3 DEF Logged, u
<1>8. QED BY <1>4, <1>7

(* A run that is over writes nothing.                                      *)
LEMMA Silent ==
  ASSUME NEW v, v.status # "ok", NEW d
  PROVE  Emit(v, d) = v
BY DEF Emit

(* Writes of blocks and of inodes are replacements.                        *)
LEMMA Writes ==
  ASSUME NEW v, NEW b, NEW cells, NEW i, NEW p
  PROVE  /\ WriteBlk(v, b, cells) = Emit(v, BlkSet(v.dev, b, cells))
         /\ WriteIno(v, i, p) = Emit(v, InoSet(v.dev, i, p))
BY DEF WriteBlk, WriteIno, BlkSet, InoSet

(* fs_balloc takes a free block, or goes wild when there is none.          *)
LEMMA BallocIs ==
  ASSUME NEW v \in Run, v.status = "ok", NEW l \in BOOLEAN, Logged(v, l)
  PROVE  \/ Balloc(v) = [v EXCEPT !.status = "wild", !.r = 0]
         \/ \E b \in v.dev.free :
              LET w == Balloc(v) IN
                /\ w \in Run /\ w.dev = Taken(v.dev, b) /\ w.ino = v.ino /\ w.r = b
                /\ w.status = "ok" /\ Logged(w, l)
<1>1. CASE v.dev.free = {}
  BY <1>1 DEF Balloc
<1>2. CASE v.dev.free # {}
  <2> DEFINE d == v.dev
             b == Max(d.free)
             u == Emit(v, Freed(d, b))
             w == Emit(u, Taken(d, b))
  <2>1. d \in Volume /\ Sound(d) /\ Good(d, l) /\ d.free \subseteq Block
    BY VolumeParts DEF Logged, Good
  <2>2. b \in d.free
    <3>1. d.free \in SUBSET Nat /\ \A y \in d.free : y <= NData
      BY <2>1, Geometry DEF Block
    <3>2. QED BY <3>1, <1>2, MaxIs, Geometry
  <2> HIDE DEF b
  <2>3. /\ Freed(d, b) \in Volume /\ Freed(d, b).ino = d.ino
        /\ Taken(d, b) \in Volume /\ Taken(d, b).ino = d.ino
    BY <2>1, <2>2, FreedIs, TakenIs
  <2>4. /\ Sound(Freed(d, b)) /\ Sound(Taken(d, b))
        /\ Reads(d, Freed(d, b)) /\ Reads(d, Taken(d, b))
    BY <2>1, <2>2, TakenReads
  <2>5. /\ Good(Freed(d, b), l) /\ Good(Taken(d, b), l)
        /\ l => Follows(d, Freed(d, b)) /\ Follows(Freed(d, b), Taken(d, b))
    <3>1. /\ Good(Freed(d, b), l) /\ Good(Taken(d, b), l)
          /\ l => Visible(Freed(d, b)) = Visible(d) /\ Visible(Taken(d, b)) = Visible(d)
      BY <2>1, <2>3, <2>4, GoodCalm
    <3>2. QED BY <3>1 DEF Follows
  <2>6. /\ u \in Run /\ u.dev = Freed(d, b) /\ u.ino = v.ino /\ u.status = "ok" /\ Logged(u, l)
    BY <2>5, Emitted
  <2> HIDE DEF u
  <2>7. /\ w \in Run /\ w.dev = Taken(d, b) /\ w.ino = v.ino /\ w.status = "ok" /\ Logged(w, l)
    BY <2>5, <2>6, Emitted
  <2>8. Balloc(v) = [w EXCEPT !.r = b]
    <3>1. Balloc(v) = [WriteBlk(u, b, ZeroBlock) EXCEPT !.r = b]
      BY <1>2 DEF Balloc, u, b, Freed
    <3>2. WriteBlk(u, b, ZeroBlock) = Emit(u, BlkSet(u.dev, b, ZeroBlock))
      BY Writes
    <3>4. WriteBlk(u, b, ZeroBlock) = w
      <4>1. Taken(d, b) = BlkSet(u.dev, b, ZeroBlock)
        BY <2>6 DEF Taken
      <4>2. QED BY <3>2, <4>1
    <3>3. QED BY <3>1, <3>4
  <2> HIDE DEF w
  <2>9. b \in Int
    <3>1. b \in Block
      BY <2>1, <2>2
    <3>2. QED BY <3>1 DEF Block
  <2>10. /\ Balloc(v) \in Run /\ Balloc(v).dev = w.dev /\ Balloc(v).ino = w.ino /\ Balloc(v).r = b
         /\ Balloc(v).status = "ok" /\ Balloc(v).log = w.log
    BY <2>7, <2>8, <2>9 DEF Run
  <2>11. Logged(Balloc(v), l)
    BY <2>7, <2>10 DEF Logged
  <2>12. QED BY <2>2, <2>7, <2>10, <2>11
<1>3. QED BY <1>1, <1>2

-----------------------------------------------------------------------------
(* fs_balloc and bmap.                                                     *)

-----------------------------------------------------------------------------
(* A new result, a new inode in memory, and the end of a run.              *)
LEMMA WithResult ==
  ASSUME NEW v \in Run, NEW n \in Int, NEW w, w = [v EXCEPT !.r = n]
  PROVE  /\ w \in Run /\ w.dev = v.dev /\ w.ino = v.ino /\ w.log = v.log /\ w.r = n
         /\ w.status = v.status
BY DEF Run

(* A run with an inode in memory replaced.                                 *)
LEMMA WithInode ==
  ASSUME NEW v \in Run, NEW i \in Inum, NEW p \in InodeRecord, NEW w, w = SetIno(v, i, p)
  PROVE  /\ w \in Run /\ w.dev = v.dev /\ w.log = v.log /\ w.r = v.r
         /\ w.status = v.status /\ w.ino = [v.ino EXCEPT ![i] = p] /\ w.ino[i] = p
         /\ \A j \in Inum : j # i => w.ino[j] = v.ino[j]
<1>1. [v.ino EXCEPT ![i] = p] \in [Inum -> InodeRecord]
  BY RunParts
<1>2. w = [v EXCEPT !.ino = [v.ino EXCEPT ![i] = p]]
  BY DEF SetIno
<1>3. /\ w \in Run /\ w.dev = v.dev /\ w.log = v.log /\ w.r = v.r
      /\ w.status = v.status /\ w.ino = [v.ino EXCEPT ![i] = p]
  BY <1>1, <1>2 DEF Run
<1>4. QED BY <1>3, RunParts

(* A run that ends in another way.                                         *)
LEMMA WithStatus ==
  ASSUME NEW v \in Run, NEW s \in {"ok", "format", "dies", "wild"}, NEW w,
         w = [v EXCEPT !.status = s]
  PROVE  /\ w \in Run /\ w.dev = v.dev /\ w.ino = v.ino /\ w.log = v.log /\ w.r = v.r
         /\ w.status = s
BY DEF Run

(* A run that read past the free list.                                     *)
LEMMA WentWild ==
  ASSUME NEW v \in Run, NEW w, w = [v EXCEPT !.status = "wild", !.r = 0]
  PROVE  /\ w \in Run /\ w.dev = v.dev /\ w.ino = v.ino /\ w.log = v.log /\ w.r = 0
         /\ w.status = "wild"
<1>1. v = [dev |-> v.dev, ino |-> v.ino, log |-> v.log, r |-> v.r, status |-> v.status]
  BY DEF Run
<1>2. w = [dev |-> v.dev, ino |-> v.ino, log |-> v.log, r |-> 0, status |-> "wild"]
  BY <1>1
<1>3. v.dev \in Volume /\ v.ino \in [Inum -> InodeRecord] /\ v.log \in Seq(Volume)
  BY RunParts
<1>4. w \in Run
  BY <1>2, <1>3 DEF Run
<1>5. QED BY <1>2, <1>4

(* A run that read past the empty free list: it writes nothing more.       *)
Ended(v, l) == v \in Run /\ v.status = "wild" /\ Logged(v, l)

(* A run in the middle of a change of inode i: what it will have on the    *)
(* device is as sound as what is there.                                    *)
Ov(v, i) == InoSet(v.dev, i, v.ino[i])

(* A run within bmap for inode i, whose new zones are not on the device    *)
(* yet: with them (Ov) the volume is sound, and no slot is lost.           *)
Inside(v, i, l) ==
  /\ v \in Run /\ v.status = "ok" /\ Logged(v, l)
  /\ Sound(Ov(v, i)) /\ NoHole(Ov(v, i)) /\ Leads(v.dev, Ov(v, i))

(* What blocks that are allocated for inode i change.                      *)
SameMeta(p, q) == q.size = p.size /\ q.mode = p.mode /\ q.nlink = p.nlink /\ q.flags = p.flags

(* The blocks that slots of e lead to and slots of d do not are zeroed.    *)
Cleared(d, e) ==
  \A x \in Slot : x[2] >= 0 /\ Owned(d, x) = 0 /\ Owned(e, x) # 0 => e.blk[Owned(e, x)] = ZeroBlock

(* What bmap may change on the way from v to w.                            *)
Grew(v, w, i) ==
  /\ w.dev.ino = v.dev.ino /\ Reads(v.dev, w.dev)
  /\ Reads(Ov(v, i), Ov(w, i)) /\ Cleared(Ov(v, i), Ov(w, i))
  /\ Full(Ov(v, i)) => Full(Ov(w, i))
  /\ \A j \in Inum : j # i => w.ino[j] = v.ino[j]
  /\ SameMeta(v.ino[i], w.ino[i])

(* The volume with the inode of the memory in its place.                   *)
LEMMA OvIs ==
  ASSUME NEW v \in Run, NEW i \in Inum
  PROVE  /\ Ov(v, i) \in Volume /\ Ov(v, i).free = v.dev.free /\ Ov(v, i).blk = v.dev.blk
         /\ Ov(v, i).ino[i] = v.ino[i]
         /\ \A j \in Inum : j # i => Ov(v, i).ino[j] = v.dev.ino[j]
  BY RunParts, InoSetIs DEF Ov

LEMMA ClearedTransitive ==
  ASSUME NEW d, NEW e, NEW f, Cleared(d, e), Cleared(e, f), Reads(e, f)
  PROVE  Cleared(d, f)
<1> SUFFICES ASSUME NEW x \in Slot, x[2] >= 0, Owned(d, x) = 0, Owned(f, x) # 0
             PROVE  f.blk[Owned(f, x)] = ZeroBlock
  BY DEF Cleared
<1>1. CASE Owned(e, x) = 0
  BY <1>1 DEF Cleared
<1>2. CASE Owned(e, x) # 0
  BY <1>2 DEF Cleared, Reads, Leads
<1>3. QED BY <1>1, <1>2

LEMMA GrewTransitive ==
  ASSUME NEW u, NEW v, NEW w, NEW i, Grew(u, v, i), Grew(v, w, i)
  PROVE  Grew(u, w, i)
<1>1. Reads(u.dev, w.dev) /\ Reads(Ov(u, i), Ov(w, i))
  BY ReadsTransitive DEF Grew
<1>2. Cleared(Ov(u, i), Ov(w, i))
  BY ClearedTransitive DEF Grew
<1>3. SameMeta(u.ino[i], w.ino[i])
  BY DEF Grew, SameMeta
<1>4. QED BY <1>1, <1>2, <1>3 DEF Grew

(* Two changes of an inode, and a block taken under one.                   *)
LEMMA InoSetTwice ==
  ASSUME NEW d \in Volume, NEW i \in Inum, NEW p \in InodeRecord, NEW q \in InodeRecord
  PROVE  InoSet(InoSet(d, i, p), i, q) = InoSet(d, i, q)
<1>1. [[d.ino EXCEPT ![i] = p] EXCEPT ![i] = q] = [d.ino EXCEPT ![i] = q]
  BY DEF Volume
<1>2. QED BY <1>1 DEF InoSet, Volume

(* Taking a block and replacing an inode commute.                          *)
LEMMA TakenUnder ==
  ASSUME NEW d \in Volume, NEW i \in Inum, NEW p \in InodeRecord, NEW b
  PROVE  InoSet(Taken(d, b), i, p) = Taken(InoSet(d, i, p), b)
BY DEF InoSet, Taken, BlkSet, Freed, Volume

-----------------------------------------------------------------------------
(* The slot of a zone.                                                     *)
SlotFor(z) == IF z = SInd THEN -1 ELSE z

LEMMA ZoneSlot ==
  ASSUME NEW i \in Inum, NEW z \in 0 .. SInd, NEW d
  PROVE  <<i, SlotFor(z)>> \in Slot /\ Owned(d, <<i, SlotFor(z)>>) = d.ino[i].zones[z]
<1>1. CASE z = SInd
  BY <1>1, SlotIn, OwnedHead DEF SlotFor
<1>2. CASE z # SInd
  <2>1. z \in 0 .. NDir - 1
    BY <1>2, Geometry
  <2>2. QED BY <1>2, <2>1, SlotIn, OwnedDirect DEF SlotFor
<1>3. QED BY <1>1, <1>2

(* A free block is taken and becomes zone z of inode i.                    *)
LEMMA TakenZone ==
  ASSUME NEW d \in Volume, NEW i \in Inum, NEW z \in 0 .. SInd, NEW b \in d.free, Sound(d),
         d.ino[i].zones[z] = 0
  PROVE  LET e == InoSet(Taken(d, b), i, ZoneSet(d.ino[i], z, b)) IN
           /\ e \in Volume /\ Sound(e) /\ Reads(d, e) /\ Cleared(d, e) /\ (Full(d) => Full(e))
           /\ e.blk = Taken(d, b).blk /\ e.ino[i] = ZoneSet(d.ino[i], z, b)
<1> DEFINE t == Taken(d, b)
           s == <<i, SlotFor(z)>>
           p == ZoneSet(d.ino[i], z, b)
           e == InoSet(t, i, p)
<1>1. /\ b \in Block /\ t \in Volume /\ t.ino = d.ino /\ t.blk[b] = ZeroBlock
      /\ t.free = d.free \ {b}
      /\ \A x \in Slot : Owned(t, x) = Owned(d, x) /\ Owned(d, x) # b
  BY TakenIs
<1>2. Sound(t) /\ Reads(d, t)
  BY TakenReads
<1>3. p \in InodeRecord
  BY <1>1, VolumeParts, ZoneSetIs DEF Zone
<1>4. e \in Volume /\ e.free = t.free /\ e.blk = t.blk /\ e.ino[i] = p
  BY <1>1, <1>3, InoSetIs
<1>5. s \in Slot /\ Owned(t, s) = 0
  BY <1>1, ZoneSlot
<1>6. \A x \in Slot : Owned(e, x) = IF x = s THEN b ELSE Owned(t, x)
  <2>1. CASE z = SInd
    <3>1. \A k \in 0 .. NInd - 1 : t.blk[b][k].n = 0
      BY <1>1, Cells0, Widths
    <3>2. t.ino[i].zones[SInd] = 0 /\ s = <<i, -1>> /\ p = ZoneSet(t.ino[i], SInd, b)
      BY <1>1, <2>1 DEF SlotFor
    <3> HIDE DEF t, s, p
    <3>3. QED BY <1>1, <3>1, <3>2, NewIndirect
  <2>2. CASE z # SInd
    <3>1. z \in 0 .. NDir - 1 /\ s = <<i, z>>
      BY <2>2, Geometry DEF SlotFor
    <3>2. p = ZoneSet(t.ino[i], z, b)
      BY <1>1
    <3> HIDE DEF t, s, p
    <3>3. QED BY <1>1, <3>1, <3>2, NewDirect
  <2>3. QED BY <2>1, <2>2
<1> HIDE DEF t, s, p, e
<1>7. b \notin t.free /\ \A x \in Slot : Owned(t, x) # b
  BY <1>1
<1>8. Sound(e) /\ Leads(t, e)
  BY <1>1, <1>2, <1>4, <1>5, <1>6, <1>7, SoundMore
<1>9. Reads(d, e)
  <2>1. Reads(t, e)
    BY <1>4, <1>8 DEF Reads
  <2>2. QED BY <2>1, <1>2, ReadsTransitive
<1>10. ASSUME Full(d) PROVE Full(e)
  <2>1. \A a \in Block : a \in t.free \/ a = b \/ \E x \in Slot : Owned(t, x) = a
    BY <1>1, <1>10 DEF Full
  <2>2. QED BY <1>1, <1>4, <1>5, <1>6, <2>1, FullMore
<1>11. Cleared(d, e)
  BY <1>1, <1>4, <1>6 DEF Cleared
<1>12. QED BY <1>4, <1>8, <1>9, <1>10, <1>11 DEF t, p, e

(* bmap on a zone: it finds a block, allocates one, or goes wild.          *)
LEMMA ZoneOfIs ==
  ASSUME NEW i \in Inum, NEW l \in BOOLEAN, NEW v, Inside(v, i, l), NEW z \in 0 .. SInd
  PROVE  LET w == ZoneOf(v, i, z) IN
           \/ Ended(w, l) /\ w.r = 0
           \/ /\ Inside(w, i, l) /\ Grew(v, w, i)
              /\ w.r = w.ino[i].zones[z] /\ w.r \in Block
<1> DEFINE w == ZoneOf(v, i, z)
           o == Ov(v, i)
<1>0. /\ v \in Run /\ v.status = "ok" /\ Logged(v, l) /\ v.dev \in Volume /\ Sound(v.dev)
      /\ v.ino \in [Inum -> InodeRecord] /\ v.ino[i] \in InodeRecord /\ v.ino[i].zones[z] \in Zone
  BY RunParts, InodeParts DEF Inside, Logged, Good
<1>00. /\ o \in Volume /\ o.free = v.dev.free /\ o.blk = v.dev.blk /\ o.ino[i] = v.ino[i]
       /\ Sound(o) /\ NoHole(o) /\ Leads(v.dev, o)
  BY <1>0, OvIs DEF Inside
<1>1. CASE v.ino[i].zones[z] # 0
  <2>1. w = [v EXCEPT !.r = v.ino[i].zones[z]]
    BY <1>1 DEF ZoneOf
  <2>2. v.ino[i].zones[z] \in Block /\ v.ino[i].zones[z] \in Int
    BY <1>0, <1>1 DEF Zone, Block
  <2>3. /\ w \in Run /\ w.dev = v.dev /\ w.ino = v.ino /\ w.log = v.log /\ w.status = "ok"
        /\ w.r = v.ino[i].zones[z]
    BY <1>0, <2>1, <2>2 DEF Run
  <2> HIDE DEF w
  <2>4. Logged(w, l) /\ Ov(w, i) = o
    BY <1>0, <2>3 DEF Logged, Ov
  <2>5. Inside(w, i, l)
    BY <1>00, <2>3, <2>4 DEF Inside
  <2>6. Grew(v, w, i)
    BY <2>3, <2>4 DEF Grew, Reads, Leads, SameMeta, Cleared
  <2>7. QED BY <2>2, <2>3, <2>5, <2>6 DEF w
<1>2. CASE v.ino[i].zones[z] = 0
  <2> DEFINE u == Balloc(v)
  <2>1. w = [u EXCEPT !.ino = [@ EXCEPT ![i] = [u.ino[i] EXCEPT !.zones = [@ EXCEPT ![z] = u.r]]]]
    BY <1>2 DEF ZoneOf, SetZone, SetIno
  <2>2. CASE u = [v EXCEPT !.status = "wild", !.r = 0]
    <3>1. /\ u \in Run /\ u.dev = v.dev /\ u.log = v.log /\ u.ino = v.ino /\ u.r = 0
          /\ u.status = "wild"
      BY <1>0, <2>2, WentWild
    <3>2. [u.ino[i] EXCEPT !.zones = [@ EXCEPT ![z] = u.r]] \in InodeRecord
      BY <1>0, <3>1, InodeChange DEF Zone
    <3> HIDE DEF u
    <3>3. w \in Run /\ w.dev = v.dev /\ w.log = v.log /\ w.status = "wild" /\ w.r = 0
      BY <1>0, <2>1, <3>1, <3>2 DEF Run
    <3> HIDE DEF w
    <3>4. Ended(w, l)
      BY <1>0, <3>3 DEF Ended, Logged
    <3>5. QED BY <3>3, <3>4 DEF w
  <2>3. CASE \E b \in v.dev.free :
               /\ u \in Run /\ u.dev = Taken(v.dev, b) /\ u.ino = v.ino /\ u.r = b
               /\ u.status = "ok" /\ Logged(u, l)
    <3>1. PICK b \in v.dev.free :
               /\ u \in Run /\ u.dev = Taken(v.dev, b) /\ u.ino = v.ino /\ u.r = b
               /\ u.status = "ok" /\ Logged(u, l)
      BY <2>3
    <3> HIDE DEF u
    <3> DEFINE p == ZoneSet(v.ino[i], z, b)
    <3>2. b \in Block /\ b \in Zone /\ p \in InodeRecord /\ p.zones[z] = b /\ SameMeta(v.ino[i], p)
      <4>1. b \in Block /\ b \in Zone
        BY <1>0, <3>1, VolumeParts DEF Zone
      <4>2. QED BY <4>1, <1>0, ZoneSetIs DEF SameMeta
    <3>3. w = [u EXCEPT !.ino = [@ EXCEPT ![i] = p]]
      BY <2>1, <3>1 DEF ZoneSet
    <3> HIDE DEF p
    <3>4. /\ w \in Run /\ w.dev = Taken(v.dev, b) /\ w.log = u.log /\ w.status = "ok" /\ w.r = b
          /\ w.ino[i] = p /\ \A j \in Inum : j # i => w.ino[j] = v.ino[j]
      BY <1>0, <3>1, <3>2, <3>3 DEF Run
    <3> HIDE DEF w
    <3>5. Ov(w, i) = InoSet(Taken(o, b), i, ZoneSet(o.ino[i], z, b))
      <4>1. Taken(o, b) = InoSet(Taken(v.dev, b), i, v.ino[i])
        BY <1>0, TakenUnder DEF Ov
      <4>2. Taken(v.dev, b) \in Volume
        BY <1>0, TakenIs
      <4>3. Ov(w, i) = InoSet(Taken(v.dev, b), i, p)
        BY <3>4 DEF Ov
      <4>4. QED BY <4>1, <4>2, <4>3, <1>0, <1>00, <3>2, InoSetTwice DEF p
    <3> HIDE DEF o
    <3>6. /\ Ov(w, i) \in Volume /\ Sound(Ov(w, i)) /\ Reads(o, Ov(w, i)) /\ Cleared(o, Ov(w, i))
          /\ Full(o) => Full(Ov(w, i))
          /\ Ov(w, i).blk = Taken(o, b).blk
      BY <1>00, <1>2, <3>5, TakenZone
    <3>7. NoHole(Ov(w, i))
      <4>1. \A j \in Inum : Ov(w, i).ino[j].size = o.ino[j].size
        <5>1. \A j \in Inum : j # i => w.dev.ino[j] = v.dev.ino[j]
          BY <1>0, <3>4, TakenIs
        <5>2. QED BY <5>1, <1>0, <3>2, <3>4, OvIs DEF o, SameMeta
      <4>2. QED BY <4>1, <1>00, <3>6, HoleSame DEF Reads
    <3>8. /\ Reads(v.dev, w.dev) /\ w.dev.ino = v.dev.ino
          /\ \A x \in Slot : Owned(w.dev, x) = Owned(v.dev, x)
      BY <1>0, <3>4, TakenIs, TakenReads
    <3>9. Leads(w.dev, Ov(w, i))
      BY <1>00, <3>6, <3>8 DEF Reads, Leads
    <3>10. Logged(w, l)
      BY <3>1, <3>4 DEF Logged
    <3>11. Inside(w, i, l)
      BY <3>4, <3>6, <3>7, <3>9, <3>10 DEF Inside
    <3>12. Grew(v, w, i)
      BY <3>2, <3>4, <3>6, <3>8 DEF Grew, o
    <3>13. QED BY <3>2, <3>4, <3>11, <3>12 DEF w
  <2>4. QED BY <1>0, <2>2, <2>3, BallocIs
<1>3. QED BY <1>1, <1>2

(* A free block is taken and becomes address k of block p, which is the    *)
(* indirect block of inode i, or nothing's yet.                            *)
Entered(cells, k, n) == [cells EXCEPT ![k] = Cell(n, "")]
Addressed(d, p, k, b) == BlkSet(Taken(d, b), p, Entered(d.blk[p], k, b))

(* An indirect block with one address replaced.                            *)
LEMMA EnteredIs ==
  ASSUME NEW cells \in Content, NEW k \in 0 .. Width - 1, NEW n \in Nat
  PROVE  Entered(cells, k, n) \in Content /\ Entered(cells, k, n)[k].n = n
<1> DEFINE c == Cell(n, "")
           new == Entered(cells, k, n)
<1>1. c \in CellSet /\ c.n = n
  BY Cells0 DEF Cell
<1>2. new = [cells EXCEPT ![k] = c]
  BY DEF Entered
<1> HIDE DEF c, new
<1>3. new \in Content /\ new[k].n = n
  BY <1>1, <1>2 DEF Content
<1>4. QED BY <1>3 DEF new

LEMMA EnteredOther ==
  ASSUME NEW cells \in Content, NEW k \in 0 .. Width - 1, NEW n, NEW m \in 0 .. Width - 1, m # k
  PROVE  Entered(cells, k, n)[m] = cells[m]
<1> DEFINE c == Cell(n, "")
<1>1. Entered(cells, k, n) = [cells EXCEPT ![k] = c]
  BY DEF Entered
<1> HIDE DEF c
<1>2. QED BY <1>1 DEF Content

(* Only the indirect zone of inode i can lead to block p.                  *)
Sole(d, i, p) ==
  /\ d.ino[i].zones[SInd] \in {0, p}
  /\ \A x \in Slot : Owned(d, x) = p => x = <<i, -1>>

(* A block that is taken and becomes an address of the indirect block p of *)
(* inode i, which may not be on the device as such yet.                    *)
LEMMA TakenAddress ==
  ASSUME NEW d \in Volume, Sound(d), NEW b \in d.free, NEW i \in Inum,
         NEW p \in Block, p \notin d.free,
         NEW k \in 0 .. NInd - 1, d.blk[p][k].n = 0, Sole(d, i, p)
  PROVE  /\ Addressed(d, p, k, b) \in Volume /\ Addressed(d, p, k, b).ino = d.ino
         /\ Sound(Addressed(d, p, k, b)) /\ Reads(d, Addressed(d, p, k, b))
         /\ \A x \in Slot : x # <<i, NDir + k>> => Owned(Addressed(d, p, k, b), x) = Owned(d, x)
         /\ Owned(Addressed(d, p, k, b), <<i, NDir + k>>) \in {0, b}
         /\ d.ino[i].zones[SInd] = p =>
              /\ Owned(Addressed(d, p, k, b), <<i, NDir + k>>) = b
              /\ Cleared(d, Addressed(d, p, k, b)) /\ (Full(d) => Full(Addressed(d, p, k, b)))
<1> DEFINE t == Taken(d, b)
           cells == Entered(d.blk[p], k, b)
           s == <<i, NDir + k>>
           e == Addressed(d, p, k, b)
<1>0. /\ d.ino[i].zones[SInd] \in {0, p}
      /\ \A x \in Slot : Owned(d, x) = p => x = <<i, -1>>
  BY DEF Sole
<1>1. /\ b \in Block /\ t \in Volume /\ t.ino = d.ino /\ t.blk[b] = ZeroBlock
      /\ t.free = d.free \ {b}
      /\ \A a \in Block : a # b => t.blk[a] = d.blk[a]
      /\ \A x \in Slot : Owned(t, x) = Owned(d, x) /\ Owned(d, x) # b
  BY TakenIs
<1>2. Sound(t) /\ Reads(d, t)
  BY TakenReads
<1>3. b # p /\ t.blk[p] = d.blk[p]
  BY <1>1
<1>4. k \in 0 .. Width - 1 /\ d.blk[p] \in Content /\ b \in Nat
  <2>1. k \in 0 .. Width - 1 /\ b \in Nat
    BY <1>1, Widths, Geometry
  <2>2. d.blk[p] \in Content
    BY DEF Volume
  <2>3. QED BY <2>1, <2>2
<1>5. /\ cells \in Content /\ cells[k].n = b
      /\ \A m \in 0 .. Width - 1 : m # k => cells[m] = d.blk[p][m]
  <2>1. cells \in Content /\ cells[k].n = b
    BY <1>4, EnteredIs
  <2>2. ASSUME NEW m \in 0 .. Width - 1, m # k PROVE cells[m] = d.blk[p][m]
    <3> DEFINE q == d.blk[p]
    <3>1. q \in Content
      BY <1>4
    <3> HIDE DEF q
    <3>2. Entered(q, k, b)[m] = q[m]
      BY <2>2, <3>1, <1>4, EnteredOther
    <3>3. QED BY <3>2 DEF q
  <2>3. QED BY <2>1, <2>2
<1> HIDE DEF cells, t
<1>6. e = BlkSet(t, p, cells)
  BY DEF Addressed, cells, t
<1> HIDE DEF e
<1>50. \A m \in 0 .. NInd - 1 : m # k => cells[m].n = d.blk[p][m].n
  BY <1>5, Widths
<1>7. /\ e \in Volume /\ e.ino = t.ino /\ e.free = t.free /\ e.blk[p] = cells
      /\ \A a \in Block : a # p => e.blk[a] = t.blk[a]
  <2>1. t \in Volume /\ cells \in Content
    BY <1>1, <1>5
  <2>2. QED BY <2>1, <1>6, BlkSetIs
<1>8. \A x \in Slot : Owned(t, x) \in Zone
  BY <1>2 DEF Sound
<1>9. s \in Slot /\ s[2] >= 0
  <2>1. NDir + k >= 0
    BY Geometry
  <2>2. s \in Slot
    BY SlotIn
  <2>3. s[2] = NDir + k
    OBVIOUS
  <2>4. QED BY <2>1, <2>2, <2>3
<1>10. \A x \in Slot : x[2] >= 0 => Owned(d, x) # p
  BY <1>0, Geometry
<1>11. \A x \in Slot : x[2] >= 0 /\ Owned(t, x) # 0 => e.blk[Owned(t, x)] = t.blk[Owned(t, x)]
  BY <1>1, <1>7, <1>8, <1>10 DEF Zone
<1>12. CASE d.ino[i].zones[SInd] = p
  <2>1. t.ino[i].zones[SInd] = p /\ p # 0
    BY <1>1, <1>12, Geometry
  <2>2. \A j \in Inum : j # i => t.ino[j].zones[SInd] # p
    <3> SUFFICES ASSUME NEW j \in Inum, j # i PROVE d.ino[j].zones[SInd] # p
      BY <1>1
    <3>1. <<j, -1>> \in Slot /\ Owned(d, <<j, -1>>) = d.ino[j].zones[SInd]
      BY SlotIn, OwnedHead
    <3>2. <<j, -1>> # <<i, -1>>
      OBVIOUS
    <3>3. QED BY <3>1, <3>2, <1>0
  <2>3. \A x \in Slot : Owned(e, x) = IF x = s THEN b ELSE Owned(t, x)
    <3>1. t.blk[t.ino[i].zones[SInd]] = d.blk[p]
      BY <2>1, <1>3
    <3>2. \A m \in 0 .. NInd - 1 : m # k => cells[m].n = t.blk[t.ino[i].zones[SInd]][m].n
      BY <3>1, <1>50
    <3>3. \A x \in Slot : Owned(BlkSet(t, t.ino[i].zones[SInd], cells), x)
                           = IF x = <<i, NDir + k>> THEN b ELSE Owned(t, x)
      BY <1>1, <1>5, <1>8, <2>1, <2>2, <3>2, NewAddress
    <3>4. QED BY <3>3, <2>1, <1>6
  <2>4. Owned(t, s) = 0
    <3>1. Owned(t, s) = t.blk[p][k].n
      <4>1. Owned(t, s) = IF t.ino[i].zones[SInd] = 0 THEN 0 ELSE t.blk[t.ino[i].zones[SInd]][k].n
        BY OwnedFar
      <4>2. QED BY <4>1, <2>1
    <3>2. QED BY <3>1, <1>3
  <2> HIDE DEF s
  <2>5. b \notin t.free /\ \A x \in Slot : Owned(t, x) # b
    BY <1>1
  <2>6. Sound(e) /\ Leads(t, e)
    <3>1. b \in Block /\ s \in Slot /\ e.free = t.free /\ Sound(t)
      BY <1>1, <1>2, <1>7, <1>9
    <3>2. QED BY <2>3, <2>4, <2>5, <3>1, SoundMore
  <2>7. Reads(d, e)
    <3>1. Reads(t, e)
      BY <2>6, <1>11 DEF Reads
    <3>2. QED BY <3>1, <1>2, ReadsTransitive
  <2>8. ASSUME Full(d) PROVE Full(e)
    <3>1. \A a \in Block : a \in t.free \/ a = b \/ \E x \in Slot : Owned(t, x) = a
      BY <1>1, <2>8 DEF Full
    <3>2. b \in Block /\ s \in Slot /\ e.free = t.free
      BY <1>1, <1>7, <1>9
    <3>3. QED BY <2>3, <2>4, <3>1, <3>2, FullMore
  <2>9. Owned(e, s) = b
    BY <2>3, <1>9
  <2>10. Cleared(d, e)
    <3>1. e.blk[b] = ZeroBlock
      BY <1>1, <1>3, <1>7
    <3>2. QED BY <3>1, <1>1, <2>3 DEF Cleared
  <2>11. \A x \in Slot : x # s => Owned(e, x) = Owned(d, x)
    BY <1>1, <2>3
  <2>12. e \in Volume /\ e.ino = d.ino /\ Sound(e)
    BY <1>1, <1>7, <2>6
  <2>13. QED BY <2>12, <2>11, <2>7, <2>8, <2>9, <2>10 DEF e, s
<1>13. CASE d.ino[i].zones[SInd] = 0
  <2>1. \A j \in Inum : Owned(t, <<j, -1>>) # p
    <3> SUFFICES ASSUME NEW j \in Inum PROVE Owned(t, <<j, -1>>) # p
      OBVIOUS
    <3>1. /\ <<j, -1>> \in Slot /\ Owned(t, <<j, -1>>) = t.ino[j].zones[SInd]
          /\ Owned(t, <<j, -1>>) = Owned(d, <<j, -1>>)
      BY <1>1, SlotIn, OwnedHead
    <3>2. CASE j = i
      BY <3>2, <3>1, <1>1, <1>13, Geometry
    <3>3. CASE j # i
      <4>1. <<j, -1>> # <<i, -1>>
        BY <3>3
      <4>2. QED BY <4>1, <3>1, <1>0
    <3>4. QED BY <3>2, <3>3
  <2>2. \A x \in Slot : Owned(e, x) = Owned(t, x)
    BY <1>1, <1>5, <1>6, <1>8, <2>1, DataWrite
  <2>3. Sound(e) /\ Leads(t, e)
    BY <1>2, <1>7, <2>2, SoundSame
  <2>4. Reads(d, e)
    <3>1. Reads(t, e)
      BY <2>3, <1>11 DEF Reads
    <3>2. QED BY <3>1, <1>2, ReadsTransitive
  <2>5. p # 0
    BY Geometry
  <2>6. Owned(d, s) = 0
    <3>1. Owned(d, s) = IF d.ino[i].zones[SInd] = 0 THEN 0 ELSE d.blk[d.ino[i].zones[SInd]][k].n
      BY OwnedFar
    <3>2. QED BY <3>1, <1>13
  <2>7. \A x \in Slot : Owned(e, x) = Owned(d, x)
    BY <1>1, <2>2
  <2>8. Owned(e, s) = 0
    BY <1>9, <2>6, <2>7
  <2>9. e \in Volume /\ e.ino = d.ino /\ Sound(e)
    BY <1>1, <1>7, <2>3
  <2>10. QED BY <1>13, <2>4, <2>5, <2>7, <2>8, <2>9 DEF e, s
<1>14. QED BY <1>0, <1>12, <1>13

(* That and replacing an inode commute.                                    *)
LEMMA AddressedUnder ==
  ASSUME NEW d \in Volume, NEW i \in Inum, NEW q \in InodeRecord, NEW p, NEW k, NEW b
  PROVE  InoSet(Addressed(d, p, k, b), i, q) = Addressed(InoSet(d, i, q), p, k, b)
<1> DEFINE cells == Entered(d.blk[p], k, b)
           t == Taken(d, b)
<1>1. InoSet(t, i, q) = Taken(InoSet(d, i, q), b)
  BY TakenUnder
<1>2. InoSet(d, i, q).blk = d.blk
  BY InoSetIs
<1>3. InoSet(BlkSet(t, p, cells), i, q) = BlkSet(InoSet(t, i, q), p, cells)
  BY DEF InoSet, BlkSet, Volume, t, Taken, Freed
<1>4. Addressed(d, p, k, b) = BlkSet(t, p, cells)
  BY DEF Addressed
<1>5. Addressed(InoSet(d, i, q), p, k, b) = BlkSet(Taken(InoSet(d, i, q), b), p, cells)
  BY <1>2 DEF Addressed
<1> HIDE DEF t, cells
<1>6. QED BY <1>1, <1>3, <1>4, <1>5

(* bmap on an address of the indirect block.                               *)
LEMMA AddressOfIs ==
  ASSUME NEW i \in Inum, NEW l \in BOOLEAN, NEW v, Inside(v, i, l), NEW k \in 0 .. NInd - 1,
         v.r = v.ino[i].zones[SInd], v.r \in Block
  PROVE  LET w == AddressOf(v, k) IN
           \/ Ended(w, l) /\ w.r = 0
           \/ /\ Inside(w, i, l) /\ Grew(v, w, i)
              /\ w.r = Owned(Ov(w, i), <<i, NDir + k>>) /\ w.r \in Block
<1> DEFINE w == AddressOf(v, k)
           o == Ov(v, i)
           p == v.r
           s == <<i, NDir + k>>
<1>0. /\ v \in Run /\ v.status = "ok" /\ Logged(v, l) /\ v.dev \in Volume /\ Sound(v.dev)
      /\ v.ino \in [Inum -> InodeRecord] /\ v.ino[i] \in InodeRecord
  BY RunParts DEF Inside, Logged, Good
<1>00. /\ o \in Volume /\ o.free = v.dev.free /\ o.blk = v.dev.blk /\ o.ino[i] = v.ino[i]
       /\ Sound(o) /\ NoHole(o) /\ Leads(v.dev, o)
  BY <1>0, OvIs DEF Inside
<1> HIDE DEF o
<1>1. p \in Block /\ p # 0 /\ p \in Int
  <2>1. v.r \in Nat
    BY DEF Block
  <2>2. v.r # 0
    BY DEF Block
  <2>3. QED BY <2>1, <2>2
<1>2. o.ino[i].zones[SInd] = p
  BY <1>00
<1>3. /\ <<i, -1>> \in Slot /\ Owned(o, <<i, -1>>) = p
      /\ Owned(v.dev, <<i, -1>>) = v.dev.ino[i].zones[SInd]
  BY <1>2, SlotIn, OwnedHead
<1>4. p \notin o.free /\ p \notin v.dev.free
  BY <1>3, <1>00 DEF Sound
<1>5. \A x \in Slot : Owned(o, x) = p => x = <<i, -1>>
  BY <1>3, <1>00, <1>1 DEF Sound
<1>6. \A x \in Slot : Owned(v.dev, x) = p => x = <<i, -1>>
  BY <1>5, <1>00, <1>1 DEF Leads
<1>7. v.dev.ino[i].zones[SInd] \in {0, p}
  BY <1>3, <1>00 DEF Leads
<1>71. Sole(o, i, p) /\ Sole(v.dev, i, p)
  BY <1>2, <1>5, <1>6, <1>7 DEF Sole
<1>8. s \in Slot /\ Owned(o, s) = v.dev.blk[p][k].n
  <2>1. Owned(o, s) = IF o.ino[i].zones[SInd] = 0 THEN 0 ELSE o.blk[o.ino[i].zones[SInd]][k].n
    BY OwnedFar
  <2>2. s \in Slot
    BY SlotIn
  <2>3. QED BY <2>1, <2>2, <1>1, <1>2, <1>00
<1> HIDE DEF p, s
<1>9. CASE v.dev.blk[p][k].n # 0
  <2>1. w = [v EXCEPT !.r = v.dev.blk[p][k].n]
    BY <1>9, <1>1 DEF AddressOf, p
  <2>2. v.dev.blk[p][k].n \in Block /\ v.dev.blk[p][k].n \in Int
    <3>1. Owned(o, s) \in Zone
      BY <1>8, <1>00 DEF Sound
    <3>2. QED BY <3>1, <1>8, <1>9 DEF Zone, Block
  <2> HIDE DEF w
  <2>3. /\ w \in Run /\ w.dev = v.dev /\ w.ino = v.ino /\ w.log = v.log /\ w.status = "ok"
        /\ w.r = v.dev.blk[p][k].n
    BY <1>0, <2>1, <2>2, WithResult
  <2>4. Logged(w, l) /\ Ov(w, i) = o
    BY <1>0, <2>3 DEF Logged, Ov, o
  <2>5. Inside(w, i, l)
    BY <1>00, <2>3, <2>4 DEF Inside
  <2>6. Grew(v, w, i)
    BY <2>3, <2>4 DEF Grew, Reads, Leads, SameMeta, Cleared, o
  <2>7. QED BY <1>8, <2>2, <2>3, <2>4, <2>5, <2>6 DEF w, s
<1>10. CASE v.dev.blk[p][k].n = 0
  <2> DEFINE u == Balloc(v)
  <2>1. w = WriteBlk(u, p, [u.dev.blk[p] EXCEPT ![k] = Cell(u.r, "")])
    BY <1>10, <1>1 DEF AddressOf, SetAddress, p
  <2>2. w = Emit(u, BlkSet(u.dev, p, Entered(u.dev.blk[p], k, u.r)))
    BY <2>1, Writes DEF Entered
  <2>3. CASE u = [v EXCEPT !.status = "wild", !.r = 0]
    <3>1. /\ u \in Run /\ u.dev = v.dev /\ u.log = v.log /\ u.ino = v.ino /\ u.r = 0
          /\ u.status = "wild"
      BY <1>0, <2>3, WentWild
    <3> HIDE DEF u
    <3>2. w = u
      BY <2>2, <3>1, Silent
    <3>3. Ended(u, l)
      BY <1>0, <3>1 DEF Ended, Logged
    <3>4. QED BY <3>1, <3>2, <3>3
  <2>4. CASE \E b \in v.dev.free :
               /\ u \in Run /\ u.dev = Taken(v.dev, b) /\ u.ino = v.ino /\ u.r = b
               /\ u.status = "ok" /\ Logged(u, l)
    <3>1. PICK b \in v.dev.free :
               /\ u \in Run /\ u.dev = Taken(v.dev, b) /\ u.ino = v.ino /\ u.r = b
               /\ u.status = "ok" /\ Logged(u, l)
      BY <2>4
    <3> HIDE DEF u
    <3> DEFINE e == Addressed(v.dev, p, k, b)
               f == Addressed(o, p, k, b)
    <3>2. b \in Block
      BY <1>0, VolumeParts
    <3>3. w = Emit(u, e)
      <4>1. b # p
        BY <1>4
      <4>2. u.dev.blk[p] = v.dev.blk[p]
        BY <4>1, <3>1, <1>0, <1>1, TakenIs
      <4>3. QED BY <4>2, <2>2, <3>1 DEF Addressed
    <3>4. /\ e \in Volume /\ e.ino = v.dev.ino /\ Sound(e) /\ Reads(v.dev, e)
          /\ \A x \in Slot : x # s => Owned(e, x) = Owned(v.dev, x)
          /\ Owned(e, s) \in {0, b}
      <4>1. v.dev \in Volume /\ Sound(v.dev) /\ p \in Block /\ p \notin v.dev.free
        BY <1>0, <1>1, <1>4
      <4>2. QED BY <4>1, <1>71, <1>10, TakenAddress, SMTT(30) DEF s
    <3>5. b \in o.free /\ o.blk[p][k].n = 0
      BY <1>00, <1>10
    <3>6. /\ f \in Volume /\ f.ino = o.ino /\ Sound(f) /\ Reads(o, f)
          /\ \A x \in Slot : x # s => Owned(f, x) = Owned(o, x)
          /\ Owned(f, s) = b /\ Cleared(o, f) /\ (Full(o) => Full(f))
      <4>1. o \in Volume /\ Sound(o) /\ p \in Block /\ p \notin o.free
        BY <1>00, <1>1, <1>4
      <4>2. /\ f \in Volume /\ f.ino = o.ino /\ Sound(f) /\ Reads(o, f)
            /\ \A x \in Slot : x # s => Owned(f, x) = Owned(o, x)
            /\ Owned(f, s) \in {0, b}
        BY <4>1, <1>1, <1>71, <3>5, TakenAddress, SMTT(30) DEF s
      <4>3. Owned(f, s) = b /\ Cleared(o, f) /\ (Full(o) => Full(f))
        BY <4>1, <1>2, <1>71, <3>5, TakenAddress DEF s
      <4>4. QED BY <4>2, <4>3
    <3>7. f = InoSet(e, i, v.ino[i])
      BY <1>0, AddressedUnder DEF o, Ov
    <3> HIDE DEF e, f, w
    <3>8. Good(e, l) /\ (l => Follows(u.dev, e))
      <4>1. Good(v.dev, l) /\ Good(u.dev, l)
        BY <1>0, <3>1 DEF Logged
      <4>2. Good(e, l) /\ (l => Visible(e) = Visible(v.dev))
        BY <4>1, <3>4, GoodCalm
      <4>3. l => Visible(u.dev) = Visible(v.dev)
        <5>1. u.dev \in Volume /\ Sound(u.dev) /\ Reads(v.dev, u.dev) /\ u.dev.ino = v.dev.ino
          BY <1>0, <3>1, TakenIs, TakenReads
        <5>2. QED BY <4>1, <5>1, GoodCalm
      <4>4. QED BY <4>2, <4>3 DEF Follows
    <3>9. /\ w \in Run /\ w.dev = e /\ w.ino = v.ino /\ w.r = b /\ w.status = "ok" /\ Logged(w, l)
      BY <3>1, <3>3, <3>8, Emitted
    <3>10. Ov(w, i) = f
      BY <3>7, <3>9 DEF Ov
    <3>11. NoHole(f)
      BY <1>00, <3>6, HoleSame DEF Reads
    <3>12. Leads(e, f)
      <4> SUFFICES ASSUME NEW x \in Slot, Owned(e, x) # 0 PROVE Owned(f, x) = Owned(e, x)
        BY DEF Leads
      <4>1. CASE x = s
        BY <4>1, <3>4, <3>6
      <4>2. CASE x # s
        <5>1. Owned(e, x) = Owned(v.dev, x) /\ Owned(f, x) = Owned(o, x)
          BY <4>2, <3>4, <3>6
        <5>2. QED BY <5>1, <1>00 DEF Leads
      <4>3. QED BY <4>1, <4>2
    <3>13. Inside(w, i, l)
      BY <3>6, <3>9, <3>10, <3>11, <3>12 DEF Inside
    <3>14. Grew(v, w, i)
      BY <3>4, <3>6, <3>9, <3>10 DEF Grew, o, SameMeta
    <3>15. QED BY <3>2, <3>6, <3>9, <3>10, <3>13, <3>14 DEF w, s
  <2>5. QED BY <1>0, <2>3, <2>4, BallocIs
<1>11. QED BY <1>9, <1>10

(* A run that has gone wild writes nothing any more, whatever is called.   *)
LEMMA EndedSame ==
  ASSUME NEW l \in BOOLEAN, NEW v, Ended(v, l), NEW w \in Run,
         w.dev = v.dev, w.log = v.log, w.status = v.status
  PROVE  Ended(w, l)
BY DEF Ended, Logged

LEMMA EndedResult ==
  ASSUME NEW l \in BOOLEAN, NEW v, Ended(v, l), NEW n \in Int, NEW w, w = [v EXCEPT !.r = n]
  PROVE  Ended(w, l) /\ w.r = n /\ w.ino = v.ino
<1>1. v \in Run
  BY DEF Ended
<1>2. /\ w \in Run /\ w.dev = v.dev /\ w.ino = v.ino /\ w.log = v.log /\ w.r = n
      /\ w.status = v.status
  BY <1>1, WithResult
<1>3. QED BY <1>2, EndedSame

LEMMA EndedInode ==
  ASSUME NEW l \in BOOLEAN, NEW v, Ended(v, l), NEW i \in Inum, NEW p \in InodeRecord,
         NEW w, w = SetIno(v, i, p)
  PROVE  Ended(w, l) /\ w.r = v.r
<1>1. v \in Run
  BY DEF Ended
<1>2. /\ w \in Run /\ w.dev = v.dev /\ w.log = v.log /\ w.r = v.r
      /\ w.status = v.status /\ w.ino = [v.ino EXCEPT ![i] = p] /\ w.ino[i] = p
      /\ \A j \in Inum : j # i => w.ino[j] = v.ino[j]
  BY <1>1, WithInode
<1>3. QED BY <1>2, EndedSame

LEMMA EndedEmit ==
  ASSUME NEW l \in BOOLEAN, NEW v, Ended(v, l), NEW d
  PROVE  Emit(v, d) = v
BY Silent DEF Ended

LEMMA EndedBalloc ==
  ASSUME NEW l \in BOOLEAN, NEW v, Ended(v, l)
  PROVE  Ended(Balloc(v), l) /\ Balloc(v).r \in Zone /\ Balloc(v).ino = v.ino
<1>0. v \in Run /\ v.status = "wild" /\ Logged(v, l) /\ v.dev \in Volume
  BY RunParts DEF Ended
<1>1. CASE v.dev.free = {}
  <2> DEFINE w == Balloc(v)
  <2>1. w = [v EXCEPT !.status = "wild", !.r = 0]
    BY <1>1 DEF Balloc
  <2> HIDE DEF w
  <2>2. /\ w \in Run /\ w.dev = v.dev /\ w.ino = v.ino /\ w.log = v.log /\ w.r = 0
        /\ w.status = "wild"
    BY <1>0, <2>1, WentWild
  <2>3. Ended(w, l)
    BY <1>0, <2>2, EndedSame
  <2>4. QED BY <2>2, <2>3 DEF w, Zone
<1>2. CASE v.dev.free # {}
  <2> DEFINE b == Max(v.dev.free)
             w == Balloc(v)
  <2>1. b \in Block
    <3>1. v.dev.free \in SUBSET Block
      BY <1>0, VolumeParts
    <3>2. v.dev.free \in SUBSET Nat /\ \A y \in v.dev.free : y <= NData
      BY <3>1, Geometry DEF Block
    <3>3. b \in v.dev.free
      BY <3>2, <1>2, MaxIs, Geometry
    <3>4. QED BY <3>1, <3>3
  <2>2. Balloc(v) = [WriteBlk(Emit(v, [v.dev EXCEPT !.free = @ \ {b}, !.clean = FALSE]),
                              b, ZeroBlock)
                       EXCEPT !.r = b]
    BY <1>2 DEF Balloc
  <2> HIDE DEF b, w
  <2>3. Emit(v, [v.dev EXCEPT !.free = @ \ {b}, !.clean = FALSE]) = v
    BY EndedEmit
  <2>4. WriteBlk(v, b, ZeroBlock) = v
    BY Writes, EndedEmit
  <2>5. w = [v EXCEPT !.r = b]
    BY <2>2, <2>3, <2>4 DEF w
  <2>6. b \in Int
    BY <2>1 DEF Block
  <2>7. Ended(w, l) /\ w.r = b /\ w.ino = v.ino
    BY <2>5, <2>6, EndedResult
  <2>8. QED BY <2>1, <2>7 DEF w, Zone
<1>3. QED BY <1>1, <1>2

LEMMA EndedZoneOf ==
  ASSUME NEW l \in BOOLEAN, NEW v, Ended(v, l), NEW i \in Inum, NEW z \in 0 .. SInd
  PROVE  Ended(ZoneOf(v, i, z), l) /\ ZoneOf(v, i, z).r \in Zone
<1> DEFINE w == ZoneOf(v, i, z)
<1>0. /\ v \in Run /\ v.ino[i] \in InodeRecord /\ v.ino[i].zones[z] \in Zone
  BY RunParts, InodeParts DEF Ended
<1>1. CASE v.ino[i].zones[z] # 0
  <2>1. w = [v EXCEPT !.r = v.ino[i].zones[z]]
    BY <1>1 DEF ZoneOf
  <2>2. v.ino[i].zones[z] \in Int
    BY <1>0 DEF Zone, Block
  <2> HIDE DEF w
  <2>3. Ended(w, l) /\ w.r = v.ino[i].zones[z]
    BY <2>1, <2>2, EndedResult
  <2>4. QED BY <2>3, <1>0 DEF w
<1>2. CASE v.ino[i].zones[z] = 0
  <2> DEFINE u == Balloc(v)
             p == ZoneSet(u.ino[i], z, u.r)
  <2>1. w = SetIno(u, i, p)
    BY <1>2 DEF ZoneOf, SetZone, ZoneSet
  <2>2. Ended(u, l) /\ u.r \in Zone /\ u.ino = v.ino
    BY EndedBalloc
  <2> HIDE DEF u
  <2>3. p \in InodeRecord
    BY <2>2, <1>0, ZoneSetIs
  <2> HIDE DEF p, w
  <2>4. Ended(w, l) /\ w.r = u.r
    BY <2>1, <2>2, <2>3, EndedInode
  <2>5. QED BY <2>2, <2>4 DEF w
<1>3. QED BY <1>1, <1>2

LEMMA EndedAddressOf ==
  ASSUME NEW l \in BOOLEAN, NEW v, Ended(v, l), v.r \in Zone, NEW k \in 0 .. NInd - 1
  PROVE  Ended(AddressOf(v, k), l)
<1> DEFINE w == AddressOf(v, k)
<1>0. v \in Run /\ v.dev \in Volume
  BY RunParts DEF Ended
<1>1. CASE v.r = 0
  BY <1>1 DEF AddressOf
<1>2. CASE v.r # 0 /\ v.dev.blk[v.r][k].n # 0
  <2>1. w = [v EXCEPT !.r = v.dev.blk[v.r][k].n]
    BY <1>2 DEF AddressOf
  <2>2. v.dev.blk[v.r][k].n \in Int
    <3>1. v.r \in Block /\ k \in 0 .. Width - 1
      BY <1>2, Widths DEF Zone
    <3>2. v.dev.blk[v.r][k].n \in Nat
      BY <3>1, <1>0, VolumeParts
    <3>3. QED BY <3>2
  <2> HIDE DEF w
  <2>3. QED BY <2>1, <2>2, EndedResult DEF w
<1>3. CASE v.r # 0 /\ v.dev.blk[v.r][k].n = 0
  <2> DEFINE u == Balloc(v)
  <2>1. w = WriteBlk(u, v.r, [u.dev.blk[v.r] EXCEPT ![k] = Cell(u.r, "")])
    BY <1>3 DEF AddressOf, SetAddress
  <2>2. Ended(u, l)
    BY EndedBalloc
  <2> HIDE DEF u, w
  <2>3. w = u
    <3> DEFINE cells == [u.dev.blk[v.r] EXCEPT ![k] = Cell(u.r, "")]
    <3> HIDE DEF cells
    <3>1. w = Emit(u, BlkSet(u.dev, v.r, cells))
      BY <2>1, Writes DEF cells
    <3>2. QED BY <3>1, <2>2, EndedEmit
  <2>4. QED BY <2>2, <2>3 DEF w
<1>4. QED BY <1>1, <1>2, <1>3

LEMMA EndedBmap ==
  ASSUME NEW l \in BOOLEAN, NEW v, Ended(v, l), NEW i \in Inum, NEW n \in Nat
  PROVE  /\ Ended(Bmap(v, i, n), l)
         /\ n >= NDir + NInd => Bmap(v, i, n).r = 0
<1>1. CASE n < NDir
  <2>1. n \in 0 .. SInd /\ ~ (n >= NDir + NInd)
    BY <1>1, Geometry
  <2>2. Bmap(v, i, n) = ZoneOf(v, i, n)
    BY <1>1 DEF Bmap
  <2>3. QED BY <2>1, <2>2, EndedZoneOf
<1>2. CASE ~ (n < NDir) /\ n >= NDir + NInd
  <2> DEFINE w == Bmap(v, i, n)
  <2>1. w = [v EXCEPT !.r = 0]
    BY <1>2 DEF Bmap
  <2> HIDE DEF w
  <2>2. Ended(w, l) /\ w.r = 0
    BY <2>1, EndedResult
  <2>3. QED BY <2>2 DEF w
<1>3. CASE ~ (n < NDir) /\ ~ (n >= NDir + NInd)
  <2> DEFINE u == ZoneOf(v, i, SInd)
  <2>1. Bmap(v, i, n) = AddressOf(u, n - NDir)
    BY <1>3 DEF Bmap
  <2>2. Ended(u, l) /\ u.r \in Zone
    BY EndedZoneOf, Geometry
  <2>3. n - NDir \in 0 .. NInd - 1
    BY <1>3, Geometry
  <2> HIDE DEF u
  <2>4. QED BY <1>3, <2>1, <2>2, <2>3, EndedAddressOf
<1>4. QED BY <1>1, <1>2, <1>3

-----------------------------------------------------------------------------
(* bmap: the block is there, there is none for a number beyond the last    *)
(* address, or the free list was empty.                                    *)
LEMMA BmapIs ==
  ASSUME NEW i \in Inum, NEW l \in BOOLEAN, NEW v, Inside(v, i, l), NEW n \in Nat
  PROVE  LET w == Bmap(v, i, n) IN
           \/ Ended(w, l) /\ w.r = 0
           \/ /\ Inside(w, i, l) /\ Grew(v, w, i) /\ w.r = 0 /\ n >= NDir + NInd
           \/ /\ Inside(w, i, l) /\ Grew(v, w, i) /\ n \in 0 .. NDir + NInd - 1
              /\ w.r = Owned(Ov(w, i), <<i, n>>) /\ w.r \in Block
<1>0. v \in Run
  BY DEF Inside
<1>1. CASE n < NDir
  <2> DEFINE w == ZoneOf(v, i, n)
  <2>1. n \in 0 .. SInd /\ n \in 0 .. NDir - 1 /\ n \in 0 .. NDir + NInd - 1
    BY <1>1, Geometry
  <2>2. \/ Ended(w, l) /\ w.r = 0
        \/ /\ Inside(w, i, l) /\ Grew(v, w, i)
           /\ w.r = w.ino[i].zones[n] /\ w.r \in Block
    BY <2>1, ZoneOfIs
  <2>3. Bmap(v, i, n) = w
    BY <1>1 DEF Bmap
  <2> HIDE DEF w
  <2>4. ASSUME Inside(w, i, l) PROVE Owned(Ov(w, i), <<i, n>>) = w.ino[i].zones[n]
    <3>1. Ov(w, i).ino[i] = w.ino[i]
      BY <2>4, OvIs DEF Inside
    <3>2. QED BY <3>1, <2>1, OwnedDirect
  <2>5. QED BY <2>1, <2>2, <2>3, <2>4
<1>2. CASE ~ (n < NDir) /\ n >= NDir + NInd
  <2> DEFINE w == Bmap(v, i, n)
  <2>1. w = [v EXCEPT !.r = 0]
    BY <1>2 DEF Bmap
  <2> HIDE DEF w
  <2>2. /\ w \in Run /\ w.dev = v.dev /\ w.ino = v.ino /\ w.log = v.log /\ w.status = v.status
        /\ w.r = 0
    BY <1>0, <2>1, WithResult
  <2>3. Ov(w, i) = Ov(v, i)
    BY <2>2 DEF Ov
  <2>4. Inside(w, i, l)
    BY <2>2, <2>3 DEF Inside, Logged
  <2>5. Grew(v, w, i)
    BY <2>2, <2>3 DEF Grew, Reads, Leads, SameMeta, Cleared
  <2>6. QED BY <1>2, <2>2, <2>4, <2>5 DEF w
<1>3. CASE ~ (n < NDir) /\ ~ (n >= NDir + NInd)
  <2> DEFINE u == ZoneOf(v, i, SInd)
             k == n - NDir
             w == AddressOf(u, k)
  <2>1. Bmap(v, i, n) = w
    BY <1>3 DEF Bmap
  <2>2. \/ Ended(u, l) /\ u.r = 0
        \/ /\ Inside(u, i, l) /\ Grew(v, u, i)
           /\ u.r = u.ino[i].zones[SInd] /\ u.r \in Block
    BY ZoneOfIs, Geometry
  <2>3. k \in 0 .. NInd - 1 /\ n = NDir + k /\ n \in 0 .. NDir + NInd - 1
    BY <1>3, Geometry
  <2> HIDE DEF u, k
  <2>4. CASE Ended(u, l) /\ u.r = 0
    <3>1. w = u
      BY <2>4 DEF AddressOf
    <3>2. QED BY <3>1, <2>1, <2>4
  <2>5. CASE /\ Inside(u, i, l) /\ Grew(v, u, i)
             /\ u.r = u.ino[i].zones[SInd] /\ u.r \in Block
    <3>1. \/ Ended(w, l) /\ w.r = 0
          \/ /\ Inside(w, i, l) /\ Grew(u, w, i)
             /\ w.r = Owned(Ov(w, i), <<i, NDir + k>>) /\ w.r \in Block
      BY <2>3, <2>5, AddressOfIs
    <3> HIDE DEF w
    <3>2. Grew(u, w, i) => Grew(v, w, i)
      BY <2>5, GrewTransitive
    <3>3. QED BY <2>1, <2>3, <3>1, <3>2
  <2>6. QED BY <2>2, <2>4, <2>5
<1>4. QED BY <1>1, <1>2, <1>3

-----------------------------------------------------------------------------
(* Inodes in memory and on the device.                                     *)

(* The entries that name an inode can be counted.                          *)
LEMMA NamedFinite ==
  ASSUME NEW d, NEW i
  PROVE  IsFiniteSet(Named(d, i)) /\ Cardinality(Named(d, i)) \in Nat
<1>1. IsFiniteSet(Inum) /\ IsFiniteSet(1 .. MaxCells)
  <2>1. ISize - 1 \in Int /\ MaxCells \in Int /\ 1 \in Int
    BY Geometry
  <2>2. QED BY <2>1, FS_Interval DEF Inum
<1>2. IsFiniteSet(Inum \X (1 .. MaxCells))
  BY <1>1, FS_Product
<1>3. Named(d, i) \subseteq Inum \X (1 .. MaxCells)
  BY DEF Named, Entries
<1>4. IsFiniteSet(Named(d, i))
  BY <1>2, <1>3, FS_Subset
<1>5. QED BY <1>4, FS_CardinalityType

(* More entries and no more links: the counts are still covered.           *)
LEMMA LinkedMore ==
  ASSUME NEW d \in Volume, NEW e \in Volume, Linked(d),
         \A j \in Inum : Named(d, j) \subseteq Named(e, j) /\ e.ino[j].nlink <= d.ino[j].nlink
  PROVE  Linked(e)
<1> SUFFICES ASSUME NEW j \in Inum PROVE e.ino[j].nlink <= Cardinality(Named(e, j))
  BY DEF Linked
<1>1. d.ino[j].nlink \in Nat /\ e.ino[j].nlink \in Nat
  BY VolumeParts, InodeParts
<1>2. Cardinality(Named(d, j)) <= Cardinality(Named(e, j))
  BY NamedFinite, FS_Subset
<1>3. Cardinality(Named(d, j)) \in Nat /\ Cardinality(Named(e, j)) \in Nat
  BY NamedFinite
<1>4. d.ino[j].nlink <= Cardinality(Named(d, j))
  BY DEF Linked
<1>5. QED BY <1>1, <1>2, <1>3, <1>4

(* An inode is written that keeps its zones and its size, and its type     *)
(* when it is not empty.                                                   *)
Alike(p, q) == p.zones = q.zones /\ p.size = q.size /\ (p.mode = q.mode \/ q.size = 0)

(* An inode that only differs in its counts reads as before.               *)
LEMMA MetaReads ==
  ASSUME NEW d \in Volume, NEW i \in Inum, NEW p \in InodeRecord, Alike(p, d.ino[i]),
         Sound(d), NoHole(d)
  PROVE  /\ Sound(InoSet(d, i, p)) /\ NoHole(InoSet(d, i, p)) /\ Reads(d, InoSet(d, i, p))
         /\ \A x \in Slot : Owned(InoSet(d, i, p), x) = Owned(d, x)
         /\ Full(d) => Full(InoSet(d, i, p))
         /\ \A j : Named(InoSet(d, i, p), j) = Named(d, j)
<1> DEFINE e == InoSet(d, i, p)
<1>1. /\ e \in Volume /\ e.free = d.free /\ e.blk = d.blk /\ e.ino[i] = p
      /\ \A j \in Inum : j # i => e.ino[j] = d.ino[j]
  BY InoSetIs
<1>2. \A x \in Slot : Owned(e, x) = Owned(d, x)
  BY SameZones DEF Alike
<1> HIDE DEF e
<1>3. Sound(e) /\ Leads(d, e)
  BY <1>1, <1>2, SoundSame
<1>4. Full(d) => Full(e)
  BY <1>1, <1>2, FullSame
<1>5. Reads(d, e)
  BY <1>1, <1>3 DEF Reads
<1>6. \A j \in Inum : /\ e.ino[j].size = d.ino[j].size
                      /\ (e.ino[j].mode = d.ino[j].mode \/ d.ino[j].size = 0)
  BY <1>1 DEF Alike
<1>7. NoHole(e)
  BY <1>3, <1>6, HoleSame
<1>8. \A j : Named(e, j) = Named(d, j)
  BY <1>1, <1>5, <1>6, EntriesKept
<1>9. QED BY <1>2, <1>3, <1>4, <1>5, <1>7, <1>8 DEF e

(* It can be written, if its links are covered.                            *)
LEMMA MetaWrite ==
  ASSUME NEW l \in BOOLEAN, NEW d, Good(d, l), NEW i \in Inum, NEW p \in InodeRecord,
         Alike(p, d.ino[i]), p.flags = ALOC,
         l => /\ p.nlink <= Cardinality(Named(d, i))
              /\ i = Root => Type(p.mode) = IFDIR
              /\ i = Root \/ Hidden(d, i) \/ Type(p.mode) = Type(d.ino[i].mode)
  PROVE  Good(InoSet(d, i, p), l) /\ (l => Visible(InoSet(d, i, p)) = Visible(d))
<1> DEFINE e == InoSet(d, i, p)
<1>0. d \in Volume /\ Sound(d) /\ NoHole(d) /\ Unused(d)
  BY DEF Good
<1>1. /\ e \in Volume /\ e.ino[i] = p /\ \A j \in Inum : j # i => e.ino[j] = d.ino[j]
  BY <1>0, InoSetIs
<1>2. /\ Sound(e) /\ NoHole(e) /\ Reads(d, e) /\ \A j : Named(e, j) = Named(d, j)
  BY <1>0, MetaReads
<1> HIDE DEF e
<1>3. Unused(e)
  <2>1. ALOC # 0
    BY DEF ALOC
  <2>2. QED BY <2>1, <1>0, <1>1 DEF Unused
<1>4. l => Linked(e) /\ IsDir(e, Root)
  <2> SUFFICES ASSUME l PROVE Linked(e) /\ IsDir(e, Root)
    OBVIOUS
  <2>1. Linked(d) /\ IsDir(d, Root)
    BY DEF Good
  <2>2. Linked(e)
    BY <2>1, <1>1, <1>2 DEF Linked
  <2>3. IsDir(e, Root)
    BY <2>1, <1>1, Geometry DEF IsDir
  <2>4. QED BY <2>2, <2>3
<1>5. l => Rooted(e) /\ Visible(e) = Visible(d)
  <2> SUFFICES ASSUME l PROVE Rooted(e) /\ Visible(e) = Visible(d)
    OBVIOUS
  <2>1. \A j \in Inum : \A k \in 0 .. d.ino[j].size - 1 : At(e, j, k) = At(d, j, k)
    BY <1>0, <1>1, <1>2, CellKept DEF At
  <2>2. \A j \in Inum : j # i => Same(d, e, j)
    BY <1>1, <2>1 DEF Same
  <2>3. Rooted(d) /\ IsDir(d, Root) /\ IsDir(e, Root) /\ Root \in Inum
    BY <1>4, Geometry DEF Good
  <2>4. e.ino[i].size = d.ino[i].size
    BY <1>1 DEF Alike
  <2>5. e.ino[Root].size = d.ino[Root].size
    BY <1>1, <2>3, <2>4
  <2>6. \E t : Shows(d, e, t)
    <3>1. CASE i = Root \/ Hidden(d, i)
      BY <3>1, <2>1, <2>2, <2>3 DEF Shows
    <3>2. CASE ~ (i = Root \/ Hidden(d, i))
      <4>1. d.ino[i].flags = ALOC
        BY <3>2, <2>3 DEF Hidden, Rooted
      <4>2. Same(d, e, i)
        BY <3>2, <4>1, <1>1, <2>1, <2>4 DEF Same
      <4>3. Shows(d, e, Root)
        BY <4>2, <2>1, <2>2, <2>3 DEF Shows
      <4>4. QED BY <4>3
    <3>3. QED BY <3>1, <3>2
  <2>7. QED BY <1>0, <1>1, <2>3, <2>5, <2>6, VisibleSame
<1>6. QED BY <1>1, <1>2, <1>3, <1>4, <1>5 DEF Good, e

-----------------------------------------------------------------------------
(* Between the calls of libfs: the inode in memory is the one on the       *)
(* device, but for the type of an inode that is still empty.               *)
Synced(v, i, l) ==
  /\ v \in Run /\ v.status = "ok" /\ Logged(v, l)
  /\ Alike(v.ino[i], v.dev.ino[i]) /\ v.ino[i].flags = ALOC /\ v.dev.ino[i].flags = ALOC
  /\ v.ino[i].nlink = v.dev.ino[i].nlink
  /\ l /\ i = Root => Type(v.ino[i].mode) = IFDIR

(* Between two calls the inode in memory changes nothing of the volume.    *)
LEMMA SyncedInside ==
  ASSUME NEW l \in BOOLEAN, NEW i \in Inum, NEW v, Synced(v, i, l)
  PROVE  /\ Inside(v, i, l)
         /\ \A x \in Slot : Owned(Ov(v, i), x) = Owned(v.dev, x)
         /\ Full(v.dev) => Full(Ov(v, i))
         /\ Reads(v.dev, Ov(v, i))
         /\ \A j : Named(Ov(v, i), j) = Named(v.dev, j)
<1>1. /\ v \in Run /\ v.status = "ok" /\ Logged(v, l)
      /\ v.dev \in Volume /\ v.ino[i] \in InodeRecord
      /\ Sound(v.dev) /\ NoHole(v.dev) /\ Alike(v.ino[i], v.dev.ino[i])
  BY RunParts DEF Synced, Logged, Good
<1>2. /\ Sound(Ov(v, i)) /\ NoHole(Ov(v, i)) /\ Reads(v.dev, Ov(v, i))
      /\ \A x \in Slot : Owned(Ov(v, i), x) = Owned(v.dev, x)
      /\ Full(v.dev) => Full(Ov(v, i))
      /\ \A j : Named(Ov(v, i), j) = Named(v.dev, j)
  BY <1>1, MetaReads DEF Ov
<1>3. QED BY <1>1, <1>2 DEF Inside, Reads

-----------------------------------------------------------------------------
(* The cells of a block that is filled.                                    *)
LEMMA FilledIs ==
  ASSUME NEW old \in Content, NEW at \in Nat, NEW cells \in Seq(CellSet), at + Len(cells) <= CPB
  PROVE  /\ Filled(old, at, cells) \in Content
         /\ \A c \in at .. at + Len(cells) - 1 : Filled(old, at, cells)[c] = cells[c - at + 1]
         /\ \A c \in 0 .. Width - 1 : c \notin at .. at + Len(cells) - 1 =>
              Filled(old, at, cells)[c] = old[c]
<1> DEFINE n == Len(cells)
           new == Filled(old, at, cells)
           W == 0 .. Width - 1
           D == at .. at + n - 1
<1>1. n \in Nat /\ at + n <= CPB
  OBVIOUS
<1>2. DOMAIN old = W /\ \A c \in W : old[c] \in CellSet
  BY DEF Content
<1>3. \A c \in D : cells[c - at + 1] \in CellSet
  BY <1>1
<1>4. D \subseteq W
  <2>1. D \subseteq 0 .. CPB - 1
    BY <1>1, Geometry
  <2>2. QED BY <2>1, Widths
<1>7. new = [c \in W |-> IF c \in D THEN cells[c - at + 1] ELSE old[c]]
  BY <1>2 DEF Filled
<1> HIDE DEF new, W, D, n
<1>8. new \in [W -> CellSet]
  BY <1>2, <1>3, <1>7
<1>9. /\ \A c \in D : new[c] = cells[c - at + 1]
      /\ \A c \in W : c \notin D => new[c] = old[c]
  BY <1>4, <1>7
<1>10. QED BY <1>8, <1>9 DEF Content, new, W, D, n

-----------------------------------------------------------------------------
(* fs_write.                                                               *)

(* No other slot leads to the block of a slot.                             *)
LEMMA OnlyOwner ==
  ASSUME NEW d, NEW o, Sound(o), Leads(d, o), NEW i \in Inum, NEW n \in 0 .. NDir + NInd - 1,
         Owned(o, <<i, n>>) \in Block
  PROVE  /\ \A y \in Slot : Owned(d, y) = Owned(o, <<i, n>>) => y = <<i, n>>
         /\ \A j \in Inum : Owned(d, <<j, -1>>) # Owned(o, <<i, n>>)
<1>1. <<i, n>> \in Slot /\ Owned(o, <<i, n>>) # 0
  BY SlotIn, Geometry
<1>2. ASSUME NEW y \in Slot, Owned(d, y) = Owned(o, <<i, n>>) PROVE y = <<i, n>>
  <2>1. Owned(o, y) = Owned(o, <<i, n>>)
    BY <1>1, <1>2 DEF Leads
  <2>2. QED BY <2>1, <1>1 DEF Sound
<1>3. ASSUME NEW j \in Inum, Owned(d, <<j, -1>>) = Owned(o, <<i, n>>) PROVE FALSE
  <2>1. <<j, -1>> = <<i, n>>
    BY <1>2, <1>3, SlotIn
  <2>2. n # -1
    OBVIOUS
  <2>3. QED BY <2>1, <2>2
<1>4. QED BY <1>2, <1>3

LEMMA LeadsSelf ==
  ASSUME NEW d
  PROVE  Leads(d, d)
BY DEF Leads

(* The cells after a write to the block of one slot.                       *)
LEMMA BlkCells ==
  ASSUME NEW d \in Volume, NEW b \in Block, NEW new \in Content,
         \A x \in Slot : Owned(BlkSet(d, b, new), x) = Owned(d, x),
         \A x \in Slot : Owned(d, x) \in Zone,
         NEW j \in Inum, NEW off \in Nat, off < MaxCells
  PROVE  At(BlkSet(d, b, new), j, off) = IF Owned(d, <<j, off \div CPB>>) = b THEN new[off % CPB]
                                         ELSE At(d, j, off)
<1> DEFINE e == BlkSet(d, b, new)
           x == <<j, off \div CPB>>
           r == off % CPB
<1>1. /\ e \in Volume /\ e.ino = d.ino /\ e.blk[b] = new
      /\ \A a \in Block : a # b => e.blk[a] = d.blk[a]
  BY BlkSetIs
<1> HIDE DEF e
<1>2. x \in Slot /\ At(d, j, off) = IF Owned(d, x) = 0 THEN ZeroCell ELSE d.blk[Owned(d, x)][r]
  BY CellAtIs DEF At
<1>3. At(e, j, off) = IF Owned(e, x) = 0 THEN ZeroCell ELSE e.blk[Owned(e, x)][r]
  BY <1>1, CellAtIs DEF At
<1>4. \A y \in Slot : Owned(e, y) = Owned(d, y)
  BY DEF e
<1> HIDE DEF x, r
<1>5. Owned(e, x) = Owned(d, x) /\ Owned(d, x) \in Zone
  BY <1>2, <1>4
<1>6. b # 0
  BY Geometry
<1>7. At(e, j, off) = IF Owned(d, x) = b THEN new[r] ELSE At(d, j, off)
  BY <1>1, <1>2, <1>3, <1>5, <1>6 DEF Zone
<1>8. QED BY <1>7 DEF e, x, r

(* The block of a slot is filled on the device, before the inode says so.  *)
LEMMA FillDevice ==
  ASSUME NEW l \in BOOLEAN, NEW d, Good(d, l), NEW o \in Volume, Sound(o), Leads(d, o),
         NEW i \in Inum, NEW n \in 0 .. NDir + NInd - 1, Owned(o, <<i, n>>) \in Block,
         NEW new \in Content,
         l /\ IsDir(d, i) => \A off \in 0 .. d.ino[i].size - 1 :
           off \div CPB = n /\ At(d, i, off).n # 0 => new[off % CPB] = At(d, i, off),
         l => i = Root \/ Hidden(d, i)
  PROVE  /\ Good(BlkSet(d, Owned(o, <<i, n>>), new), l)
         /\ l => Visible(BlkSet(d, Owned(o, <<i, n>>), new)) = Visible(d)
         /\ \A x \in Slot : Owned(BlkSet(d, Owned(o, <<i, n>>), new), x) = Owned(d, x)
<1> DEFINE b == Owned(o, <<i, n>>)
           e == BlkSet(d, b, new)
<1>0. d \in Volume /\ Sound(d) /\ NoHole(d) /\ Unused(d)
  BY DEF Good
<1>1. /\ e \in Volume /\ e.ino = d.ino /\ e.free = d.free
  BY <1>0, BlkSetIs
<1>2. /\ \A y \in Slot : Owned(d, y) = b => y = <<i, n>>
      /\ \A j \in Inum : Owned(d, <<j, -1>>) # b
  BY OnlyOwner
<1>3. \A x \in Slot : Owned(d, x) \in Zone
  BY <1>0 DEF Sound
<1> HIDE DEF b
<1>30. b \in Block
  BY DEF b
<1>4. \A x \in Slot : Owned(e, x) = Owned(d, x)
  BY <1>0, <1>2, <1>3, <1>30, DataWrite
<1>40. \A j \in Inum : \A off \in Nat : off < MaxCells =>
         At(e, j, off) = IF Owned(d, <<j, off \div CPB>>) = b THEN new[off % CPB] ELSE At(d, j, off)
  BY <1>0, <1>3, <1>30, <1>4, BlkCells
<1> HIDE DEF e
<1>5. Sound(e) /\ Leads(d, e)
  BY <1>0, <1>1, <1>4, SoundSame
<1>6. NoHole(e)
  BY <1>0, <1>1, <1>5, HoleSame
<1>7. Unused(e)
  BY <1>0, <1>1 DEF Unused
<1>8. ASSUME l, NEW t PROVE Named(d, t) \subseteq Named(e, t)
  <2> SUFFICES ASSUME NEW x \in Named(d, t) PROVE x \in Named(e, t)
    OBVIOUS
  <2>1. /\ x \in Inum \X (1 .. MaxCells) /\ IsDir(d, x[1]) /\ x[2] <= d.ino[x[1]].size
        /\ At(d, x[1], x[2] - 1).n # 0 /\ At(d, x[1], x[2] - 1).n = t
    BY <1>0, EntryIs DEF Named, At
  <2> DEFINE j == x[1]
             off == x[2] - 1
  <2>2. /\ j \in Inum /\ off \in Nat /\ off < MaxCells /\ off \in 0 .. d.ino[j].size - 1
    <3>1. j \in Inum /\ x[2] \in 1 .. MaxCells
      BY <2>1
    <3>2. d.ino[j].size \in Nat
      BY <3>1, <1>0, VolumeParts, InodeParts
    <3>3. QED BY <3>1, <3>2, <2>1, Geometry
  <2>3. IsDir(d, j) /\ At(d, j, off).n # 0
    BY <2>1
  <2>9. <<j, off \div CPB>> \in Slot
    BY <1>0, <2>2, CellAtIs
  <2> HIDE DEF j, off
  <2>4. At(e, j, off) = At(d, j, off)
    <3>1. CASE Owned(d, <<j, off \div CPB>>) = b
      <4>1. <<j, off \div CPB>> = <<i, n>>
        BY <3>1, <2>9, <1>2
      <4>2. j = i /\ off \div CPB = n
        BY <4>1
      <4>3. new[off % CPB] = At(d, i, off)
        BY <1>8, <2>2, <2>3, <4>2
      <4>4. QED BY <3>1, <4>2, <4>3, <2>2, <1>40
    <3>2. CASE Owned(d, <<j, off \div CPB>>) # b
      BY <3>2, <2>2, <1>40
    <3>3. QED BY <3>1, <3>2
  <2>5. At(e, x[1], x[2] - 1) = At(d, x[1], x[2] - 1) /\ IsDir(e, x[1])
    BY <2>4, <2>1, <1>1 DEF j, off, IsDir
  <2>6. x \in Entries(e)
    BY <1>1, <2>1, <2>5, EntryIs DEF At
  <2>7. QED BY <2>1, <2>5, <2>6 DEF Named, At
<1>9. l => Linked(e) /\ IsDir(e, Root)
  <2> SUFFICES ASSUME l PROVE Linked(e) /\ IsDir(e, Root)
    OBVIOUS
  <2>1. Linked(d) /\ IsDir(d, Root)
    BY DEF Good
  <2>2. \A j \in Inum : e.ino[j].nlink <= d.ino[j].nlink
    <3> SUFFICES ASSUME NEW j \in Inum PROVE d.ino[j].nlink <= d.ino[j].nlink
      BY <1>1
    <3>1. d.ino[j].nlink \in Nat
      BY <1>0, VolumeParts, InodeParts
    <3>2. QED BY <3>1
  <2>3. \A j \in Inum : Named(d, j) \subseteq Named(e, j)
    BY <1>8
  <2>4. Linked(e)
    BY <1>0, <1>1, <2>1, <2>2, <2>3, LinkedMore
  <2>5. QED BY <2>1, <2>4, <1>1 DEF IsDir
<1>10. l => Rooted(e) /\ Visible(e) = Visible(d)
  <2> SUFFICES ASSUME l PROVE Rooted(e) /\ Visible(e) = Visible(d)
    OBVIOUS
  <2>1. Rooted(d) /\ IsDir(d, Root) /\ IsDir(e, Root) /\ Root \in Inum
    BY <1>9, Geometry DEF Good
  <2>2. ASSUME NEW j \in Inum, NEW k \in 0 .. d.ino[j].size - 1,
               j # i \/ (j = Root /\ i = Root)
        PROVE  At(e, j, k) = At(d, j, k)
    <3>1. d.ino[j].size \in 0 .. MaxCells
      BY <1>0, VolumeParts, InodeParts
    <3>2. k \in Nat /\ k < MaxCells /\ <<j, k \div CPB>> \in Slot
      BY <3>1, SlotOf
    <3>3. CASE Owned(d, <<j, k \div CPB>>) = b
      <4>1. <<j, k \div CPB>> = <<i, n>>
        BY <3>2, <3>3, <1>2
      <4>2. j = i /\ k \div CPB = n /\ i = Root
        BY <4>1, <2>2
      <4>3. At(d, i, k).n # 0
        <5>1. At(d, Root, k).n \in Inum
          BY <2>1, <4>2 DEF Rooted
        <5>2. QED BY <5>1, <4>2, Geometry
      <4>4. new[k % CPB] = At(d, i, k)
        BY <2>1, <4>2, <4>3
      <4>5. QED BY <3>2, <3>3, <4>2, <4>4, <1>40
    <3>4. CASE Owned(d, <<j, k \div CPB>>) # b
      BY <3>2, <3>4, <1>40
    <3>5. QED BY <3>3, <3>4
  <2>3. \A j \in Inum : j # i => Same(d, e, j)
    BY <2>2, <1>1 DEF Same
  <2>4. \A k \in 0 .. d.ino[Root].size - 1 : At(e, Root, k) = At(d, Root, k)
    BY <2>1, <2>2
  <2>5. Shows(d, e, i)
    BY <2>1, <2>3, <2>4 DEF Shows
  <2>6. QED BY <1>0, <1>1, <2>1, <2>5, VisibleSame
<1>11. QED BY <1>1, <1>4, <1>5, <1>6, <1>7, <1>9, <1>10 DEF Good, e, b

(* The cells of a write, in their file and in their block.                 *)
LEMMA Within ==
  ASSUME NEW off \in Nat, NEW len \in Nat, len <= CPB - (off % CPB), NEW k \in Nat
  PROVE  /\ k \div CPB = off \div CPB =>
              /\ k - off = (k % CPB) - (off % CPB)
              /\ (k % CPB \in (off % CPB) .. (off % CPB) + len - 1 <=> k \in off .. off + len - 1)
         /\ k \in off .. off + len - 1 => k \div CPB = off \div CPB
<1> DEFINE r == off % CPB
           s == k % CPB
           p == k \div CPB
           q == off \div CPB
<1>1. /\ p \in Nat /\ s \in 0 .. CPB - 1 /\ k = CPB * p + s
      /\ q \in Nat /\ r \in 0 .. CPB - 1 /\ off = CPB * q + r
  BY Position
<1>2. CPB \in Nat \ {0}
  BY Geometry
<1>3. len <= CPB - r
  OBVIOUS
<1>4. k < off + len => p <= q /\ (p < q => k < off)
  BY Positions
<1> HIDE DEF p, q, r, s
<1>5. CPB * p \in Nat /\ CPB * q \in Nat
  BY <1>1, <1>2
<1>6. ASSUME p = q
      PROVE  k - off = s - r /\ (s \in r .. r + len - 1 <=> k \in off .. off + len - 1)
  <2> DEFINE m == CPB * q
  <2>1. m \in Nat /\ k = m + s /\ off = m + r
    BY <1>1, <1>5, <1>6
  <2> HIDE DEF m
  <2>2. QED BY <2>1, <1>1, <1>2
<1>7. ASSUME k \in off .. off + len - 1 PROVE p = q
  <2>1. k < off + len /\ ~ (k < off)
    BY <1>7
  <2>2. QED BY <2>1, <1>4, <1>1
<1>8. QED BY <1>6, <1>7 DEF p, q, r, s

(* The cells about to be written hold no entry of a directory.             *)
Clear(d, i, off, n) ==
  IsDir(d, i) => \A k \in off .. off + n - 1 : k < d.ino[i].size => At(d, i, k).n = 0

(* What a write of cells at off in inode i changes between d and f.        *)
Wrote(d, f, i, off, cells) ==
  /\ \A j \in Inum : j # i => f.ino[j] = d.ino[j]
  /\ f.ino[i].size = Max({d.ino[i].size, off + Len(cells)})
  /\ f.ino[i].nlink = d.ino[i].nlink
  /\ f.ino[i].mode = d.ino[i].mode \/ d.ino[i].size = 0
  /\ \A j \in Inum : \A k \in 0 .. d.ino[j].size - 1 :
       ~ (j = i /\ k \in off .. off + Len(cells) - 1) => At(f, j, k) = At(d, j, k)
  /\ \A k \in off .. off + Len(cells) - 1 : At(f, i, k) = cells[k - off + 1]

(* The size after a write.                                                 *)
LEMMA NewSize ==
  ASSUME NEW size \in 0 .. MaxCells, NEW off \in Nat, NEW len \in Nat,
         off + len <= MaxCells, off <= size
  PROVE  /\ Max({size, off + len}) \in 0 .. MaxCells
         /\ size <= Max({size, off + len}) /\ off + len <= Max({size, off + len})
         /\ \A k \in 0 .. Max({size, off + len}) - 1 : k < size \/ k \in off .. off + len - 1
<1>1. size \in Nat /\ off + len \in Nat
  BY Geometry
<1>2. Max({size, off + len}) = IF size > off + len THEN size ELSE off + len
  BY <1>1, MaxOfTwo
<1> DEFINE s == off + len
           m == Max({size, s})
<1>3. /\ s \in Nat /\ s <= MaxCells /\ off \in Nat /\ s >= off /\ size \in Nat /\ size <= MaxCells
      /\ MaxCells \in Nat /\ m = IF size > s THEN size ELSE s
  BY <1>1, <1>2, Geometry
<1> HIDE DEF s, m
<1>4. /\ m \in 0 .. MaxCells /\ size <= m /\ s <= m
      /\ \A k \in 0 .. m - 1 : k < size \/ k \in off .. s - 1
  BY <1>3
<1>5. QED BY <1>4 DEF m, s

(* A write to free cells loses no entry.                                   *)
LEMMA WroteKeeps ==
  ASSUME NEW d \in Volume, NEW f \in Volume, NEW i \in Inum, NEW off \in Nat,
         NEW cells \in Seq(CellSet), Wrote(d, f, i, off, cells),
         Clear(d, i, off, Len(cells)), off <= d.ino[i].size,
         off + Len(cells) <= MaxCells
  PROVE  \A t : Named(d, t) \subseteq Named(f, t)
<1> SUFFICES ASSUME NEW t, NEW x \in Named(d, t) PROVE x \in Named(f, t)
  OBVIOUS
<1>1. /\ x \in Inum \X (1 .. MaxCells) /\ IsDir(d, x[1]) /\ x[2] <= d.ino[x[1]].size
      /\ At(d, x[1], x[2] - 1).n # 0 /\ At(d, x[1], x[2] - 1).n = t
  BY EntryIs DEF Named, At
<1> DEFINE j == x[1]
           k == x[2] - 1
<1>2. j \in Inum /\ x[2] \in 1 .. MaxCells
  BY <1>1
<1>3. d.ino[j].size \in Nat /\ d.ino[i].size \in 0 .. MaxCells /\ f.ino[j].size \in Nat
  BY <1>2, VolumeParts, InodeParts
<1>4. k \in 0 .. d.ino[j].size - 1 /\ k < d.ino[j].size
  BY <1>1, <1>2, <1>3
<1>5. IsDir(d, j) /\ At(d, j, k).n # 0
  BY <1>1
<1> HIDE DEF j, k
<1>6. ~ (j = i /\ k \in off .. off + Len(cells) - 1)
  BY <1>4, <1>5 DEF Clear
<1>7. At(f, j, k) = At(d, j, k)
  BY <1>2, <1>4, <1>6 DEF Wrote
<1>8. IsDir(f, j) /\ d.ino[j].size <= f.ino[j].size
  <2>1. CASE j = i
    <3>1. d.ino[i].size # 0
      BY <1>3, <1>4, <2>1
    <3>2. f.ino[i].mode = d.ino[i].mode
      BY <3>1 DEF Wrote
    <3>3. f.ino[i].size = Max({d.ino[i].size, off + Len(cells)})
      BY DEF Wrote
    <3>4. d.ino[i].size <= Max({d.ino[i].size, off + Len(cells)})
      <4>1. Len(cells) \in Nat
        OBVIOUS
      <4>2. QED BY <4>1, <1>3, NewSize
    <3>5. QED BY <2>1, <1>5, <3>2, <3>3, <3>4 DEF IsDir
  <2>2. CASE j # i
    <3>1. f.ino[j] = d.ino[j]
      BY <2>2, <1>2 DEF Wrote
    <3>2. QED BY <3>1, <1>3, <1>5 DEF IsDir
  <2>3. QED BY <2>1, <2>2
<1>9. x[2] <= f.ino[j].size
  BY <1>1, <1>2, <1>3, <1>8 DEF j
<1>10. x \in Entries(f)
  BY <1>1, <1>7, <1>8, <1>9, EntryIs DEF At, j, k
<1>11. QED BY <1>1, <1>7, <1>10 DEF Named, At, j, k

(* The block and the inode are on the device.                              *)
Sized(q, n) == [q EXCEPT !.size = n]

(* An inode of another size.                                               *)
LEMMA SizedIs ==
  ASSUME NEW q \in InodeRecord, NEW n \in 0 .. MaxCells
  PROVE  /\ Sized(q, n) \in InodeRecord /\ Sized(q, n).size = n /\ Sized(q, n).zones = q.zones
         /\ Sized(q, n).mode = q.mode /\ Sized(q, n).nlink = q.nlink /\ Sized(q, n).flags = q.flags
BY DEF Sized, InodeRecord

(* The volume after a write: o is d with the zones bmap has added.         *)
LEMMA WriteVolume ==
  ASSUME NEW d \in Volume, NoHole(d), NEW o \in Volume, Sound(o), NoHole(o), Reads(d, o),
         NEW i \in Inum, \A j \in Inum : j # i => o.ino[j] = d.ino[j],
         o.ino[i].size = d.ino[i].size, o.ino[i].nlink = d.ino[i].nlink,
         o.ino[i].mode = d.ino[i].mode \/ d.ino[i].size = 0,
         NEW off \in Nat, off <= d.ino[i].size, NEW cells \in Seq(CellSet),
         Len(cells) <= CPB - (off % CPB), off \div CPB \in 0 .. NDir + NInd - 1,
         NEW b \in Block, b = Owned(o, <<i, off \div CPB>>),
         NEW new, new = Filled(o.blk[b], off % CPB, cells),
         NEW p, p = Sized(o.ino[i], Max({o.ino[i].size, off + Len(cells)})),
         NEW f, f = InoSet(BlkSet(o, b, new), i, p)
  PROVE  /\ p \in InodeRecord /\ f \in Volume /\ f.ino[i] = p /\ off + Len(cells) <= MaxCells
         /\ Sound(f) /\ NoHole(f) /\ (Full(o) => Full(f)) /\ Wrote(d, f, i, off, cells)
         /\ new \in Content
<1> DEFINE n == off \div CPB
           at == off % CPB
           len == Len(cells)
           g == BlkSet(o, b, new)
           q == o.ino[i]
<1>1. at \in 0 .. CPB - 1 /\ n \in Nat /\ n < NDir + NInd /\ len \in Nat
  <2>1. at \in 0 .. CPB - 1 /\ n \in Nat
    BY Position
  <2>2. len \in Nat /\ n \in 0 .. NDir + NInd - 1
    <3> HIDE DEF at
    <3>1. QED OBVIOUS
  <2> HIDE DEF n, at, len
  <2>3. QED BY <2>1, <2>2, Geometry
<1>2. off + len <= MaxCells
  BY <1>1, InReach
<1>3. q \in InodeRecord /\ q.size \in 0 .. MaxCells
  BY VolumeParts, InodeParts
<1>4. /\ Max({q.size, off + len}) \in 0 .. MaxCells /\ q.size <= Max({q.size, off + len})
      /\ off + len <= Max({q.size, off + len})
      /\ \A k \in 0 .. Max({q.size, off + len}) - 1 : k < q.size \/ k \in off .. off + len - 1
  BY <1>1, <1>2, <1>3, NewSize
<1>5. /\ p \in InodeRecord /\ p.size = Max({q.size, off + len}) /\ p.zones = q.zones
      /\ p.mode = q.mode /\ p.nlink = q.nlink
  BY <1>3, <1>4, SizedIs
<1>6. o.blk[b] \in Content
  BY DEF Volume
<1>7. /\ new \in Content
      /\ \A c \in at .. at + len - 1 : new[c] = cells[c - at + 1]
      /\ \A c \in 0 .. Width - 1 : c \notin at .. at + len - 1 => new[c] = o.blk[b][c]
  <2>1. at \in Nat /\ at + len <= CPB
    BY <1>1, Geometry
  <2>2. QED BY <2>1, <1>6, FilledIs
<1>8. /\ <<i, n>> \in Slot /\ \A y \in Slot : Owned(o, y) = b => y = <<i, n>>
      /\ \A j \in Inum : Owned(o, <<j, -1>>) # b
  BY LeadsSelf, OnlyOwner, SlotIn
<1>9. \A x \in Slot : Owned(o, x) \in Zone
  BY DEF Sound
<1> HIDE DEF n, at, q
<1>10. \A x \in Slot : Owned(g, x) = Owned(o, x)
  BY <1>7, <1>8, <1>9, DataWrite
<1>11. \A j \in Inum : \A k \in Nat : k < MaxCells =>
         At(g, j, k) = IF Owned(o, <<j, k \div CPB>>) = b THEN new[k % CPB] ELSE At(o, j, k)
  BY <1>7, <1>9, <1>10, BlkCells, ZenonT(30)
<1>12. g \in Volume /\ g.ino = o.ino /\ g.free = o.free
  BY <1>7, BlkSetIs
<1>13. f = InoSet(g, i, p)
  OBVIOUS
<1> HIDE DEF g
<1>14. /\ f \in Volume /\ f.ino[i] = p /\ f.blk = g.blk /\ f.free = g.free
       /\ \A j \in Inum : j # i => f.ino[j] = g.ino[j]
  <2>1. /\ InoSet(g, i, p) \in Volume /\ InoSet(g, i, p).ino[i] = p
        /\ InoSet(g, i, p).blk = g.blk /\ InoSet(g, i, p).free = g.free
        /\ \A j \in Inum : j # i => InoSet(g, i, p).ino[j] = g.ino[j]
    BY <1>5, <1>12, InoSetIs
  <2>2. QED BY <2>1, <1>13
<1>15. \A x \in Slot : Owned(f, x) = Owned(g, x)
  BY <1>5, <1>12, <1>13, SameZones DEF q
<1>16. \A x \in Slot : Owned(f, x) = Owned(o, x)
  BY <1>10, <1>15
<1>17. Sound(f) /\ Leads(o, f)
  BY <1>12, <1>14, <1>16, SoundSame
<1>18. Full(o) => Full(f)
  BY <1>12, <1>14, <1>16, FullSame
<1>19. \A j \in Inum : \A k \in Nat : k < MaxCells =>
         At(f, j, k) = IF Owned(o, <<j, k \div CPB>>) = b THEN new[k % CPB] ELSE At(o, j, k)
  <2> SUFFICES ASSUME NEW j \in Inum, NEW k \in Nat, k < MaxCells PROVE At(f, j, k) = At(g, j, k)
    BY <1>11
  <2>1. /\ <<j, k \div CPB>> \in Slot
        /\ At(f, j, k) = IF Owned(f, <<j, k \div CPB>>) = 0 THEN ZeroCell
                         ELSE f.blk[Owned(f, <<j, k \div CPB>>)][k % CPB]
    BY <1>14, CellAtIs DEF At
  <2>2. At(g, j, k) = IF Owned(g, <<j, k \div CPB>>) = 0 THEN ZeroCell
                      ELSE g.blk[Owned(g, <<j, k \div CPB>>)][k % CPB]
    BY <1>12, CellAtIs DEF At
  <2>3. Owned(f, <<j, k \div CPB>>) = Owned(g, <<j, k \div CPB>>)
    BY <2>1, <1>15
  <2>4. QED BY <2>1, <2>2, <2>3, <1>14
<1>20. \A k \in Nat :
         /\ k \div CPB = n =>
              /\ k - off = (k % CPB) - at
              /\ (k % CPB \in at .. at + len - 1 <=> k \in off .. off + len - 1)
         /\ k \in off .. off + len - 1 => k \div CPB = n
  BY <1>1, Within DEF n, at
<1>21. ASSUME NEW k \in off .. off + len - 1 PROVE At(f, i, k) = cells[k - off + 1]
  <2>1. k \in Nat /\ k < MaxCells
    BY <1>1, <1>2, Geometry
  <2>2. k \div CPB = n /\ k - off = (k % CPB) - at /\ k % CPB \in at .. at + len - 1
    BY <2>1, <1>20
  <2>3. At(f, i, k) = new[k % CPB]
    BY <2>1, <2>2, <1>19 DEF n
  <2>4. QED BY <2>2, <2>3, <1>7
<1>22. ASSUME NEW j \in Inum, NEW k \in 0 .. d.ino[j].size - 1,
              ~ (j = i /\ k \in off .. off + len - 1)
       PROVE  At(f, j, k) = At(d, j, k)
  <2>1. d.ino[j].size \in 0 .. MaxCells
    BY VolumeParts, InodeParts
  <2>2. k \in Nat /\ k < MaxCells /\ <<j, k \div CPB>> \in Slot
    BY <2>1, SlotOf
  <2>3. At(o, j, k) = At(d, j, k)
    BY CellKept DEF At
  <2>4. CASE Owned(o, <<j, k \div CPB>>) = b
    <3>1. <<j, k \div CPB>> = <<i, n>>
      BY <2>2, <2>4, <1>8
    <3>2. j = i /\ k \div CPB = n
      BY <3>1
    <3>3. k % CPB \in 0 .. Width - 1 /\ k % CPB \notin at .. at + len - 1
      <4>1. k % CPB \in 0 .. Width - 1
        BY <2>2, CellAtIs
      <4>2. QED BY <2>2, <3>2, <1>20, <1>22, <4>1
    <3>4. At(f, j, k) = o.blk[b][k % CPB]
      BY <2>2, <2>4, <3>3, <1>7, <1>19
    <3>5. At(o, j, k) = o.blk[b][k % CPB]
      <4>1. b # 0
        BY Geometry
      <4>2. QED BY <2>2, <2>4, <4>1, CellAtIs DEF At
    <3>6. QED BY <2>3, <3>4, <3>5
  <2>5. CASE Owned(o, <<j, k \div CPB>>) # b
    BY <2>2, <2>3, <2>5, <1>19
  <2>6. QED BY <2>4, <2>5
<1>23. Wrote(d, f, i, off, cells)
  BY <1>5, <1>12, <1>14, <1>21, <1>22, ZenonT(30) DEF Wrote, q
<1>24. NoHole(f)
  <2> SUFFICES ASSUME NEW j \in Inum, NEW k \in 0 .. f.ino[j].size - 1
               PROVE  Owned(f, <<j, k \div CPB>>) # 0
    BY DEF NoHole
  <2>1. f.ino[j].size \in 0 .. MaxCells
    BY <1>14, VolumeParts, InodeParts
  <2>2. <<j, k \div CPB>> \in Slot /\ k \in Nat
    BY <2>1, SlotOf
  <2>3. Owned(f, <<j, k \div CPB>>) = Owned(o, <<j, k \div CPB>>)
    BY <2>2, <1>16
  <2>4. CASE j # i
    <3>1. k \in 0 .. o.ino[j].size - 1
      BY <2>4, <1>12, <1>14
    <3>2. QED BY <3>1, <2>3 DEF NoHole
  <2>5. CASE j = i
    <3>1. k < q.size \/ k \in off .. off + len - 1
      BY <2>5, <1>4, <1>5, <1>14
    <3>2. CASE k < q.size
      <4>1. k \in 0 .. o.ino[i].size - 1
        BY <3>2, <2>2, <1>3 DEF q
      <4>2. QED BY <4>1, <2>3, <2>5 DEF NoHole
    <3>3. CASE k \in off .. off + len - 1
      <4>1. k \div CPB = n
        BY <3>3, <2>2, <1>20
      <4>2. Owned(o, <<j, k \div CPB>>) = b
        BY <4>1, <2>5 DEF n
      <4>3. QED BY <4>2, <2>3, Geometry
    <3>4. QED BY <3>1, <3>2, <3>3
  <2>6. QED BY <2>4, <2>5
<1>25. QED BY <1>2, <1>5, <1>7, <1>14, <1>17, <1>18, <1>23, <1>24

-----------------------------------------------------------------------------
(* What a call leaves of the other inodes, and of the inode it writes.     *)
Frame(v, w, i) ==
  /\ \A j \in Inum : j # i => w.ino[j] = v.ino[j] /\ w.dev.ino[j] = v.dev.ino[j]
  /\ w.ino[i].mode = v.ino[i].mode /\ w.ino[i].nlink = v.ino[i].nlink
  /\ v.dev.ino[i].mode = v.ino[i].mode => w.dev.ino[i].mode = w.ino[i].mode
  /\ Full(v.dev) => Full(w.dev)

(* No directory or file has changed.                                       *)
SameCells(d, f) ==
  \A j \in Inum : /\ f.ino[j].size = d.ino[j].size
                  /\ \A k \in 0 .. d.ino[j].size - 1 : At(f, j, k) = At(d, j, k)

(* No entry, count or size has changed.                                    *)
Untouched(d, f) ==
  /\ \A j : Named(f, j) = Named(d, j)
  /\ \A j \in Inum : f.ino[j].nlink = d.ino[j].nlink
  /\ SameCells(d, f)

(* A write that the root directory shows as a complete entry, or not.      *)
Admits(d, i, off, cells) ==
  \/ Hidden(d, i)
  \/ /\ i = Root /\ off = d.ino[Root].size
     /\ \E t \in Inum, s \in Word :
          /\ t # Root /\ d.ino[t].flags = ALOC /\ cells = <<Cell(t, s)>>
          /\ Shown(d, Cell(t, s)) \in CompleteEntries

(* Where no cell changes, nor the inodes that the root directory shows, it *)
(* shows the same.                                                         *)
LEMMA CalmShows ==
  ASSUME NEW d \in Volume, NEW f \in Volume, NEW i \in Inum, SameCells(d, f),
         \A j \in Inum : j # i => f.ino[j] = d.ino[j],
         Rooted(d), IsDir(d, Root), IsDir(f, Root), i = Root \/ Hidden(d, i)
  PROVE  Rooted(f) /\ Visible(f) = Visible(d)
<1>1. Root \in Inum
  BY Geometry
<1>2. \A j \in Inum : j # i => Same(d, f, j)
  BY DEF Same, SameCells
<1>3. /\ \A k \in 0 .. d.ino[Root].size - 1 : At(f, Root, k) = At(d, Root, k)
      /\ f.ino[Root].size = d.ino[Root].size
  BY <1>1 DEF SameCells
<1>4. Shows(d, f, i)
  BY <1>2, <1>3 DEF Shows
<1>5. QED BY <1>3, <1>4, VisibleSame

(* A write that may show as a complete entry, or as nothing, does just     *)
(* that.                                                                   *)
LEMMA WroteShows ==
  ASSUME NEW d \in Volume, NEW f \in Volume, NEW i \in Inum, NEW off \in Nat, NEW cells,
         Wrote(d, f, i, off, cells), Admits(d, i, off, cells),
         Rooted(d), IsDir(d, Root), IsDir(f, Root)
  PROVE  Rooted(f) /\ Follows(d, f)
<1>1. Root \in Inum /\ d.ino[Root].size \in Nat /\ \A j \in Inum : d.ino[j].size \in Nat
  BY Geometry, VolumeParts, InodeParts
<1>2. \A j \in Inum : j # i => Same(d, f, j)
  BY DEF Same, Wrote
<1>3. CASE Hidden(d, i)
  <2>1. Root # i
    BY <1>3 DEF Hidden
  <2>2. /\ \A k \in 0 .. d.ino[Root].size - 1 : At(f, Root, k) = At(d, Root, k)
        /\ f.ino[Root].size = d.ino[Root].size
    BY <1>1, <1>2, <2>1 DEF Same
  <2>3. Shows(d, f, i)
    BY <1>2, <1>3, <2>2 DEF Shows
  <2>4. QED BY <2>2, <2>3, VisibleSame DEF Follows
<1>4. CASE /\ i = Root /\ off = d.ino[Root].size
           /\ \E t \in Inum, s \in Word :
                /\ t # Root /\ d.ino[t].flags = ALOC /\ cells = <<Cell(t, s)>>
                /\ Shown(d, Cell(t, s)) \in CompleteEntries
  <2>1. PICK t \in Inum, s \in Word :
          /\ t # Root /\ d.ino[t].flags = ALOC /\ cells = <<Cell(t, s)>>
          /\ Shown(d, Cell(t, s)) \in CompleteEntries
    BY <1>4
  <2> DEFINE n == d.ino[Root].size
  <2>2. Len(cells) = 1 /\ cells[1] = Cell(t, s)
    BY <2>1
  <2>3. n .. n + 1 - 1 = {n} /\ n \in n .. n + 1 - 1 /\ n - n + 1 = 1
    BY <1>1
  <2>4. At(f, Root, n) = Cell(t, s)
    BY <1>4, <2>2, <2>3 DEF Wrote
  <2>5. f.ino[Root].size = n + 1
    <3>1. f.ino[Root].size = Max({n, n + 1})
      BY <1>4, <2>2 DEF Wrote
    <3>2. QED BY <1>1, <3>1, MaxOfTwo
  <2>6. \A k \in 0 .. n - 1 : At(f, Root, k) = At(d, Root, k)
    <3>1. \A k \in 0 .. n - 1 : k # n
      BY <1>1
    <3>2. QED BY <1>1, <1>4, <2>2, <2>3, <3>1 DEF Wrote
  <2>7. Shows(d, f, Root)
    BY <1>2, <1>4, <2>6 DEF Shows
  <2> HIDE DEF n
  <2>8. Visible(f) = Append(Visible(d), Shown(d, Cell(t, s))) /\ Rooted(f)
    BY <2>1, <2>4, <2>5, <2>7, VisibleMore DEF n
  <2>9. QED BY <2>1, <2>8 DEF Follows
<1>5. QED BY <1>3, <1>4 DEF Admits

(* The inode in memory once bmap has allocated for it.                     *)
LEMMA Mapped ==
  ASSUME NEW l \in BOOLEAN, NEW i \in Inum, NEW v, Synced(v, i, l), NEW w, Inside(w, i, l),
         Grew(v, w, i)
  PROVE  /\ Ov(w, i) \in Volume /\ Sound(Ov(w, i)) /\ NoHole(Ov(w, i)) /\ Reads(v.dev, Ov(w, i))
         /\ Ov(w, i).ino[i] = w.ino[i] /\ w.ino[i].flags = ALOC
         /\ \A j \in Inum : j # i => Ov(w, i).ino[j] = v.dev.ino[j]
         /\ w.ino[i].size = v.dev.ino[i].size /\ w.ino[i].nlink = v.dev.ino[i].nlink
         /\ w.ino[i].mode = v.dev.ino[i].mode \/ v.dev.ino[i].size = 0
         /\ \A t : Named(Ov(w, i), t) = Named(v.dev, t)
         /\ Full(v.dev) => Full(Ov(w, i))
<1>1. /\ v \in Run /\ v.dev \in Volume /\ NoHole(v.dev) /\ Alike(v.ino[i], v.dev.ino[i])
      /\ v.ino[i].flags = ALOC /\ v.ino[i].nlink = v.dev.ino[i].nlink /\ w \in Run
      /\ Sound(Ov(w, i)) /\ NoHole(Ov(w, i))
  BY RunParts DEF Synced, Logged, Good, Inside
<1>2. /\ Full(v.dev) => Full(Ov(v, i))
      /\ Reads(v.dev, Ov(v, i))
  BY SyncedInside
<1>3. /\ Ov(w, i) \in Volume /\ Ov(w, i).ino[i] = w.ino[i]
      /\ \A j \in Inum : j # i => Ov(w, i).ino[j] = w.dev.ino[j]
  BY <1>1, OvIs
<1>4. /\ w.dev.ino = v.dev.ino /\ Reads(Ov(v, i), Ov(w, i))
      /\ Full(Ov(v, i)) => Full(Ov(w, i))
      /\ SameMeta(v.ino[i], w.ino[i])
  BY DEF Grew
<1>5. Reads(v.dev, Ov(w, i))
  BY <1>2, <1>4, ReadsTransitive
<1>6. /\ v.ino[i].size = v.dev.ino[i].size
      /\ v.ino[i].mode = v.dev.ino[i].mode \/ v.dev.ino[i].size = 0
  BY <1>1 DEF Alike
<1>7. /\ w.ino[i].size = v.dev.ino[i].size /\ w.ino[i].nlink = v.dev.ino[i].nlink
      /\ w.ino[i].mode = v.dev.ino[i].mode \/ v.dev.ino[i].size = 0
      /\ w.ino[i].flags = ALOC
  BY <1>1, <1>4, <1>6 DEF SameMeta
<1>8. \A j \in Inum : /\ Ov(w, i).ino[j].size = v.dev.ino[j].size
                      /\ (Ov(w, i).ino[j].mode = v.dev.ino[j].mode \/ v.dev.ino[j].size = 0)
  BY <1>3, <1>4, <1>7
<1>9. \A t : Named(Ov(w, i), t) = Named(v.dev, t)
  BY <1>1, <1>3, <1>5, <1>8, EntriesKept
<1>10. \A j \in Inum : j # i => Ov(w, i).ino[j] = v.dev.ino[j]
  BY <1>3, <1>4
<1>11. QED BY <1>1, <1>2, <1>3, <1>4, <1>5, <1>7, <1>9, <1>10

(* The inode is written: what is on the device is good.                    *)
LEMMA GoodAgain ==
  ASSUME NEW l \in BOOLEAN, NEW d, Good(d, l), NEW f \in Volume,
         Sound(f), NoHole(f), NEW i \in Inum,
         f.ino[i].flags = ALOC, \A j \in Inum : j # i => f.ino[j] = d.ino[j],
         f.ino[i].nlink = d.ino[i].nlink,
         l /\ i = Root => Type(f.ino[i].mode) = IFDIR,
         l => \A t : Named(d, t) \subseteq Named(f, t),
         l => Rooted(f)
  PROVE  Good(f, l)
<1>1. d \in Volume /\ Unused(d) /\ (l => Linked(d) /\ IsDir(d, Root))
  BY DEF Good
<1>2. ALOC # 0
  BY DEF ALOC
<1>3. Unused(f)
  BY <1>1, <1>2 DEF Unused
<1>4. ASSUME l PROVE Linked(f) /\ IsDir(f, Root)
  <2>1. \A j \in Inum : f.ino[j].nlink = d.ino[j].nlink /\ d.ino[j].nlink \in Nat
    BY <1>1, VolumeParts, InodeParts
  <2>2. \A j \in Inum : f.ino[j].nlink <= d.ino[j].nlink
    BY <2>1
  <2>3. Linked(f)
    BY <1>1, <1>4, <2>2, LinkedMore
  <2>4. IsDir(f, Root)
    BY <1>1, <1>4, Geometry DEF IsDir
  <2>5. QED BY <2>3, <2>4
<1>5. QED BY <1>3, <1>4 DEF Good

(* Nothing was written but the inode.                                      *)
LEMMA WriteNone ==
  ASSUME NEW l \in BOOLEAN, NEW i \in Inum, NEW v, Synced(v, i, l), NEW w, Inside(w, i, l),
         Grew(v, w, i), l => i = Root \/ Hidden(v.dev, i),
         NEW x, x = [Update(w, i) EXCEPT !.r = 0]
  PROVE  Synced(x, i, l) /\ Frame(v, x, i) /\ x.r = 0 /\ Untouched(v.dev, x.dev)
<1> DEFINE o == Ov(w, i)
           u == Update(w, i)
<1>1. /\ o \in Volume /\ Sound(o) /\ NoHole(o) /\ Reads(v.dev, o)
      /\ o.ino[i] = w.ino[i] /\ w.ino[i].flags = ALOC
      /\ \A j \in Inum : j # i => o.ino[j] = v.dev.ino[j]
      /\ w.ino[i].size = v.dev.ino[i].size /\ w.ino[i].nlink = v.dev.ino[i].nlink
      /\ w.ino[i].mode = v.dev.ino[i].mode \/ v.dev.ino[i].size = 0
      /\ \A t : Named(o, t) = Named(v.dev, t)
      /\ Full(v.dev) => Full(o)
  BY Mapped
<1>2. /\ w \in Run /\ w.status = "ok" /\ Logged(w, l) /\ Good(v.dev, l)
      /\ w.dev.ino = v.dev.ino /\ SameMeta(v.ino[i], w.ino[i])
      /\ \A j \in Inum : j # i => w.ino[j] = v.ino[j]
      /\ l /\ i = Root => Type(v.ino[i].mode) = IFDIR
      /\ v.ino[i].nlink = v.dev.ino[i].nlink
  BY DEF Inside, Grew, Synced, Logged
<1>3. u = Emit(w, o)
  BY Writes DEF Update, Ov
<1> HIDE DEF o, u
<1>30. /\ v.dev \in Volume /\ NoHole(v.dev) /\ Reads(v.dev, w.dev) /\ Good(w.dev, l)
       /\ w.dev \in Volume /\ Sound(w.dev)
  BY <1>2 DEF Good, Logged, Grew
<1>31. SameCells(v.dev, o)
  <2>1. \A j \in Inum : o.ino[j].size = v.dev.ino[j].size
    BY <1>1
  <2>2. QED BY <2>1, <1>1, <1>30, CellKept DEF SameCells, At
<1>32. l /\ i = Root => Type(o.ino[i].mode) = IFDIR
  BY <1>1, <1>2 DEF SameMeta
<1>33. l => Rooted(o) /\ Visible(o) = Visible(v.dev)
  <2> SUFFICES ASSUME l PROVE Rooted(o) /\ Visible(o) = Visible(v.dev)
    OBVIOUS
  <2>1. Rooted(v.dev) /\ IsDir(v.dev, Root) /\ Root \in Inum
    BY <1>2, Geometry DEF Good
  <2>2. IsDir(o, Root)
    BY <1>1, <1>32, <2>1 DEF IsDir
  <2>3. QED BY <1>1, <1>30, <1>31, <2>1, <2>2, CalmShows
<1>34. l => Follows(w.dev, o)
  <2>1. l => Visible(w.dev) = Visible(v.dev)
    BY <1>2, <1>30, GoodCalm
  <2>2. QED BY <1>33, <2>1 DEF Follows
<1>4. Good(o, l)
  <2>1. o.ino[i].flags = ALOC /\ o.ino[i].nlink = v.dev.ino[i].nlink
    BY <1>1
  <2>2. l /\ i = Root => Type(o.ino[i].mode) = IFDIR
    BY <1>1, <1>2 DEF SameMeta
  <2>3. l => \A t : Named(v.dev, t) \subseteq Named(o, t)
    BY <1>1
  <2>4. QED BY <1>1, <1>2, <1>33, <2>1, <2>2, <2>3, GoodAgain
<1>5. /\ u \in Run /\ u.dev = o /\ u.ino = w.ino /\ u.status = "ok" /\ Logged(u, l)
  BY <1>2, <1>3, <1>34, <1>4, Emitted
<1>6. /\ x \in Run /\ x.dev = u.dev /\ x.ino = u.ino /\ x.log = u.log /\ x.r = 0
      /\ x.status = u.status
  BY <1>5, WithResult DEF u
<1>7. Logged(x, l)
  BY <1>5, <1>6 DEF Logged
<1>8. Synced(x, i, l)
  BY <1>1, <1>2, <1>5, <1>6, <1>7 DEF Synced, Alike, SameMeta
<1>9. Frame(v, x, i)
  BY <1>1, <1>2, <1>5, <1>6 DEF Frame, SameMeta
<1>10. Untouched(v.dev, x.dev)
  BY <1>1, <1>31, <1>5, <1>6 DEF Untouched
<1>11. QED BY <1>6, <1>8, <1>9, <1>10

(* Replacing an inode twice, and a block in between.                       *)
LEMMA InoBlkSwap ==
  ASSUME NEW d \in Volume, NEW i \in Inum, NEW q \in InodeRecord, NEW p \in InodeRecord,
         NEW b \in Block, NEW new \in Content
  PROVE  InoSet(BlkSet(InoSet(d, i, q), b, new), i, p) = InoSet(BlkSet(d, b, new), i, p)
<1>1. BlkSet(InoSet(d, i, q), b, new) = InoSet(BlkSet(d, b, new), i, q)
  BY DEF InoSet, BlkSet, Volume
<1>2. BlkSet(d, b, new) \in Volume
  BY BlkSetIs
<1> DEFINE g == BlkSet(d, b, new)
<1> HIDE DEF g
<1>3. InoSet(InoSet(g, i, q), i, p) = InoSet(g, i, p)
  BY <1>2, InoSetTwice DEF g
<1>4. QED BY <1>1, <1>3 DEF g

(* The cells of a write fit in its block.                                  *)
LEMMA Fits ==
  ASSUME NEW at \in 0 .. CPB - 1, NEW len \in Nat, len <= CPB - at
  PROVE  at \in Nat /\ at + len <= CPB
BY Geometry

(* bmap has found the block of a write.                                    *)
Found(v, w, i, l, off, cells) ==
  /\ Synced(v, i, l) /\ Inside(w, i, l) /\ Grew(v, w, i)
  /\ off <= v.ino[i].size /\ Len(cells) <= CPB - (off % CPB)
  /\ off \div CPB \in 0 .. NDir + NInd - 1
  /\ w.r \in Block /\ w.r = Owned(Ov(w, i), <<i, off \div CPB>>)
  /\ l => Clear(v.dev, i, off, Len(cells)) /\ Admits(v.dev, i, off, cells)

(* fs_write, once bmap has found the block.                                *)
Put(w, i, off, cells) ==
  [Update(Grow(FillBlock(w, off % CPB, cells), i, off + Len(cells)), i) EXCEPT !.r = Len(cells)]

(* The cells and the inode were written.                                   *)
LEMMA WriteSome ==
  ASSUME NEW l \in BOOLEAN, NEW i \in Inum, NEW v, NEW w, NEW off \in Nat,
         NEW cells \in Seq(CellSet), Found(v, w, i, l, off, cells),
         NEW z, z = Put(w, i, off, cells)
  PROVE  /\ Synced(z, i, l) /\ Frame(v, z, i) /\ z.r = Len(cells)
         /\ Wrote(v.dev, z.dev, i, off, cells) /\ z.dev.ino[i] = z.ino[i]
         /\ off + Len(cells) <= MaxCells
<1>a. /\ Synced(v, i, l) /\ Inside(w, i, l) /\ Grew(v, w, i)
      /\ off <= v.ino[i].size /\ Len(cells) <= CPB - (off % CPB)
      /\ off \div CPB \in 0 .. NDir + NInd - 1
      /\ w.r \in Block /\ w.r = Owned(Ov(w, i), <<i, off \div CPB>>)
      /\ l => Clear(v.dev, i, off, Len(cells)) /\ Admits(v.dev, i, off, cells)
  BY DEF Found
<1> USE <1>a
<1> DEFINE o == Ov(w, i)
           d == v.dev
           e == w.dev
           b == w.r
           n == off \div CPB
           at == off % CPB
           len == Len(cells)
           new == Filled(o.blk[b], at, cells)
           p == Sized(o.ino[i], Max({o.ino[i].size, off + len}))
           f == InoSet(BlkSet(o, b, new), i, p)
           x == FillBlock(w, at, cells)
           y == Grow(x, i, off + len)
           u == Update(y, i)
<1>1. /\ o \in Volume /\ Sound(o) /\ NoHole(o) /\ Reads(d, o)
      /\ o.ino[i] = w.ino[i] /\ w.ino[i].flags = ALOC
      /\ \A j \in Inum : j # i => o.ino[j] = d.ino[j]
      /\ w.ino[i].size = d.ino[i].size /\ w.ino[i].nlink = d.ino[i].nlink
      /\ w.ino[i].mode = d.ino[i].mode \/ d.ino[i].size = 0
      /\ \A t : Named(o, t) = Named(d, t)
      /\ Full(d) => Full(o)
  BY Mapped
<1>2. /\ w \in Run /\ w.status = "ok" /\ Logged(w, l) /\ Leads(e, o) /\ Good(d, l) /\ Good(e, l)
      /\ e.ino = d.ino /\ SameMeta(v.ino[i], w.ino[i]) /\ Reads(d, e)
      /\ \A j \in Inum : j # i => w.ino[j] = v.ino[j]
      /\ l /\ i = Root => Type(v.ino[i].mode) = IFDIR
      /\ v.ino[i].nlink = d.ino[i].nlink /\ Alike(v.ino[i], d.ino[i])
  BY DEF Inside, Grew, Synced, Logged
<1>3. /\ d \in Volume /\ NoHole(d) /\ e \in Volume /\ w.ino[i] \in InodeRecord /\ NoHole(e)
      /\ d.ino[i].size \in Nat
  <2>1. d \in Volume /\ NoHole(d) /\ e \in Volume /\ NoHole(e)
    BY <1>2 DEF Good
  <2>2. w.ino[i] \in InodeRecord /\ d.ino[i].size \in Nat
    BY <1>2, <2>1, RunParts, VolumeParts, InodeParts
  <2>3. QED BY <2>1, <2>2
<1>4. o.blk = e.blk
  BY <1>2, OvIs
<1>5. off <= d.ino[i].size
  BY <1>2 DEF Alike
<1>6. len \in Nat
  OBVIOUS
<1>7. /\ p \in InodeRecord /\ f \in Volume /\ f.ino[i] = p /\ off + len <= MaxCells
      /\ Sound(f) /\ NoHole(f) /\ (Full(o) => Full(f)) /\ Wrote(d, f, i, off, cells)
      /\ new \in Content
  <2> HIDE DEF o, b, n, at, new, p, f
  <2>1. /\ o.ino[i].size = d.ino[i].size /\ o.ino[i].nlink = d.ino[i].nlink
        /\ o.ino[i].mode = d.ino[i].mode \/ d.ino[i].size = 0
    BY <1>1
  <2>2. /\ b \in Block /\ b = Owned(o, <<i, off \div CPB>>)
        /\ new = Filled(o.blk[b], off % CPB, cells)
        /\ p = Sized(o.ino[i], Max({o.ino[i].size, off + Len(cells)}))
        /\ f = InoSet(BlkSet(o, b, new), i, p)
    BY DEF o, b, n, at, new, p, f
  <2>3. off \div CPB \in 0 .. NDir + NInd - 1 /\ Len(cells) <= CPB - (off % CPB)
    OBVIOUS
  <2> HIDE DEF d, len
  <2>4. /\ d \in Volume /\ NoHole(d) /\ o \in Volume /\ Sound(o) /\ NoHole(o) /\ Reads(d, o)
        /\ off <= d.ino[i].size
        /\ \A j \in Inum : j # i => o.ino[j] = d.ino[j]
    BY <1>1, <1>3, <1>5
  <2>5. /\ p \in InodeRecord /\ f \in Volume /\ f.ino[i] = p /\ off + Len(cells) <= MaxCells
        /\ Sound(f) /\ NoHole(f) /\ (Full(o) => Full(f)) /\ Wrote(d, f, i, off, cells)
        /\ new \in Content
    BY <2>1, <2>2, <2>3, <2>4, WriteVolume, SMTT(60)
  <2>6. QED BY <2>5 DEF len
<1>8. x = Emit(w, BlkSet(e, b, new))
  BY <1>4, Writes DEF FillBlock
<1>80. l => /\ i = Root \/ Hidden(e, i)
            /\ Visible(e) = Visible(d) /\ Rooted(d) /\ IsDir(d, Root)
  <2> SUFFICES ASSUME l PROVE /\ i = Root \/ Hidden(e, i)
                              /\ Visible(e) = Visible(d) /\ Rooted(d) /\ IsDir(d, Root)
    OBVIOUS
  <2>1. Rooted(d) /\ IsDir(d, Root) /\ Root \in Inum
    BY <1>2, Geometry DEF Good
  <2>2. i = Root \/ Hidden(d, i)
    BY DEF Admits
  <2> HIDE DEF d, e
  <2>3. Sound(e)
    BY <1>2 DEF Good
  <2>4. Visible(e) = Visible(d)
    BY <1>2, <1>3, <2>3, GoodCalm
  <2>5. d.ino[Root].size \in Nat
    BY <1>3, <2>1, VolumeParts, InodeParts
  <2>6. \A k \in 2 .. d.ino[Root].size - 1 : At(e, Root, k) = At(d, Root, k)
    <3>1. \A k \in 2 .. d.ino[Root].size - 1 : k \in 0 .. d.ino[Root].size - 1
      BY <2>5
    <3>2. QED BY <3>1, <1>2, <1>3, <2>1, CellKept DEF At
  <2>7. Hidden(d, i) => Hidden(e, i)
    BY <1>2, <2>6 DEF Hidden
  <2>8. QED BY <2>1, <2>2, <2>4, <2>7
<1>9. Good(BlkSet(e, b, new), l) /\ (l => Visible(BlkSet(e, b, new)) = Visible(e))
  <2>1. ASSUME l, IsDir(e, i), NEW k \in 0 .. e.ino[i].size - 1, k \div CPB = n, At(e, i, k).n # 0
        PROVE  new[k % CPB] = At(e, i, k)
    <3>1. e.ino[i].size \in 0 .. MaxCells
      BY <1>3, VolumeParts, InodeParts
    <3>2. k \in Nat /\ k < MaxCells /\ <<i, k \div CPB>> \in Slot
      BY <3>1, SlotOf
    <3>3. At(e, i, k) = At(d, i, k)
      BY <1>2, <1>3, CellKept DEF At
    <3>4. k \notin off .. off + len - 1
      <4>1. IsDir(d, i) /\ k < d.ino[i].size
        BY <1>2, <1>3, <2>1 DEF IsDir
      <4>2. QED BY <4>1, <2>1, <3>3 DEF Clear
    <3>5. k % CPB \notin at .. at + len - 1 /\ k % CPB \in 0 .. Width - 1
      <4>1. k % CPB \in 0 .. Width - 1
        BY <1>3, <3>2, CellAtIs
      <4>2. k % CPB \in at .. at + len - 1 <=> k \in off .. off + len - 1
        BY <1>6, <3>2, <2>1, Within
      <4>3. QED BY <4>1, <4>2, <3>4
    <3>6. new[k % CPB] = o.blk[b][k % CPB]
      <4>1. o.blk[b] \in Content
        BY <1>1 DEF Volume
      <4>2. at \in Nat /\ at + len <= CPB
        <5>1. at \in 0 .. CPB - 1
          BY Position
        <5> HIDE DEF at, len
        <5>3. len <= CPB - at
          BY DEF at, len
        <5>2. QED BY <5>1, <5>3, <1>6, Fits DEF len
      <4> HIDE DEF at, o, b
      <4>3. QED BY <3>5, <4>1, <4>2, FilledIs
    <3>7. Owned(e, <<i, n>>) = b
      <4>1. Owned(e, <<i, n>>) # 0
        BY <1>3, <2>1 DEF NoHole
      <4>2. QED BY <4>1, <3>2, <2>1, <1>2 DEF Leads
    <3>8. At(e, i, k) = e.blk[b][k % CPB]
      <4>1. At(e, i, k) = IF Owned(e, <<i, k \div CPB>>) = 0 THEN ZeroCell
                          ELSE e.blk[Owned(e, <<i, k \div CPB>>)][k % CPB]
        BY <1>3, <3>2, CellAtIs DEF At
      <4>2. b # 0
        BY Geometry
      <4>3. QED BY <4>1, <4>2, <3>7, <2>1
    <3>9. QED BY <3>6, <3>8, <1>4
  <2>2. l /\ IsDir(e, i) => \A k \in 0 .. e.ino[i].size - 1 :
          k \div CPB = n /\ At(e, i, k).n # 0 => new[k % CPB] = At(e, i, k)
    BY <2>1
  <2> HIDE DEF new, o
  <2>3. n \in 0 .. NDir + NInd - 1 /\ Owned(o, <<i, n>>) = b /\ b \in Block
    BY DEF o
  <2> HIDE DEF n, b, e
  <2>4. l => i = Root \/ Hidden(e, i)
    BY <1>80
  <2>5. QED BY <1>1, <1>2, <1>7, <2>2, <2>3, <2>4, FillDevice
<1> HIDE DEF x
<1>10. /\ x \in Run /\ x.dev = BlkSet(e, b, new) /\ x.ino = w.ino /\ x.r = w.r
       /\ x.status = "ok" /\ Logged(x, l)
  <2>1. l => Follows(e, BlkSet(e, b, new))
    BY <1>9 DEF Follows
  <2>2. QED BY <1>2, <1>8, <1>9, <2>1, Emitted
<1>11. y = SetIno(x, i, p)
  BY <1>1, <1>10 DEF Grow, Sized
<1> HIDE DEF p, new, o, y
<1>12. /\ y \in Run /\ y.dev = x.dev /\ y.log = x.log /\ y.r = x.r
       /\ y.status = x.status /\ y.ino = [x.ino EXCEPT ![i] = p] /\ y.ino[i] = p
       /\ \A j \in Inum : j # i => y.ino[j] = x.ino[j]
  BY <1>7, <1>10, <1>11, WithInode
<1>13. u = Emit(y, f)
  <2>1. u = Emit(y, InoSet(y.dev, i, p))
    BY <1>12 DEF u, Update, WriteIno, InoSet
  <2>2. o = InoSet(e, i, w.ino[i])
    BY DEF o, Ov
  <2>3. f = InoSet(BlkSet(e, b, new), i, p)
    BY <2>2, <1>3, <1>7, InoBlkSwap
  <2>4. QED BY <2>1, <2>3, <1>10, <1>12
<1> HIDE DEF f, u
<1>14. p.nlink = d.ino[i].nlink /\ p.mode = v.ino[i].mode /\ p.flags = ALOC
  <2>1. p.nlink = o.ino[i].nlink /\ p.mode = o.ino[i].mode /\ p.flags = o.ino[i].flags
    BY DEF p, Sized
  <2>2. QED BY <2>1, <1>1, <1>2 DEF SameMeta
<1>15. \A j \in Inum : j # i => f.ino[j] = d.ino[j]
  BY <1>7 DEF Wrote
<1>150. l => Rooted(f) /\ Follows(BlkSet(e, b, new), f)
  <2> SUFFICES ASSUME l PROVE Rooted(f) /\ Follows(BlkSet(e, b, new), f)
    OBVIOUS
  <2>1. Rooted(d) /\ IsDir(d, Root) /\ Visible(BlkSet(e, b, new)) = Visible(d) /\ Root \in Inum
    BY <1>80, <1>9, Geometry
  <2>2. IsDir(f, Root)
    BY <1>2, <1>7, <1>14, <1>15, <2>1 DEF IsDir
  <2>3. Rooted(f) /\ Follows(d, f)
    BY <1>3, <1>7, <2>1, <2>2, WroteShows
  <2>4. QED BY <2>1, <2>3 DEF Follows
<1>16. Good(f, l)
  <2>1. l => \A t : Named(d, t) \subseteq Named(f, t)
    BY <1>3, <1>5, <1>7, WroteKeeps
  <2>2. f.ino[i].flags = ALOC /\ f.ino[i].nlink = d.ino[i].nlink
    BY <1>7, <1>14
  <2>3. l /\ i = Root => Type(f.ino[i].mode) = IFDIR
    BY <1>2, <1>7, <1>14
  <2>4. QED BY <1>2, <1>7, <1>15, <1>150, <2>1, <2>2, <2>3, GoodAgain
<1>17. /\ u \in Run /\ u.dev = f /\ u.ino = y.ino /\ u.status = "ok" /\ Logged(u, l)
  <2>1. y.status = "ok" /\ Logged(y, l)
    BY <1>10, <1>12 DEF Logged
  <2>2. /\ Emit(y, f) \in Run /\ Emit(y, f).dev = f /\ Emit(y, f).ino = y.ino
        /\ Emit(y, f).r = y.r /\ Emit(y, f).status = "ok" /\ Logged(Emit(y, f), l)
    BY <2>1, <1>10, <1>12, <1>150, <1>16, Emitted
  <2>3. QED BY <2>2, <1>13
<1>18. /\ z \in Run /\ z.dev = u.dev /\ z.ino = u.ino /\ z.log = u.log /\ z.r = len
       /\ z.status = u.status
  <2>1. z = [u EXCEPT !.r = len]
    BY DEF u, y, x, Put
  <2>2. len \in Int
    BY <1>6
  <2> HIDE DEF len
  <2>3. u \in Run
    BY <1>17
  <2>4. QED BY ONLY <2>1, <2>2, <2>3, WithResult
<1>19. z.ino[i] = p /\ z.dev.ino[i] = p /\ z.dev = f
  BY <1>7, <1>12, <1>17, <1>18
<1>20. Logged(z, l)
  BY <1>17, <1>18 DEF Logged
<1>21. Synced(z, i, l)
  <2>1. Alike(z.ino[i], z.dev.ino[i])
    BY <1>19 DEF Alike
  <2>2. z.ino[i].flags = ALOC /\ z.dev.ino[i].flags = ALOC /\ z.ino[i].nlink = z.dev.ino[i].nlink
    BY <1>14, <1>19
  <2>3. l /\ i = Root => Type(z.ino[i].mode) = IFDIR
    BY <1>2, <1>14, <1>19
  <2>4. z \in Run /\ z.status = "ok"
    BY <1>17, <1>18
  <2>5. QED BY <2>1, <2>2, <2>3, <2>4, <1>20 DEF Synced
<1>22. \A j \in Inum : j # i => z.ino[j] = v.ino[j] /\ z.dev.ino[j] = d.ino[j]
  <2>1. \A j \in Inum : j # i => y.ino[j] = v.ino[j]
    BY <1>2, <1>10, <1>12
  <2>2. z.ino = y.ino /\ z.dev = f
    BY <1>17, <1>18
  <2>3. QED BY <2>1, <2>2, <1>15
<1>23. Frame(v, z, i)
  BY <1>1, <1>2, <1>7, <1>14, <1>19, <1>22 DEF Frame
<1>24. QED BY <1>7, <1>18, <1>19, <1>21, <1>23

(* A write that fs_write can be asked for, and its two outcomes.           *)
Writable(v, i, l, off, cells) ==
  /\ Synced(v, i, l) /\ Len(cells) <= CPB - (off % CPB)
  /\ l => Clear(v.dev, i, off, Len(cells)) /\ Admits(v.dev, i, off, cells)

(* fs_write that wrote nothing.                                            *)
Refused(v, z, i, l, off) ==
  /\ Synced(z, i, l) /\ Frame(v, z, i) /\ z.r = 0 /\ Untouched(v.dev, z.dev)
  /\ off > v.ino[i].size \/ off >= MaxCells

(* fs_write that wrote its cells.                                          *)
Stored(v, z, i, l, off, cells) ==
  /\ Synced(z, i, l) /\ Frame(v, z, i) /\ z.r = Len(cells) /\ off <= v.dev.ino[i].size
  /\ Wrote(v.dev, z.dev, i, off, cells) /\ z.dev.ino[i] = z.ino[i]
  /\ off + Len(cells) <= MaxCells

(* fs_write, whatever it finds.                                            *)
LEMMA FsWriteIs ==
  ASSUME NEW l \in BOOLEAN, NEW i \in Inum, NEW v, NEW off \in Nat, NEW cells \in Seq(CellSet),
         Writable(v, i, l, off, cells), NEW z, z = FsWrite(v, i, off, cells)
  PROVE  Ended(z, l) \/ Refused(v, z, i, l, off) \/ Stored(v, z, i, l, off, cells)
<1>a. /\ Synced(v, i, l) /\ Len(cells) <= CPB - (off % CPB)
      /\ l => Clear(v.dev, i, off, Len(cells)) /\ Admits(v.dev, i, off, cells)
  BY DEF Writable
<1> USE <1>a
<1> DEFINE n == off \div CPB
           w == Bmap(v, i, n)
<1>1. v \in Run /\ v.ino[i] \in InodeRecord /\ v.ino[i].size \in Nat
  BY RunParts, InodeParts DEF Synced
<1>2. n \in Nat
  BY Position
<1>3. CASE off > v.ino[i].size
  <2>1. z = [v EXCEPT !.r = 0]
    BY <1>3 DEF FsWrite
  <2>2. 0 \in Int
    OBVIOUS
  <2>3. /\ z \in Run /\ z.dev = v.dev /\ z.ino = v.ino /\ z.log = v.log
        /\ z.r = 0 /\ z.status = v.status
    BY ONLY <1>1, <2>1, <2>2, WithResult
  <2>4. Synced(z, i, l)
    BY <2>3 DEF Synced, Logged
  <2>5. Frame(v, z, i) /\ Untouched(v.dev, z.dev)
    BY <2>3 DEF Frame, Untouched, SameCells
  <2>6. QED BY <1>3, <2>3, <2>4, <2>5 DEF Refused
<1>4. CASE off <= v.ino[i].size
  <2>1. z = WriteCells(w, i, off, cells)
    BY <1>1, <1>4 DEF FsWrite
  <2>2. Inside(v, i, l)
    BY SyncedInside
  <2> HIDE DEF w, n
  <2>3. \/ Ended(w, l) /\ w.r = 0
        \/ /\ Inside(w, i, l) /\ Grew(v, w, i) /\ w.r = 0 /\ n >= NDir + NInd
        \/ /\ Inside(w, i, l) /\ Grew(v, w, i) /\ n \in 0 .. NDir + NInd - 1
           /\ w.r = Owned(Ov(w, i), <<i, n>>) /\ w.r \in Block
    BY <1>2, <2>2, BmapIs DEF w
  <2>4. CASE Ended(w, l) /\ w.r = 0
    <3>1. Update(w, i) = w
      BY <2>4, EndedEmit DEF Update, WriteIno
    <3>2. z = [w EXCEPT !.r = 0]
      BY <2>1, <2>4, <3>1 DEF WriteCells
    <3>3. 0 \in Int
      OBVIOUS
    <3>4. Ended(z, l)
      BY <2>4, <3>2, <3>3, EndedResult
    <3>5. QED BY <3>4
  <2>5. CASE Inside(w, i, l) /\ Grew(v, w, i) /\ w.r = 0 /\ n >= NDir + NInd
    <3>1. z = [Update(w, i) EXCEPT !.r = 0]
      BY <2>1, <2>5 DEF WriteCells
    <3>2. Synced(z, i, l) /\ Frame(v, z, i) /\ z.r = 0 /\ Untouched(v.dev, z.dev)
      <4>1. l => i = Root \/ Hidden(v.dev, i)
        BY DEF Admits
      <4>2. QED BY <2>5, <3>1, <4>1, WriteNone
    <3>3. off >= MaxCells
      <4>1. ~ (n < NDir + NInd)
        BY <1>2, <2>5, Geometry
      <4>2. MaxCells \in Nat
        BY Geometry
      <4>3. QED BY <4>1, <4>2, Reached DEF n
    <3>4. QED BY <3>2, <3>3 DEF Refused
  <2>6. CASE /\ Inside(w, i, l) /\ Grew(v, w, i) /\ n \in 0 .. NDir + NInd - 1
             /\ w.r = Owned(Ov(w, i), <<i, n>>) /\ w.r \in Block
    <3>1. w.r # 0
      BY <2>6, Geometry
    <3>2. z = Put(w, i, off, cells)
      BY <2>1, <3>1 DEF WriteCells, Put
    <3>3. w.r \in Block /\ w.r = Owned(Ov(w, i), <<i, off \div CPB>>)
          /\ off \div CPB \in 0 .. NDir + NInd - 1
      BY <2>6 DEF n
    <3>4. /\ Synced(z, i, l) /\ Frame(v, z, i) /\ z.r = Len(cells)
          /\ Wrote(v.dev, z.dev, i, off, cells) /\ z.dev.ino[i] = z.ino[i]
          /\ off + Len(cells) <= MaxCells
      <4>1. Found(v, w, i, l, off, cells)
        BY <1>4, <2>6, <3>3 DEF Found
      <4>2. QED BY <4>1, <3>2, WriteSome
    <3>5. off <= v.dev.ino[i].size
      BY <1>4 DEF Synced, Alike
    <3>6. QED BY <3>4, <3>5 DEF Stored
  <2>7. QED BY <2>3, <2>4, <2>5, <2>6
<1>5. QED BY <1>1, <1>3, <1>4

(* A write of a run that went wild changes the memory only.                *)
LEMMA EndedFsWrite ==
  ASSUME NEW l \in BOOLEAN, NEW i \in Inum, NEW v, Ended(v, l), NEW off \in Nat,
         NEW cells \in Seq(CellSet), Len(cells) <= CPB - (off % CPB),
         NEW z, z = FsWrite(v, i, off, cells)
  PROVE  Ended(z, l)
<1> DEFINE n == off \div CPB
           w == Bmap(v, i, n)
           y == Grow(w, i, off + Len(cells))
<1>1. v \in Run /\ v.ino[i].size \in Nat
  BY RunParts, InodeParts DEF Ended
<1>2. n \in Nat
  BY Position
<1>3. Ended(w, l) /\ (n >= NDir + NInd => w.r = 0)
  BY <1>2, EndedBmap
<1>4. 0 \in Int /\ Len(cells) \in Int
  OBVIOUS
<1>5. CASE off > v.ino[i].size
  <2>1. z = [v EXCEPT !.r = 0]
    BY <1>5 DEF FsWrite
  <2>2. QED BY <2>1, <1>4, EndedResult
<1>6. CASE ~ (off > v.ino[i].size) /\ w.r = 0
  <2>1. Update(w, i) = w
    BY <1>3, EndedEmit DEF Update, WriteIno
  <2>2. z = [w EXCEPT !.r = 0]
    BY <1>6, <2>1 DEF FsWrite, WriteCells
  <2>3. QED BY <1>3, <1>4, <2>2, EndedResult
<1>7. CASE ~ (off > v.ino[i].size) /\ w.r # 0
  <2>1. z = [Update(Grow(FillBlock(w, off % CPB, cells), i, off + Len(cells)), i)
               EXCEPT !.r = Len(cells)]
    BY <1>7 DEF FsWrite, WriteCells
  <2>2. FillBlock(w, off % CPB, cells) = w
    BY <1>3, EndedEmit DEF FillBlock, WriteBlk
  <2>3. Ended(y, l)
    <3> DEFINE size == Max({w.ino[i].size, off + Len(cells)})
    <3>1. n < NDir + NInd
      BY <1>2, <1>3, <1>7, Geometry
    <3>2. off + Len(cells) \in 0 .. MaxCells
      BY <3>1, InReach, Geometry
    <3>3. w.ino[i] \in InodeRecord /\ w.ino[i].size \in 0 .. MaxCells
      BY <1>3, RunParts, InodeParts DEF Ended
    <3>4. size \in 0 .. MaxCells
      <4>1. w.ino[i].size \in Nat /\ off + Len(cells) \in Nat
        BY <3>2, <3>3, Geometry
      <4>2. QED BY <4>1, <3>2, <3>3, MaxOfTwo
    <3> HIDE DEF size, w
    <3>5. Sized(w.ino[i], size) \in InodeRecord
      BY <3>3, <3>4, SizedIs
    <3>6. y = SetIno(w, i, Sized(w.ino[i], size))
      BY DEF y, Grow, Sized, size
    <3>7. QED BY <1>3, <3>5, <3>6, EndedInode
  <2>4. Update(y, i) = y
    <3> HIDE DEF y
    <3>1. QED BY <2>3, EndedEmit DEF Update, WriteIno
  <2>5. z = [y EXCEPT !.r = Len(cells)]
    BY <2>1, <2>2, <2>4
  <2> HIDE DEF y
  <2>6. QED BY <2>3, <2>5, <1>4, EndedResult
<1>8. QED BY <1>5, <1>6, <1>7

-----------------------------------------------------------------------------
(* fs_dir_lookup and fs_dir_link.                                          *)

(* fs_dir_lookup never finds a name: the flags of an inode have no type.   *)
LEMMA LookupIs ==
  ASSUME NEW v, NEW dp, v.ino[dp].flags \in {0, ALOC}, NEW name
  PROVE  Lookup(v, dp, name) = 0
<1>1. Type(0) # IFDIR /\ Type(ALOC) # IFDIR
  BY DEF Type, ALOC, IFDIR
<1>2. Type(v.ino[dp].flags) # IFDIR
  BY <1>1
<1>3. QED BY <1>2 DEF Lookup

(* A cell depends on the zones of its inode only.                          *)
LEMMA CellAlike ==
  ASSUME NEW d, NEW p, NEW q, p.zones = q.zones, NEW off
  PROVE  CellAt(d, p, off) = CellAt(d, q, off)
BY DEF CellAt, BlockAt

(* One more entry names inode t.                                           *)
Gained(d, f, t) ==
  \A j \in Inum : Cardinality(Named(f, j)) = Cardinality(Named(d, j)) + (IF j = t THEN 1 ELSE 0)

(* An entry written to a free cell of a directory: one more, for its       *)
(* inode.                                                                  *)
LEMMA AddsName ==
  ASSUME NEW d \in Volume, NEW f \in Volume, NEW i \in Inum, NEW off \in Nat, off < MaxCells,
         NEW t \in Inum, NEW s, Wrote(d, f, i, off, <<Cell(t, s)>>), off <= d.ino[i].size,
         IsDir(f, i), IsDir(d, i) \/ d.ino[i].size = 0,
         off < d.ino[i].size => At(d, i, off).n = 0
  PROVE  Gained(d, f, t) /\ f.ino[i].size <= d.ino[i].size + 1
<1> DEFINE e == <<i, off + 1>>
           size == d.ino[i].size
<1>1. /\ size \in 0 .. MaxCells /\ size \in Nat
      /\ \A j \in Inum : d.ino[j].size \in 0 .. MaxCells
  BY VolumeParts, InodeParts
<1>2. Len(<<Cell(t, s)>>) = 1 /\ <<Cell(t, s)>>[1] = Cell(t, s)
  OBVIOUS
<1>3. /\ \A j \in Inum : j # i => f.ino[j] = d.ino[j]
      /\ f.ino[i].size = Max({size, off + 1})
      /\ \A j \in Inum : \A k \in 0 .. d.ino[j].size - 1 :
           ~ (j = i /\ k = off) => At(f, j, k) = At(d, j, k)
      /\ At(f, i, off) = Cell(t, s)
  <2>1. off .. off + 1 - 1 = {off}
    OBVIOUS
  <2>2. off \in off .. off + 1 - 1 /\ off - off + 1 = 1
    OBVIOUS
  <2>3. QED BY <1>2, <2>1, <2>2 DEF Wrote
<1>4. f.ino[i].size = IF size > off THEN size ELSE off + 1
  BY <1>1, <1>3, MaxOfTwo
<1>5. \A x : x \in Entries(d) <=>
        /\ x \in Inum \X (1 .. MaxCells) /\ IsDir(d, x[1]) /\ x[2] <= d.ino[x[1]].size
        /\ At(d, x[1], x[2] - 1).n # 0
  BY EntryIs DEF At
<1>6. \A x : x \in Entries(f) <=>
        /\ x \in Inum \X (1 .. MaxCells) /\ IsDir(f, x[1]) /\ x[2] <= f.ino[x[1]].size
        /\ At(f, x[1], x[2] - 1).n # 0
  BY EntryIs DEF At
<1>7. e \in Inum \X (1 .. MaxCells) /\ e[1] = i /\ e[2] = off + 1 /\ e[2] - 1 = off
  BY Geometry
<1>8. e \in Entries(f)
  <2>1. t # 0 /\ At(f, i, off).n = t
    BY <1>3, Geometry DEF Cell
  <2>2. off + 1 <= f.ino[i].size
    BY <1>1, <1>4
  <2> HIDE DEF e
  <2>3. QED BY <1>6, <1>7, <2>1, <2>2
<1>9. e \notin Entries(d)
  <2> HIDE DEF e, size
  <2>1. CASE off < size
    BY <1>5, <1>7, <2>1 DEF size
  <2>2. CASE ~ (off < size)
    <3>1. ~ (off + 1 <= size)
      BY <1>1, <2>2
    <3>2. QED BY <1>5, <1>7, <3>1 DEF size
  <2>3. QED BY <2>1, <2>2
<1>10. ASSUME NEW x, x # e
       PROVE  /\ x \in Entries(f) <=> x \in Entries(d)
              /\ x \in Entries(d) => At(f, x[1], x[2] - 1) = At(d, x[1], x[2] - 1)
  <2>1. SUFFICES ASSUME x \in Inum \X (1 .. MaxCells)
                 PROVE  /\ x \in Entries(f) <=> x \in Entries(d)
                        /\ x \in Entries(d) => At(f, x[1], x[2] - 1) = At(d, x[1], x[2] - 1)
    <3> HIDE DEF e, size
    <3>1. QED BY <1>5, <1>6
  <2>2. x = <<x[1], x[2]>> /\ x[1] \in Inum /\ x[2] \in Nat /\ x[2] >= 1 /\ x[2] - 1 \in Nat
    BY <2>1, Geometry
  <2>3. CASE x[1] # i
    <3> HIDE DEF e
    <3>1. f.ino[x[1]] = d.ino[x[1]] /\ (IsDir(f, x[1]) <=> IsDir(d, x[1]))
      BY <1>3, <2>2, <2>3 DEF IsDir
    <3>2. ASSUME x[2] <= d.ino[x[1]].size
          PROVE  At(f, x[1], x[2] - 1) = At(d, x[1], x[2] - 1)
      <4>1. x[2] - 1 \in 0 .. d.ino[x[1]].size - 1
        BY <1>1, <2>2, <3>2
      <4>2. QED BY <1>3, <2>2, <2>3, <4>1
    <3> HIDE DEF size
    <3>3. QED BY <1>5, <1>6, <3>1, <3>2
  <2>4. CASE x[1] = i
    <3>1. x[2] - 1 # off
      BY <1>10, <2>2, <2>4
    <3> HIDE DEF e
    <3>2. x[2] <= f.ino[i].size <=> x[2] <= size
      BY <1>1, <1>4, <2>2, <3>1
    <3>3. ASSUME x[2] <= size
          PROVE  At(f, i, x[2] - 1) = At(d, i, x[2] - 1) /\ IsDir(d, i)
      <4>1. x[2] - 1 \in 0 .. d.ino[i].size - 1 /\ size # 0
        BY <1>1, <2>2, <3>3
      <4>2. QED BY <1>3, <3>1, <4>1
    <3>4. QED BY <1>5, <1>6, <2>1, <2>4, <3>2, <3>3
  <2>5. QED BY <2>3, <2>4
<1>11. Named(f, t) = Named(d, t) \union {e}
  <2>1. At(f, e[1], e[2] - 1).n = t
    BY <1>3, <1>7 DEF Cell
  <2> HIDE DEF e, size
  <2>2. QED BY <1>8, <1>9, <1>10, <2>1 DEF Named, At
<1>12. \A j \in Inum : j # t => Named(f, j) = Named(d, j)
  <2>1. At(f, e[1], e[2] - 1).n = t
    BY <1>3, <1>7 DEF Cell
  <2> HIDE DEF e, size
  <2>2. QED BY <1>8, <1>9, <1>10, <2>1 DEF Named, At
<1>13. e \notin Named(d, t)
  BY <1>9 DEF Named
<1>14. Cardinality(Named(f, t)) = Cardinality(Named(d, t)) + 1
  <2> HIDE DEF e
  <2>1. QED BY <1>11, <1>13, NamedFinite, FS_AddElement
<1>15. f.ino[i].size <= size + 1
  BY <1>1, <1>4
<1>16. Gained(d, f, t)
  BY <1>12, <1>14, NamedFinite DEF Gained
<1>17. QED BY <1>15, <1>16

(* An inode that the rest of the run leaves alone.                         *)
LEMMA SyncedOther ==
  ASSUME NEW l \in BOOLEAN, NEW v, NEW j \in Inum, Synced(v, j, l),
         NEW w, w \in Run, w.status = "ok", Logged(w, l),
         w.ino[j] = v.ino[j], w.dev.ino[j] = v.dev.ino[j]
  PROVE  Synced(w, j, l)
BY DEF Synced

(* An inode was changed in memory and then written.                        *)
Ready(v, i, l, p) ==
  /\ v \in Run /\ v.status = "ok" /\ Logged(v, l)
  /\ p \in InodeRecord /\ Alike(p, v.dev.ino[i]) /\ p.flags = ALOC
  /\ l => /\ p.nlink <= Cardinality(Named(v.dev, i))
          /\ i = Root => Type(p.mode) = IFDIR
          /\ i = Root \/ Hidden(v.dev, i) \/ Type(p.mode) = Type(v.dev.ino[i].mode)

(* fs_inode_update of an inode whose counts and mode have changed.         *)
LEMMA MetaUpdate ==
  ASSUME NEW l \in BOOLEAN, NEW i \in Inum, NEW v, NEW p, Ready(v, i, l, p),
         NEW z, z = Update(SetIno(v, i, p), i)
  PROVE  /\ Synced(z, i, l) /\ z.r = v.r /\ z.ino[i] = p /\ z.dev.ino[i] = p
         /\ \A j \in Inum : j # i => z.ino[j] = v.ino[j] /\ z.dev.ino[j] = v.dev.ino[j]
         /\ \A j : Named(z.dev, j) = Named(v.dev, j)
         /\ Full(v.dev) => Full(z.dev)
         /\ SameCells(v.dev, z.dev)
<1>a. /\ v \in Run /\ v.status = "ok" /\ Logged(v, l)
      /\ p \in InodeRecord /\ Alike(p, v.dev.ino[i]) /\ p.flags = ALOC
      /\ l => /\ p.nlink <= Cardinality(Named(v.dev, i))
              /\ i = Root => Type(p.mode) = IFDIR
              /\ i = Root \/ Hidden(v.dev, i) \/ Type(p.mode) = Type(v.dev.ino[i].mode)
  BY DEF Ready
<1> USE <1>a
<1> DEFINE y == SetIno(v, i, p)
           d == v.dev
           f == InoSet(d, i, p)
<1>1. d \in Volume /\ Good(d, l) /\ Sound(d) /\ NoHole(d)
  BY RunParts DEF Logged, Good
<1> HIDE DEF d
<1>2. Good(f, l) /\ (l => Visible(f) = Visible(d))
  <2>1. Alike(p, d.ino[i]) /\ (l => p.nlink <= Cardinality(Named(d, i)))
    BY DEF d
  <2>2. l => /\ p.nlink <= Cardinality(Named(d, i))
             /\ i = Root => Type(p.mode) = IFDIR
             /\ i = Root \/ Hidden(d, i) \/ Type(p.mode) = Type(d.ino[i].mode)
    BY <2>1 DEF d
  <2>3. QED BY <1>1, <2>1, <2>2, MetaWrite
<1>3. /\ \A x \in Slot : Owned(f, x) = Owned(d, x)
      /\ Full(d) => Full(f)
      /\ \A j : Named(f, j) = Named(d, j)
      /\ Reads(d, f) /\ f \in Volume
  <2>1. Alike(p, d.ino[i])
    BY DEF d
  <2>2. QED BY <1>1, <2>1, InoSetIs, MetaReads
<1>4. f.ino[i] = p /\ \A j \in Inum : j # i => f.ino[j] = d.ino[j]
  BY <1>1, InoSetIs
<1>5. /\ y \in Run /\ y.dev = d /\ y.log = v.log /\ y.r = v.r
      /\ y.status = v.status /\ y.ino = [v.ino EXCEPT ![i] = p] /\ y.ino[i] = p
      /\ \A j \in Inum : j # i => y.ino[j] = v.ino[j]
  BY WithInode DEF d
<1>6. z = Emit(y, f)
  BY <1>5, Writes DEF Update
<1> HIDE DEF y, f
<1>7. Logged(y, l)
  BY <1>5 DEF Logged, d
<1>8. /\ z \in Run /\ z.dev = f /\ z.ino = y.ino /\ z.r = y.r /\ z.status = "ok" /\ Logged(z, l)
  <2>1. l => Follows(y.dev, f)
    BY <1>2, <1>5 DEF Follows
  <2>2. QED BY <1>2, <1>5, <1>6, <1>7, <2>1, Emitted
<1>80. SameCells(d, f)
  <2>1. \A j \in Inum : f.ino[j].size = d.ino[j].size
    BY <1>4 DEF Alike, d
  <2>2. QED BY <2>1, <1>1, <1>3, CellKept DEF SameCells, At
<1>9. Synced(z, i, l)
  <2>1. Alike(z.ino[i], z.dev.ino[i]) /\ z.ino[i].flags = ALOC /\ z.dev.ino[i].flags = ALOC
        /\ z.ino[i].nlink = z.dev.ino[i].nlink
    BY <1>4, <1>5, <1>8 DEF Alike
  <2>2. l /\ i = Root => Type(z.ino[i].mode) = IFDIR
    BY <1>5, <1>8
  <2>3. QED BY <1>8, <2>1, <2>2 DEF Synced
<1>10. QED BY <1>3, <1>4, <1>5, <1>8, <1>80, <1>9 DEF d

LEMMA EndedUpdate ==
  ASSUME NEW l \in BOOLEAN, NEW i \in Inum, NEW v, Ended(v, l), NEW p \in InodeRecord,
         NEW z, z = Update(SetIno(v, i, p), i)
  PROVE  Ended(z, l)
<1> DEFINE y == SetIno(v, i, p)
<1>1. Ended(y, l)
  BY EndedInode
<1> HIDE DEF y
<1>2. z = y
  BY <1>1, EndedEmit DEF Update, WriteIno, y
<1>3. QED BY <1>1, <1>2

(* One link more.                                                          *)
Counted(p) == [p EXCEPT !.nlink = @ + 1]

LEMMA CountedIs ==
  ASSUME NEW p \in InodeRecord
  PROVE  /\ Counted(p) \in InodeRecord /\ Counted(p).nlink = p.nlink + 1
         /\ Counted(p).zones = p.zones /\ Counted(p).size = p.size /\ Counted(p).mode = p.mode
         /\ Counted(p).flags = p.flags
BY InodeParts, InodeChange DEF Counted, InodeRecord

(* The link count of inode i was incremented, on the device too.           *)
LEMMA CountLinkIs ==
  ASSUME NEW l \in BOOLEAN, NEW i \in Inum, NEW v, Synced(v, i, l),
         l => /\ v.dev.ino[i].nlink + 1 <= Cardinality(Named(v.dev, i))
              /\ i = Root \/ Hidden(v.dev, i) \/ v.ino[i].mode = v.dev.ino[i].mode,
         NEW z, z = CountLink(v, i)
  PROVE  /\ Synced(z, i, l) /\ z.ino[i].mode = v.ino[i].mode
         /\ z.dev.ino[i].mode = v.ino[i].mode /\ SameCells(v.dev, z.dev)
         /\ z.dev.ino[i].nlink = v.dev.ino[i].nlink + 1 /\ z.dev.ino[i].size = v.dev.ino[i].size
         /\ \A j \in Inum : j # i => z.ino[j] = v.ino[j] /\ z.dev.ino[j] = v.dev.ino[j]
         /\ \A j : Named(z.dev, j) = Named(v.dev, j)
         /\ Full(v.dev) => Full(z.dev)
<1> DEFINE p == Counted(v.ino[i])
<1>1. v \in Run /\ v.status = "ok" /\ Logged(v, l) /\ v.ino[i] \in InodeRecord
  BY RunParts DEF Synced
<1>2. /\ p \in InodeRecord /\ p.nlink = v.ino[i].nlink + 1
      /\ p.zones = v.ino[i].zones /\ p.size = v.ino[i].size /\ p.mode = v.ino[i].mode
      /\ p.flags = v.ino[i].flags
  BY <1>1, CountedIs
<1>3. z = Update(SetIno(v, i, p), i)
  BY DEF CountLink, Counted
<1> HIDE DEF p
<1>4. /\ Alike(p, v.dev.ino[i]) /\ p.flags = ALOC /\ p.nlink = v.dev.ino[i].nlink + 1
      /\ l /\ i = Root => Type(p.mode) = IFDIR
      /\ p.size = v.dev.ino[i].size
  BY <1>2 DEF Synced, Alike
<1>5. l => /\ p.nlink <= Cardinality(Named(v.dev, i))
           /\ i = Root => Type(p.mode) = IFDIR
           /\ i = Root \/ Hidden(v.dev, i) \/ Type(p.mode) = Type(v.dev.ino[i].mode)
  BY <1>2, <1>4
<1>6. /\ Synced(z, i, l) /\ z.r = v.r /\ z.ino[i] = p /\ z.dev.ino[i] = p
      /\ \A j \in Inum : j # i => z.ino[j] = v.ino[j] /\ z.dev.ino[j] = v.dev.ino[j]
      /\ \A j : Named(z.dev, j) = Named(v.dev, j)
      /\ Full(v.dev) => Full(z.dev)
      /\ SameCells(v.dev, z.dev)
  <2>1. Ready(v, i, l, p)
    BY <1>1, <1>2, <1>4, <1>5 DEF Ready
  <2>2. QED BY <2>1, <1>3, MetaUpdate
<1>7. QED BY <1>2, <1>4, <1>6

(* Where fs_dir_link writes.                                               *)
Place(v, dp) == Min({o \in 0 .. v.ino[dp].size :
                       o = v.ino[dp].size \/ CellAt(v.dev, v.ino[dp], o).n = 0})

(* It is the end of the directory or a cell without an entry.              *)
LEMMA PlaceIs ==
  ASSUME NEW v, NEW dp, v.ino[dp].size \in Nat
  PROVE  /\ Place(v, dp) \in Nat /\ Place(v, dp) <= v.ino[dp].size
         /\ Place(v, dp) < v.ino[dp].size => CellAt(v.dev, v.ino[dp], Place(v, dp)).n = 0
<1> DEFINE T == {o \in 0 .. v.ino[dp].size :
                   o = v.ino[dp].size \/ CellAt(v.dev, v.ino[dp], o).n = 0}
<1>1. v.ino[dp].size \in T /\ T \in SUBSET Nat
  OBVIOUS
<1>2. Place(v, dp) = Min(T)
  BY DEF Place
<1>3. Min(T) \in T
  <2> HIDE DEF T
  <2>1. QED BY <1>1, MinIs
<1>4. Place(v, dp) \in T
  BY <1>2, <1>3
<1>5. QED BY <1>4

(* The results of fs_dir_link.                                             *)
NotLinked(u) == [u EXCEPT !.r = -1]
IsLinked(x) == [x EXCEPT !.r = 0]

(* fs_dir_link is a write of one cell and a count.                         *)
LEMMA DirLinkSteps ==
  ASSUME NEW v \in Run, NEW dp \in Inum, NEW name, NEW i,
         NEW u, u = FsWrite(v, dp, Place(v, dp), <<Cell(i, name)>>)
  PROVE  DirLink(v, dp, name, i) = IF u.r # 1 THEN NotLinked(u) ELSE IsLinked(CountLink(u, i))
<1>1. v.ino[dp].flags \in {0, ALOC}
  BY RunParts, InodeParts
<1>2. Lookup(v, dp, name) = 0
  BY <1>1, LookupIs
<1>3. QED BY <1>2 DEF DirLink, AddEntry, Place, NotLinked, IsLinked

(* One cell fits in a block, wherever it is.                               *)
LEMMA OneCell ==
  ASSUME NEW off \in Nat, NEW i \in Inum, NEW s \in Word
  PROVE  /\ <<Cell(i, s)>> \in Seq(CellSet) /\ Len(<<Cell(i, s)>>) = 1
         /\ 1 <= CPB - (off % CPB)
<1>1. Cell(i, s) \in CellSet
  BY Cells0, Geometry
<1>2. 1 <= CPB - (off % CPB)
  BY Position, Geometry
<1>3. QED BY <1>1, <1>2

LEMMA EndedDirLink ==
  ASSUME NEW l \in BOOLEAN, NEW v, Ended(v, l), NEW dp \in Inum, NEW i \in Inum, NEW name \in Word
  PROVE  Ended(DirLink(v, dp, name, i), l)
<1> DEFINE off == Place(v, dp)
           cells == <<Cell(i, name)>>
           u == FsWrite(v, dp, off, cells)
           x == CountLink(u, i)
<1>1. v \in Run /\ v.ino[dp].size \in Nat
  BY RunParts, InodeParts DEF Ended
<1>2. off \in Nat
  BY <1>1, PlaceIs
<1>3. cells \in Seq(CellSet) /\ Len(cells) <= CPB - (off % CPB)
  BY <1>2, OneCell
<1>4. DirLink(v, dp, name, i) = IF u.r # 1 THEN NotLinked(u) ELSE IsLinked(x)
  BY <1>1, DirLinkSteps
<1> HIDE DEF off, cells
<1>5. Ended(u, l)
  BY <1>2, <1>3, EndedFsWrite
<1> HIDE DEF u
<1>6. Ended(x, l)
  <2>1. Counted(u.ino[i]) \in InodeRecord
    BY <1>5, RunParts, CountedIs DEF Ended
  <2>2. x = Update(SetIno(u, i, Counted(u.ino[i])), i)
    BY DEF x, CountLink, Counted
  <2>3. QED BY <1>5, <2>1, <2>2, EndedUpdate
<1> HIDE DEF x
<1>7. -1 \in Int /\ 0 \in Int
  OBVIOUS
<1>8. Ended(NotLinked(u), l)
  BY <1>5, <1>7, EndedResult DEF NotLinked
<1>9. Ended(IsLinked(x), l)
  BY <1>6, <1>7, EndedResult DEF IsLinked
<1>10. QED BY <1>4, <1>8, <1>9

(* What fs_dir_link leaves alone.                                          *)
Kept(v, w, dp, i) ==
  /\ \A j \in Inum : w.ino[j].mode = v.ino[j].mode
  /\ \A j \in Inum : j # dp /\ j # i => w.ino[j] = v.ino[j] /\ w.dev.ino[j] = v.dev.ino[j]
  /\ Full(v.dev) => Full(w.dev)

(* One link more for inode i, and none for another.                        *)
NlinkMore(d, f, i) ==
  \A j \in Inum : f.ino[j].nlink = d.ino[j].nlink + (IF j = i THEN 1 ELSE 0)

(* An inode stays hidden as long as the root directory stays the same.     *)
RootKept(d, f) ==
  /\ f.ino[Root].size = d.ino[Root].size
  /\ \A k \in 0 .. d.ino[Root].size - 1 : At(f, Root, k) = At(d, Root, k)

(* An inode that the root directory does not show stays out of sight while *)
(* the root directory stays.                                               *)
LEMMA StillHidden ==
  ASSUME NEW d \in Volume, NEW f, RootKept(d, f), NEW i, Hidden(d, i)
  PROVE  Hidden(f, i)
<1>1. d.ino[Root].size \in Nat
  BY Geometry, VolumeParts, InodeParts
<1>2. \A k \in 2 .. d.ino[Root].size - 1 : k \in 0 .. d.ino[Root].size - 1
  BY <1>1
<1>3. QED BY <1>2 DEF RootKept, Hidden

(* Directory dp has no free cell; it has cell c behind those of d.         *)
Packed(d, dp) == \A k \in 0 .. d.ino[dp].size - 1 : At(d, dp, k).n # 0

(* Directory dp has cell c behind those of d, and no other file has        *)
(* changed.                                                                *)
Gets(d, f, dp, c) ==
  /\ \A j \in Inum : j # dp => f.ino[j].size = d.ino[j].size
  /\ f.ino[dp].size = d.ino[dp].size + 1
  /\ \A j \in Inum : \A k \in 0 .. d.ino[j].size - 1 : At(f, j, k) = At(d, j, k)
  /\ At(f, dp, d.ino[dp].size) = c

(* The write of a cell at the end of a directory.                          *)
LEMMA WroteGets ==
  ASSUME NEW d \in Volume, NEW f, NEW dp \in Inum, NEW c,
         Wrote(d, f, dp, d.ino[dp].size, <<c>>)
  PROVE  Gets(d, f, dp, c)
<1> DEFINE n == d.ino[dp].size
<1>1. n \in Nat /\ \A j \in Inum : d.ino[j].size \in Nat
  BY VolumeParts, InodeParts
<1>2. Len(<<c>>) = 1 /\ <<c>>[1] = c
  OBVIOUS
<1>3. n .. n + 1 - 1 = {n} /\ n \in n .. n + 1 - 1 /\ n - n + 1 = 1
  BY <1>1
<1>4. At(f, dp, n) = c
  BY <1>2, <1>3 DEF Wrote
<1>5. f.ino[dp].size = n + 1
  <2>1. f.ino[dp].size = Max({n, n + 1})
    BY <1>2 DEF Wrote
  <2>2. QED BY <1>1, <2>1, MaxOfTwo
<1>6. \A j \in Inum : \A k \in 0 .. d.ino[j].size - 1 : ~ (j = dp /\ k = n)
  BY <1>1
<1>7. \A j \in Inum : \A k \in 0 .. d.ino[j].size - 1 : At(f, j, k) = At(d, j, k)
  BY <1>2, <1>3, <1>6 DEF Wrote
<1>8. QED BY <1>4, <1>5, <1>7 DEF Gets, Wrote

LEMMA GetsSame ==
  ASSUME NEW d \in Volume, NEW e, NEW f, NEW dp \in Inum, NEW c, Gets(d, e, dp, c),
         SameCells(e, f)
  PROVE  Gets(d, f, dp, c)
<1> DEFINE n == d.ino[dp].size
<1>1. \A j \in Inum : d.ino[j].size \in Nat
  BY VolumeParts, InodeParts
<1>2. n \in 0 .. e.ino[dp].size - 1
  BY <1>1 DEF Gets
<1>3. At(f, dp, n) = c
  BY <1>2 DEF Gets, SameCells
<1>4. \A j \in Inum : \A k \in 0 .. d.ino[j].size - 1 : k \in 0 .. e.ino[j].size - 1
  BY <1>1 DEF Gets
<1>5. \A j \in Inum : \A k \in 0 .. d.ino[j].size - 1 : At(f, j, k) = At(d, j, k)
  BY <1>4 DEF Gets, SameCells
<1>6. QED BY <1>3, <1>5 DEF Gets, SameCells

LEMMA GetsRoot ==
  ASSUME NEW d, NEW f, NEW dp, dp # Root, NEW c, Gets(d, f, dp, c)
  PROVE  RootKept(d, f)
BY Geometry DEF Gets, RootKept

(* Links that the root directory does not show, or shows as a complete     *)
(* entry.                                                                  *)
Linkable(v, dp, i, name) ==
  \/ Hidden(v.dev, dp) /\ i \in {dp, Root}
  \/ /\ dp = Root /\ i # Root /\ v.ino[i].mode = v.dev.ino[i].mode
     /\ Shown(v.dev, Cell(i, name)) \in CompleteEntries

(* Where fs_dir_link may link, its write shows as a complete entry or as   *)
(* nothing.                                                                *)
LEMMA LinkableAdmits ==
  ASSUME NEW v \in Run, NEW dp \in Inum, NEW i \in Inum, NEW name \in Word,
         Linkable(v, dp, i, name), Rooted(v.dev), v.dev.ino[i].flags = ALOC,
         NEW off \in Nat, off <= v.dev.ino[dp].size,
         off < v.dev.ino[dp].size => At(v.dev, dp, off).n = 0
  PROVE  Admits(v.dev, dp, off, <<Cell(i, name)>>)
<1>1. CASE Hidden(v.dev, dp) /\ i \in {dp, Root}
  BY <1>1 DEF Admits
<1>2. CASE /\ dp = Root /\ i # Root /\ v.ino[i].mode = v.dev.ino[i].mode
           /\ Shown(v.dev, Cell(i, name)) \in CompleteEntries
  <2>1. v.dev.ino[Root].size \in Nat
    BY Geometry, RunParts, VolumeParts, InodeParts
  <2>2. off = v.dev.ino[Root].size
    <3>1. SUFFICES ASSUME off < v.dev.ino[Root].size PROVE FALSE
      BY <1>2, <2>1
    <3>2. off \in 0 .. v.dev.ino[Root].size - 1
      BY <2>1, <3>1
    <3>3. At(v.dev, Root, off).n \in Inum
      BY <3>2 DEF Rooted
    <3>4. QED BY <1>2, <3>1, <3>3, Geometry
  <2>3. QED BY <1>2, <2>2 DEF Admits
<1>3. QED BY <1>1, <1>2 DEF Linkable

(* fs_dir_link: the directory is full and nothing is linked, or the inode  *)
(* gains an entry and a link.                                              *)
LEMMA DirLinkIs ==
  ASSUME NEW l \in BOOLEAN, NEW dp \in Inum, NEW i \in Inum, NEW v,
         Synced(v, dp, l), Synced(v, i, l),
         NEW name \in Word, l => Type(v.ino[dp].mode) = IFDIR /\ Linkable(v, dp, i, name),
         NEW w, w = DirLink(v, dp, name, i)
  PROVE  \/ Ended(w, l)
         \/ /\ Synced(w, dp, l) /\ Synced(w, i, l) /\ Kept(v, w, dp, i)
            /\ \/ v.dev.ino[dp].size = MaxCells /\ Untouched(v.dev, w.dev)
               \/ /\ NlinkMore(v.dev, w.dev, i) /\ w.dev.ino[i].mode = v.ino[i].mode
                  /\ Type(v.ino[dp].mode) = IFDIR =>
                       Gained(v.dev, w.dev, i) /\ w.dev.ino[dp].size <= v.dev.ino[dp].size + 1
                  /\ Packed(v.dev, dp) => Gets(v.dev, w.dev, dp, Cell(i, name))
<1> DEFINE off == Place(v, dp)
           cells == <<Cell(i, name)>>
           u == FsWrite(v, dp, off, cells)
           x == CountLink(u, i)
           d == v.dev
<1>1. /\ v \in Run /\ v.ino[dp].size \in Nat /\ d \in Volume /\ Good(d, l)
      /\ Alike(v.ino[dp], d.ino[dp]) /\ v.ino[dp].size = d.ino[dp].size
      /\ d.ino[dp].size \in 0 .. MaxCells
  BY RunParts, VolumeParts, InodeParts DEF Synced, Logged, Alike
<1>2. /\ off \in Nat /\ off <= v.ino[dp].size
      /\ off < v.ino[dp].size => CellAt(v.dev, v.ino[dp], off).n = 0
  BY <1>1, PlaceIs
<1>3. cells \in Seq(CellSet) /\ Len(cells) <= CPB - (off % CPB) /\ Len(cells) = 1
  BY <1>2, OneCell
<1>4. w = IF u.r # 1 THEN [u EXCEPT !.r = -1] ELSE [x EXCEPT !.r = 0]
  BY <1>1, DirLinkSteps DEF NotLinked, IsLinked
<1>5. off < d.ino[dp].size => At(d, dp, off).n = 0
  BY <1>1, <1>2, CellAlike DEF At, Alike
<1> HIDE DEF off
<1>6. Clear(d, dp, off, Len(cells))
  <2>1. off .. off + Len(cells) - 1 = {off}
    BY <1>2, <1>3
  <2>2. QED BY <1>5, <2>1 DEF Clear
<1>7. \/ Ended(u, l)
      \/ /\ Synced(u, dp, l) /\ Frame(v, u, dp) /\ u.r = 0 /\ Untouched(d, u.dev)
         /\ off > v.ino[dp].size \/ off >= MaxCells
      \/ /\ Synced(u, dp, l) /\ Frame(v, u, dp) /\ u.r = 1 /\ off <= d.ino[dp].size
         /\ Wrote(d, u.dev, dp, off, cells) /\ u.dev.ino[dp] = u.ino[dp]
         /\ off + 1 <= MaxCells
  <2> HIDE DEF cells, u
  <2>1. u = FsWrite(v, dp, off, cells)
    BY DEF u
  <2>2. l => Clear(v.dev, dp, off, Len(cells)) /\ Admits(v.dev, dp, off, cells)
    <3>1. ASSUME l PROVE Admits(v.dev, dp, off, cells)
      <4>1. Rooted(v.dev) /\ v.dev.ino[i].flags = ALOC
        BY <1>1, <3>1 DEF Good, Synced
      <4>2. off <= v.dev.ino[dp].size
        BY <1>1, <1>2
      <4>3. Linkable(v, dp, i, name)
        BY <3>1
      <4>4. Admits(v.dev, dp, off, <<Cell(i, name)>>)
        BY <1>1, <1>2, <1>5, <4>1, <4>2, <4>3, LinkableAdmits
      <4>5. QED BY <4>4 DEF cells
    <3>2. QED BY <1>6, <3>1
  <2> HIDE DEF d
  <2>3. d = v.dev
    BY DEF d
  <2>4. Writable(v, dp, l, off, cells)
    BY <1>3, <2>2 DEF Writable
  <2>5. Ended(u, l) \/ Refused(v, u, dp, l, off) \/ Stored(v, u, dp, l, off, cells)
    BY <1>2, <1>3, <2>1, <2>4, FsWriteIs
  <2>6. QED BY <1>3, <2>3, <2>5 DEF Refused, Stored
<1> HIDE DEF u
<1>8. -1 \in Int /\ 0 \in Int
  OBVIOUS
<1>9. CASE Ended(u, l)
  <2>1. Ended([u EXCEPT !.r = -1], l)
    BY <1>8, <1>9, EndedResult
  <2>2. Ended(x, l)
    <3>1. Counted(u.ino[i]) \in InodeRecord
      BY <1>9, RunParts, CountedIs DEF Ended
    <3>2. x = Update(SetIno(u, i, Counted(u.ino[i])), i)
      BY DEF x, CountLink, Counted
    <3>3. QED BY <1>9, <3>1, <3>2, EndedUpdate
  <2> HIDE DEF x
  <2>3. Ended([x EXCEPT !.r = 0], l)
    BY <1>8, <2>2, EndedResult
  <2>4. QED BY <1>4, <2>1, <2>3
<1>10. ASSUME Synced(u, dp, l), Frame(v, u, dp)
       PROVE  /\ Synced(u, i, l) /\ u \in Run
              /\ \A j \in Inum : u.ino[j].mode = v.ino[j].mode
  <2>1. u \in Run /\ u.status = "ok" /\ Logged(u, l)
    BY <1>10 DEF Synced
  <2>2. i # dp => u.ino[i] = v.ino[i] /\ u.dev.ino[i] = v.dev.ino[i]
    BY <1>10 DEF Frame
  <2>3. Synced(u, i, l)
    <3>1. CASE i = dp
      BY <1>10, <3>1
    <3>2. CASE i # dp
      BY <2>1, <2>2, <3>2, SyncedOther
    <3>3. QED BY <3>1, <3>2
  <2>4. QED BY <1>10, <2>1, <2>3 DEF Frame
<1>11. CASE /\ Synced(u, dp, l) /\ Frame(v, u, dp) /\ u.r = 0 /\ Untouched(d, u.dev)
            /\ off > v.ino[dp].size \/ off >= MaxCells
  <2>1. w = [u EXCEPT !.r = -1]
    BY <1>4, <1>11
  <2>2. Synced(u, i, l) /\ u \in Run /\ \A j \in Inum : u.ino[j].mode = v.ino[j].mode
    BY <1>10, <1>11
  <2>3. /\ w \in Run /\ w.dev = u.dev /\ w.ino = u.ino /\ w.log = u.log /\ w.r = -1
        /\ w.status = u.status
    BY ONLY <1>8, <2>1, <2>2, WithResult
  <2>4. Synced(w, dp, l) /\ Synced(w, i, l)
    BY <1>11, <2>2, <2>3 DEF Synced, Logged
  <2>5. Kept(v, w, dp, i)
    BY <1>11, <2>2, <2>3 DEF Kept, Frame
  <2>6. d.ino[dp].size = MaxCells
    BY <1>1, <1>2, <1>11, Geometry
  <2>7. QED BY <1>11, <2>3, <2>4, <2>5, <2>6
<1>12. CASE /\ Synced(u, dp, l) /\ Frame(v, u, dp) /\ u.r = 1 /\ off <= d.ino[dp].size
            /\ Wrote(d, u.dev, dp, off, cells) /\ u.dev.ino[dp] = u.ino[dp]
            /\ off + 1 <= MaxCells
  <2>1. w = [x EXCEPT !.r = 0]
    BY <1>4, <1>12
  <2>2. Synced(u, i, l) /\ u \in Run /\ \A j \in Inum : u.ino[j].mode = v.ino[j].mode
    BY <1>10, <1>12
  <2>3. u.dev \in Volume /\ \A j \in Inum : u.dev.ino[j].nlink = d.ino[j].nlink
    BY <1>12, <2>2, RunParts DEF Wrote
  <2>4. Type(v.ino[dp].mode) = IFDIR =>
          Gained(d, u.dev, i) /\ u.dev.ino[dp].size <= d.ino[dp].size + 1
    <3>1. SUFFICES ASSUME Type(v.ino[dp].mode) = IFDIR
                   PROVE  Gained(d, u.dev, i) /\ u.dev.ino[dp].size <= d.ino[dp].size + 1
      OBVIOUS
    <3>2. IsDir(u.dev, dp)
      BY <1>12, <2>2, <3>1 DEF IsDir
    <3>3. IsDir(d, dp) \/ d.ino[dp].size = 0
      BY <1>1, <3>1 DEF Alike, IsDir
    <3>4. off < MaxCells
      BY <1>2, <1>12, Geometry
    <3> HIDE DEF d
    <3>5. QED BY <1>1, <1>2, <1>5, <1>12, <2>3, <3>2, <3>3, <3>4, AddsName DEF cells
  <2>5. l => u.dev.ino[i].nlink + 1 <= Cardinality(Named(u.dev, i))
    <3>1. SUFFICES ASSUME l PROVE u.dev.ino[i].nlink + 1 <= Cardinality(Named(u.dev, i))
      OBVIOUS
    <3>2. Cardinality(Named(u.dev, i)) = Cardinality(Named(d, i)) + 1
      BY <2>4, <3>1 DEF Gained
    <3>3. d.ino[i].nlink <= Cardinality(Named(d, i))
      BY <1>1, <3>1 DEF Good, Linked
    <3>4. d.ino[i].nlink \in Nat /\ u.dev.ino[i].nlink = d.ino[i].nlink
      BY <1>1, <2>3, VolumeParts, InodeParts
    <3>5. QED BY <3>2, <3>3, <3>4, NamedFinite
  <2>50. l => i = Root \/ Hidden(u.dev, i) \/ u.ino[i].mode = u.dev.ino[i].mode
    <3>1. SUFFICES ASSUME l PROVE i = Root \/ Hidden(u.dev, i) \/ u.ino[i].mode = u.dev.ino[i].mode
      OBVIOUS
    <3>2. CASE Hidden(v.dev, dp) /\ i = dp
      <4>1. dp # Root /\ Root \in Inum
        BY <3>2, Geometry DEF Hidden
      <4>2. RootKept(d, u.dev)
        BY <1>12, <4>1 DEF RootKept, Wrote
      <4>3. QED BY <1>1, <3>2, <4>2, StillHidden
    <3>3. CASE dp = Root /\ i # Root /\ v.ino[i].mode = v.dev.ino[i].mode
      BY <1>12, <3>3 DEF Frame
    <3>4. QED BY <3>1, <3>2, <3>3 DEF Linkable
  <2>6. /\ Synced(x, i, l) /\ x.ino[i].mode = u.ino[i].mode
        /\ x.dev.ino[i].mode = u.ino[i].mode /\ SameCells(u.dev, x.dev)
        /\ x.dev.ino[i].nlink = u.dev.ino[i].nlink + 1 /\ x.dev.ino[i].size = u.dev.ino[i].size
        /\ \A j \in Inum : j # i => x.ino[j] = u.ino[j] /\ x.dev.ino[j] = u.dev.ino[j]
        /\ \A j : Named(x.dev, j) = Named(u.dev, j)
        /\ Full(u.dev) => Full(x.dev)
    BY <2>2, <2>5, <2>50, CountLinkIs
  <2>60. Packed(d, dp) => Gets(d, x.dev, dp, Cell(i, name))
    <3>1. SUFFICES ASSUME Packed(d, dp) PROVE Gets(d, x.dev, dp, Cell(i, name))
      OBVIOUS
    <3>2. off = d.ino[dp].size
      <4>1. SUFFICES ASSUME off < d.ino[dp].size PROVE FALSE
        BY <1>1, <1>2
      <4>2. off \in 0 .. d.ino[dp].size - 1
        BY <1>1, <1>2, <4>1
      <4>3. QED BY <1>5, <3>1, <4>1, <4>2 DEF Packed
    <3> HIDE DEF x, d
    <3>3. Gets(d, u.dev, dp, Cell(i, name))
      BY <1>1, <1>12, <3>2, WroteGets DEF cells
    <3>4. QED BY <1>1, <2>6, <3>3, GetsSame
  <2> HIDE DEF x, cells
  <2>7. x \in Run /\ x.status = "ok" /\ Logged(x, l)
    BY <2>6 DEF Synced
  <2>8. Synced(x, dp, l)
    <3>1. CASE dp = i
      BY <2>6, <3>1
    <3>2. CASE dp # i
      <4>1. Synced(u, dp, l) /\ x.ino[dp] = u.ino[dp] /\ x.dev.ino[dp] = u.dev.ino[dp]
        BY <1>12, <2>6, <3>2
      <4>2. QED BY <2>7, <4>1, SyncedOther
    <3>3. QED BY <3>1, <3>2
  <2>9. /\ w \in Run /\ w.dev = x.dev /\ w.ino = x.ino /\ w.log = x.log /\ w.r = 0
        /\ w.status = x.status
    BY ONLY <1>8, <2>1, <2>7, WithResult
  <2>10. Synced(w, dp, l) /\ Synced(w, i, l)
    BY <2>6, <2>8, <2>9 DEF Synced, Logged
  <2>11. Kept(v, w, dp, i)
    <3>1. \A j \in Inum : w.ino[j].mode = v.ino[j].mode
      BY <2>2, <2>6, <2>9
    <3>2. \A j \in Inum : j # dp /\ j # i => w.ino[j] = v.ino[j] /\ w.dev.ino[j] = v.dev.ino[j]
      BY <1>12, <2>6, <2>9 DEF Frame
    <3>3. Full(v.dev) => Full(w.dev)
      BY <1>12, <2>6, <2>9 DEF Frame
    <3>4. QED BY <3>1, <3>2, <3>3 DEF Kept
  <2>12. NlinkMore(d, w.dev, i)
    <3>1. \A j \in Inum : d.ino[j].nlink \in Nat
      BY <1>1, VolumeParts, InodeParts
    <3>2. \A j \in Inum : j # i => w.dev.ino[j].nlink = d.ino[j].nlink
      BY <2>3, <2>6, <2>9
    <3>3. w.dev.ino[i].nlink = d.ino[i].nlink + 1
      BY <2>3, <2>6, <2>9
    <3>4. QED BY <3>1, <3>2, <3>3 DEF NlinkMore
  <2>13. Type(v.ino[dp].mode) = IFDIR =>
           Gained(d, w.dev, i) /\ w.dev.ino[dp].size <= d.ino[dp].size + 1
    <3>1. w.dev.ino[dp].size = u.dev.ino[dp].size
      BY <2>6, <2>9
    <3>2. Gained(d, u.dev, i) => Gained(d, w.dev, i)
      BY <2>6, <2>9 DEF Gained
    <3>3. QED BY <2>4, <3>1, <3>2
  <2>14. w.dev.ino[i].mode = v.ino[i].mode /\ (Packed(d, dp) => Gets(d, w.dev, dp, Cell(i, name)))
    BY <2>2, <2>6, <2>60, <2>9
  <2>15. QED BY <2>10, <2>11, <2>12, <2>13, <2>14
<1>13. QED BY <1>7, <1>9, <1>11, <1>12

-----------------------------------------------------------------------------
(* fs_inode_alloc and fs_mkdir.                                            *)

(* The inode that fs_inode_alloc writes.                                   *)
Fresh == [ZeroInode EXCEPT !.flags = ALOC]

LEMMA FreshIs ==
  /\ Fresh \in InodeRecord /\ Fresh.flags = ALOC /\ Fresh.mode = 0 /\ Fresh.nlink = 0
  /\ Fresh.size = 0 /\ Fresh.zones = [z \in 0 .. SInd |-> 0]
<1>1. Fresh \in InodeRecord
  BY NewInode, InodeChange DEF Fresh
<1>2. QED BY <1>1 DEF Fresh, ZeroInode

(* It takes the place of an empty one.                                     *)
LEMMA EmptyAlike ==
  ASSUME NEW p \in InodeRecord, EmptyInode(p), NEW q, q.size = 0,
         q.zones = [z \in 0 .. SInd |-> 0]
  PROVE  Alike(q, p) /\ p.nlink = 0 /\ p.mode = 0
<1>1. p.zones \in [0 .. SInd -> Zone] /\ \A z \in 0 .. SInd : p.zones[z] = 0
  BY InodeParts DEF EmptyInode
<1>2. p.zones = [z \in 0 .. SInd |-> 0]
  BY <1>1
<1>3. QED BY <1>2 DEF Alike, EmptyInode

(* fs_inode_alloc found inode i.                                           *)
Allocated(v, w, i, l) ==
  /\ i \in Inum /\ w.r = i /\ v.dev.ino[i].flags = 0 /\ EmptyInode(v.dev.ino[i])
  /\ w \in Run /\ w.status = "ok" /\ Logged(w, l)
  /\ w.dev.ino[i] = Fresh /\ \A j \in Inum : j # i => w.dev.ino[j] = v.dev.ino[j]
  /\ \A j : Named(w.dev, j) = Named(v.dev, j)
  /\ Full(v.dev) => Full(w.dev)
  /\ \A j \in Inum : j # i => w.ino[j] = v.ino[j]
  /\ w.ino[i] = IF i = Root THEN v.ino[Root] ELSE Fresh
  /\ l => i # Root /\ Hidden(w.dev, i)
  /\ SameCells(v.dev, w.dev)
  /\ i # Root => v.dev.ino[Root].flags = ALOC

(* The inode it chooses, and the memory after it.                          *)
Chosen(v) == Min({i \in Inum : v.dev.ino[i].flags < ALOC})

InMemory(w, v, i) == IF i = Root THEN w ELSE SetIno(w, i, Fresh)
Numbered(w, i) == [w EXCEPT !.r = i]

(* fs_inode_alloc, step by step.                                           *)
LEMMA AllocSteps ==
  ASSUME NEW v \in Run
  PROVE  \/ InodeAlloc(v) = Numbered(v, 0)
         \/ /\ Chosen(v) \in Inum /\ v.dev.ino[Chosen(v)].flags = 0
            /\ Chosen(v) # Root => v.dev.ino[Root].flags = ALOC
            /\ InodeAlloc(v) = Numbered(InMemory(WriteIno(v, Chosen(v), Fresh), v, Chosen(v)),
                                        Chosen(v))
<1> DEFINE T == {i \in Inum : v.dev.ino[i].flags < ALOC}
<1>1. \A i \in Inum : v.dev.ino[i].flags \in {0, ALOC}
  BY RunParts, VolumeParts, InodeParts
<1>2. CASE T = {}
  BY <1>2 DEF InodeAlloc, Numbered
<1>3. CASE T # {}
  <2>1. T \in SUBSET Nat
    BY Geometry
  <2>2. Min(T) \in T /\ \A y \in T : Min(T) <= y
    <3> HIDE DEF T
    <3>1. QED BY <1>3, <2>1, MinIs
  <2>3. Chosen(v) = Min(T)
    BY DEF Chosen
  <2>4. Chosen(v) \in Inum /\ v.dev.ino[Chosen(v)].flags = 0
    <3>1. Chosen(v) \in T
      BY <2>2, <2>3
    <3>2. Chosen(v) \in Inum /\ v.dev.ino[Chosen(v)].flags < ALOC
      BY <3>1
    <3>3. v.dev.ino[Chosen(v)].flags \in {0, ALOC} /\ ~ (ALOC < ALOC)
      BY <1>1, <3>2 DEF ALOC
    <3> HIDE DEF T
    <3>4. QED BY <3>2, <3>3
  <2>5. Chosen(v) # Root => v.dev.ino[Root].flags = ALOC
    <3>1. Root \in T => Chosen(v) <= Root
      BY <2>2, <2>3
    <3>2. Chosen(v) >= Root
      BY <2>4 DEF Inum, Root
    <3>3. Chosen(v) \in Int /\ Root \in Int
      BY <2>4 DEF Inum, Root
    <3>4. Chosen(v) # Root => Root \notin T
      <4> HIDE DEF T
      <4>1. QED BY <3>1, <3>2, <3>3
    <3>5. QED BY <1>1, <3>4, Geometry DEF ALOC
  <2>6. InodeAlloc(v) = Numbered(InMemory(WriteIno(v, Chosen(v), Fresh), v, Chosen(v)), Chosen(v))
    BY <1>3, <2>3 DEF InodeAlloc, Numbered, InMemory, Fresh
  <2>7. QED BY <2>4, <2>5, <2>6
<1>4. QED BY <1>2, <1>3

(* fs_inode_alloc finds no inode, or an empty one.                         *)
LEMMA AllocIs ==
  ASSUME NEW l \in BOOLEAN, NEW v \in Run, v.status = "ok", Logged(v, l), NEW w, w = InodeAlloc(v)
  PROVE  (w.r = 0 /\ w = Numbered(v, 0)) \/ \E i \in Inum : Allocated(v, w, i, l)
<1> DEFINE i == Chosen(v)
           d == v.dev
           f == InoSet(d, i, Fresh)
           y == WriteIno(v, i, Fresh)
           x == InMemory(y, v, i)
<1>1. CASE w = Numbered(v, 0)
  BY <1>1 DEF Numbered, Run
<1>2. CASE /\ i \in Inum /\ d.ino[i].flags = 0
           /\ i # Root => d.ino[Root].flags = ALOC
           /\ w = Numbered(x, i)
  <2>1. d \in Volume /\ Good(d, l) /\ Sound(d) /\ NoHole(d) /\ d.ino[i] \in InodeRecord
    BY <1>2, RunParts, VolumeParts DEF Logged, Good
  <2>2. EmptyInode(d.ino[i])
    BY <1>2, <2>1 DEF Good, Unused
  <2>3. Alike(Fresh, d.ino[i]) /\ d.ino[i].mode = 0
    BY <2>1, <2>2, FreshIs, EmptyAlike
  <2>4. l => i # Root
    <3>1. Type(0) # IFDIR
      BY DEF Type, IFDIR
    <3>2. QED BY <2>1, <2>3, <3>1 DEF Good, IsDir
  <2>5. 0 <= Cardinality(Named(d, i))
    BY NamedFinite
  <2>6. Good(f, l) /\ (l => Visible(f) = Visible(d))
    <3> HIDE DEF i, d
    <3>1. l => /\ Fresh.nlink <= Cardinality(Named(d, i))
               /\ i = Root => Type(Fresh.mode) = IFDIR
               /\ i = Root \/ Hidden(d, i) \/ Type(Fresh.mode) = Type(d.ino[i].mode)
      BY <2>3, <2>4, <2>5, FreshIs
    <3>2. QED BY <1>2, <2>1, <2>3, <3>1, FreshIs, MetaWrite
  <2>7. (Full(d) => Full(f)) /\ Reads(d, f) /\ \A j : Named(f, j) = Named(d, j)
    <3> HIDE DEF i, d
    <3>1. QED BY <1>2, <2>1, <2>3, FreshIs, MetaReads
  <2>8. f.ino[i] = Fresh /\ f \in Volume /\ \A j \in Inum : j # i => f.ino[j] = d.ino[j]
    BY <1>2, <2>1, FreshIs, InoSetIs
  <2>80. SameCells(d, f)
    <3> HIDE DEF i, d, f
    <3>1. \A j \in Inum : f.ino[j].size = d.ino[j].size
      BY <2>3, <2>8 DEF Alike
    <3>2. QED BY <3>1, <2>1, <2>7, <2>8, CellKept DEF SameCells, At
  <2>81. l => Hidden(f, i)
    <3> HIDE DEF i, d, f
    <3>1. SUFFICES ASSUME l PROVE Hidden(f, i)
      OBVIOUS
    <3>2. i # Root /\ Rooted(d) /\ ALOC # 0 /\ Root \in Inum
      BY <2>1, <2>4, <3>1, Geometry DEF Good, ALOC
    <3>3. Hidden(d, i)
      BY <1>2, <3>2 DEF Hidden, Rooted
    <3>4. RootKept(d, f)
      BY <2>80, <3>2 DEF RootKept, SameCells
    <3>5. QED BY <2>1, <3>3, <3>4, StillHidden
  <2>9. y = Emit(v, f)
    BY Writes
  <2> HIDE DEF y, f
  <2>10. /\ y \in Run /\ y.dev = f /\ y.ino = v.ino /\ y.r = v.r /\ y.status = "ok" /\ Logged(y, l)
    <3>1. l => Follows(v.dev, f)
      BY <2>6 DEF Follows
    <3>2. QED BY <2>6, <2>9, <3>1, Emitted
  <2>11. /\ x \in Run /\ x.dev = f /\ x.log = y.log /\ x.status = "ok"
         /\ \A j \in Inum : j # i => x.ino[j] = v.ino[j]
         /\ x.ino[i] = IF i = Root THEN v.ino[Root] ELSE Fresh
    <3>1. CASE i = Root
      BY <2>10, <3>1 DEF InMemory
    <3>2. CASE i # Root
      <4>1. x = SetIno(y, i, Fresh)
        BY <3>2 DEF InMemory
      <4> HIDE DEF i, x
      <4>2. y \in Run /\ i \in Inum /\ Fresh \in InodeRecord
        BY <1>2, <2>10, FreshIs
      <4>3. /\ x \in Run /\ x.dev = y.dev /\ x.log = y.log /\ x.r = y.r
            /\ x.status = y.status /\ x.ino = [y.ino EXCEPT ![i] = Fresh] /\ x.ino[i] = Fresh
            /\ \A j \in Inum : j # i => x.ino[j] = y.ino[j]
        BY ONLY <4>1, <4>2, WithInode
      <4>4. QED BY <2>10, <3>2, <4>3
    <3>3. QED BY <3>1, <3>2
  <2> HIDE DEF x
  <2>12. i \in Int
    <3> HIDE DEF i
    <3>1. i \in Inum
      BY <1>2
    <3>2. i \in Nat
      BY ONLY <3>1, Geometry
    <3>3. QED BY ONLY <3>2
  <2>13. /\ w \in Run /\ w.dev = x.dev /\ w.ino = x.ino /\ w.log = x.log /\ w.r = i
         /\ w.status = x.status
    <3> HIDE DEF i
    <3>1. w = [x EXCEPT !.r = i]
      BY <1>2 DEF Numbered
    <3>2. QED BY ONLY <2>11, <2>12, <3>1, WithResult
  <2>14. Logged(w, l)
    BY <2>10, <2>11, <2>13 DEF Logged
  <2>15. Allocated(v, w, i, l)
    <3> HIDE DEF i
    <3>1. QED BY <1>2, <2>2, <2>4, <2>7, <2>8, <2>80, <2>81, <2>11, <2>13, <2>14 DEF Allocated
  <2>16. QED BY <1>2, <2>15
<1>3. QED BY <1>1, <1>2, AllocSteps

LEMMA EndedAlloc ==
  ASSUME NEW l \in BOOLEAN, NEW v, Ended(v, l), NEW w, w = InodeAlloc(v)
  PROVE  Ended(w, l) /\ w.r \in {0} \union Inum
<1> DEFINE i == Chosen(v)
           y == WriteIno(v, i, Fresh)
           x == InMemory(y, v, i)
<1>1. v \in Run
  BY DEF Ended
<1>2. 0 \in Int
  OBVIOUS
<1>3. CASE w = Numbered(v, 0)
  BY <1>2, <1>3, EndedResult DEF Numbered
<1>4. CASE i \in Inum /\ w = Numbered(x, i)
  <2>1. y = v
    BY EndedEmit DEF WriteIno
  <2>2. Ended(x, l)
    <3>1. CASE i = Root
      BY <2>1, <3>1 DEF InMemory
    <3>2. CASE i # Root
      <4>1. x = SetIno(v, i, Fresh)
        BY <2>1, <3>2 DEF InMemory
      <4> HIDE DEF i, x
      <4>2. QED BY <1>4, <4>1, FreshIs, EndedInode
    <3>3. QED BY <3>1, <3>2
  <2> HIDE DEF x, i
  <2>3. i \in Int
    BY <1>4, Geometry
  <2>4. QED BY <1>4, <2>2, <2>3, EndedResult DEF Numbered
<1>5. QED BY <1>1, <1>3, <1>4, AllocSteps

(* The link counts are the numbers of entries; and every block has a use.  *)
Exact(d) == \A j \in Inum : d.ino[j].nlink = Cardinality(Named(d, j))
Whole(d) == Full(d) /\ Exact(d)

(* A run goes on with the root and inode i in memory as on the device.     *)
Pair(v, w, i, l) ==
  /\ Synced(w, Root, l) /\ Synced(w, i, l)
  /\ w.ino[Root].mode = v.ino[Root].mode /\ w.ino[i].mode = v.ino[i].mode
  /\ Whole(v.dev) => Whole(w.dev)

(* The directory was full, or it has the entry now.                        *)
Landed(v, w, dp, t, name) ==
  \/ v.dev.ino[dp].size = MaxCells /\ Untouched(v.dev, w.dev)
  \/ /\ w.dev.ino[t].mode = v.ino[t].mode
     /\ Packed(v.dev, dp) => Gets(v.dev, w.dev, dp, Cell(t, name))

(* fs_dir_link between the root and an inode, in either direction.         *)
LEMMA LinkPair ==
  ASSUME NEW l \in BOOLEAN, NEW i \in Inum, NEW v, Synced(v, Root, l), Synced(v, i, l),
         NEW dp \in {Root, i}, NEW t \in {Root, i}, Type(v.ino[dp].mode) = IFDIR,
         NEW name \in Word, l => Linkable(v, dp, t, name), NEW w, w = DirLink(v, dp, name, t)
  PROVE  Ended(w, l) \/ (Pair(v, w, i, l) /\ Landed(v, w, dp, t, name))
<1>1. /\ dp \in Inum /\ t \in Inum /\ Synced(v, dp, l) /\ Synced(v, t, l) /\ Root \in Inum
      /\ l => Type(v.ino[dp].mode) = IFDIR /\ Linkable(v, dp, t, name)
  BY Geometry
<1>2. \/ Ended(w, l)
      \/ /\ Synced(w, dp, l) /\ Synced(w, t, l) /\ Kept(v, w, dp, t)
         /\ \/ v.dev.ino[dp].size = MaxCells /\ Untouched(v.dev, w.dev)
            \/ /\ NlinkMore(v.dev, w.dev, t) /\ w.dev.ino[t].mode = v.ino[t].mode
               /\ Type(v.ino[dp].mode) = IFDIR =>
                    Gained(v.dev, w.dev, t) /\ w.dev.ino[dp].size <= v.dev.ino[dp].size + 1
               /\ Packed(v.dev, dp) => Gets(v.dev, w.dev, dp, Cell(t, name))
  BY <1>1, DirLinkIs
<1>20. Ended(w, l) \/ Landed(v, w, dp, t, name)
  BY <1>2 DEF Landed
<1>3. CASE /\ Synced(w, dp, l) /\ Synced(w, t, l) /\ Kept(v, w, dp, t)
           /\ \/ Untouched(v.dev, w.dev)
              \/ NlinkMore(v.dev, w.dev, t) /\ Gained(v.dev, w.dev, t)
  <2>1. w \in Run /\ w.status = "ok" /\ Logged(w, l)
    BY <1>3 DEF Synced
  <2>2. ASSUME NEW j \in {Root, i} PROVE Synced(w, j, l)
    <3>1. CASE j \in {dp, t}
      BY <1>3, <3>1
    <3>2. CASE j \notin {dp, t}
      <4>1. j \in Inum /\ Synced(v, j, l) /\ w.ino[j] = v.ino[j] /\ w.dev.ino[j] = v.dev.ino[j]
        BY <1>1, <1>3, <3>2 DEF Kept
      <4>2. QED BY <2>1, <4>1, SyncedOther
    <3>3. QED BY <3>1, <3>2
  <2>3. w.ino[Root].mode = v.ino[Root].mode /\ w.ino[i].mode = v.ino[i].mode
    BY <1>1, <1>3 DEF Kept
  <2>4. Exact(v.dev) => Exact(w.dev)
    BY <1>3 DEF Exact, Untouched, NlinkMore, Gained
  <2>5. Whole(v.dev) => Whole(w.dev)
    BY <1>3, <2>4 DEF Kept, Whole
  <2>6. QED BY <1>20, <2>2, <2>3, <2>5 DEF Pair
<1>4. QED BY <1>2, <1>3

(* The mode of a directory.                                                *)
LEMMA DirModeIs == Type(DirMode) = IFDIR
BY DEF Type, DirMode, IFDIR

(* The new inode of fs_mkdir or copy, with its type in memory.             *)
LEMMA AllocatedPair ==
  ASSUME NEW l \in BOOLEAN, NEW v, Synced(v, Root, l), NEW i, NEW a, Allocated(v, a, i, l)
  PROVE  /\ i # Root /\ a.ino[i] = Fresh /\ a.dev.ino[i] = Fresh /\ Synced(a, Root, l)
         /\ a.ino[Root] = v.ino[Root] /\ (Whole(v.dev) => Whole(a.dev))
<1>1. i # Root /\ i \in Inum
  BY DEF Allocated, Synced, ALOC
<1>2. a.ino[i] = Fresh /\ a.dev.ino[i] = Fresh
  BY <1>1 DEF Allocated
<1>3. a.ino[Root] = v.ino[Root] /\ a.dev.ino[Root] = v.dev.ino[Root]
  BY <1>1, Geometry DEF Allocated
<1>4. Synced(a, Root, l)
  BY <1>3, Geometry, SyncedOther DEF Allocated
<1>5. \A j \in Inum : a.dev.ino[j].nlink = v.dev.ino[j].nlink
  BY FreshIs DEF Allocated, EmptyInode
<1>6. Whole(v.dev) => Whole(a.dev)
  BY <1>5 DEF Whole, Exact, Allocated
<1>7. QED BY <1>1, <1>2, <1>3, <1>4, <1>6

(* The inode just allocated, with a mode.                                  *)
Typed(m) == [Fresh EXCEPT !.mode = m]

LEMMA TypedIs ==
  ASSUME NEW m \in {g * 4096 : g \in Garbage} \union {0, DirMode, RegMode}
  PROVE  /\ Typed(m) \in InodeRecord /\ Typed(m).mode = m /\ Typed(m).flags = ALOC
         /\ Typed(m).nlink = 0 /\ Typed(m).size = 0 /\ Typed(m).zones = [z \in 0 .. SInd |-> 0]
         /\ Alike(Typed(m), Fresh)
<1>1. Typed(m) \in InodeRecord
  BY FreshIs, InodeChange DEF Typed
<1>2. QED BY <1>1, FreshIs DEF Typed, InodeRecord, Alike

(* fs_mkdir before its first link.                                         *)
LEMMA MkdirPair ==
  ASSUME NEW l \in BOOLEAN, NEW v, Synced(v, Root, l), NEW i, NEW a, Allocated(v, a, i, l),
         NEW u, u = SetMode(a, i, DirMode)
  PROVE  /\ i \in Inum /\ Synced(u, Root, l) /\ Synced(u, i, l) /\ u.ino[i].mode = DirMode
         /\ u.ino[Root].mode = v.ino[Root].mode /\ (Whole(v.dev) => Whole(u.dev))
         /\ u.dev.ino[i].size = 0 /\ (l => Hidden(u.dev, i))
<1>1. /\ i # Root /\ a.ino[i] = Fresh /\ a.dev.ino[i] = Fresh /\ Synced(a, Root, l)
      /\ a.ino[Root] = v.ino[Root] /\ (Whole(v.dev) => Whole(a.dev))
  BY AllocatedPair
<1>2. i \in Inum /\ Root \in Inum /\ a \in Run /\ a.status = "ok" /\ Logged(a, l)
  BY Geometry DEF Allocated
<1> DEFINE p == Typed(DirMode)
<1>3. /\ p \in InodeRecord /\ p.mode = DirMode /\ p.flags = ALOC
      /\ p.nlink = 0 /\ Alike(p, Fresh)
  BY TypedIs
<1>4. u = SetIno(a, i, p)
  BY <1>1 DEF SetMode, Typed
<1> HIDE DEF p
<1>5. /\ u \in Run /\ u.dev = a.dev /\ u.log = a.log /\ u.r = a.r
      /\ u.status = a.status /\ u.ino = [a.ino EXCEPT ![i] = p] /\ u.ino[i] = p
      /\ \A j \in Inum : j # i => u.ino[j] = a.ino[j]
  BY <1>2, <1>3, <1>4, WithInode
<1>6. Logged(u, l) /\ u.status = "ok"
  BY <1>2, <1>5 DEF Logged
<1>7. Synced(u, i, l)
  BY <1>1, <1>3, <1>5, <1>6, FreshIs DEF Synced
<1>8. Synced(u, Root, l)
  BY <1>1, <1>2, <1>5, <1>6, SyncedOther
<1>9. u.dev.ino[i].size = 0 /\ (l => Hidden(u.dev, i))
  BY <1>1, <1>5, FreshIs DEF Allocated
<1>10. QED BY <1>1, <1>2, <1>3, <1>5, <1>7, <1>8, <1>9

LEMMA EndedMode ==
  ASSUME NEW l \in BOOLEAN, NEW v, Ended(v, l), NEW i \in Inum
  PROVE  Ended(SetMode(v, i, DirMode), l)
<1>1. v.ino[i] \in InodeRecord
  BY RunParts DEF Ended
<1>2. [v.ino[i] EXCEPT !.mode = DirMode] \in InodeRecord
  BY <1>1, InodeChange
<1>3. QED BY <1>2, EndedInode DEF SetMode

(* The three links of fs_mkdir.                                            *)
ThreeLinks(u, dp, i, name) == DirLink(DirLink(DirLink(u, i, ".", i), i, "..", dp), dp, name, i)

(* fs_mkdir, step by step.                                                 *)
LEMMA MkdirSteps ==
  ASSUME NEW v, NEW name, NEW a, a = InodeAlloc(v)
  PROVE  FsMkdir(v, Root, name) =
           IF Type(v.ino[Root].mode) # IFDIR \/ a.r = 0 THEN v
           ELSE ThreeLinks(SetMode(a, a.r, DirMode), Root, a.r, name)
BY DEF FsMkdir, ThreeLinks

LEMMA EndedMkdir ==
  ASSUME NEW l \in BOOLEAN, NEW v, Ended(v, l), NEW name \in Word
  PROVE  Ended(FsMkdir(v, Root, name), l)
<1> DEFINE a == InodeAlloc(v)
<1>1. Ended(a, l) /\ a.r \in {0} \union Inum
  BY EndedAlloc
<1>2. FsMkdir(v, Root, name) = IF Type(v.ino[Root].mode) # IFDIR \/ a.r = 0 THEN v
                               ELSE ThreeLinks(SetMode(a, a.r, DirMode), Root, a.r, name)
  BY MkdirSteps
<1> HIDE DEF a
<1>3. ASSUME a.r \in Inum PROVE Ended(ThreeLinks(SetMode(a, a.r, DirMode), Root, a.r, name), l)
  <2> DEFINE i == a.r
             u == SetMode(a, i, DirMode)
             b == DirLink(u, i, ".", i)
             c == DirLink(b, i, "..", Root)
  <2>1. i \in Inum /\ Root \in Inum /\ "." \in Word /\ ".." \in Word
    BY <1>3, Geometry, Cells0
  <2>2. Ended(u, l)
    BY <1>1, <1>3, EndedMode
  <2> HIDE DEF u
  <2>3. Ended(b, l)
    BY <2>1, <2>2, EndedDirLink
  <2> HIDE DEF b
  <2>4. Ended(c, l)
    BY <2>1, <2>3, EndedDirLink
  <2> HIDE DEF c
  <2>5. Ended(DirLink(c, Root, name, i), l)
    BY <2>1, <2>4, EndedDirLink
  <2>6. QED BY <2>5 DEF ThreeLinks, c, b, u
<1>4. QED BY <1>1, <1>2, <1>3

(* The new directory as it fills.                                          *)
Begun(d, i) == d.ino[i].size = 1 /\ At(d, i, 0) = Cell(i, ".")
(* A directory with its two entries.                                       *)
Furnished(d, i) ==
  d.ino[i].size = 2 /\ At(d, i, 0) = Cell(i, ".") /\ At(d, i, 1) = Cell(Root, "..")

(* The two entries of a new directory.                                     *)
LEMMA GetsDot ==
  ASSUME NEW d, NEW f, NEW i \in Inum, d.ino[i].size = 0,
         Packed(d, i) => Gets(d, f, i, Cell(i, "."))
  PROVE  Gets(d, f, i, Cell(i, ".")) /\ Begun(f, i)
<1>1. 0 .. d.ino[i].size - 1 = {}
  OBVIOUS
<1>2. Packed(d, i)
  BY <1>1 DEF Packed
<1>3. QED BY <1>2 DEF Gets, Begun

LEMMA GetsDots ==
  ASSUME NEW d, NEW f, NEW i \in Inum, Begun(d, i),
         Packed(d, i) => Gets(d, f, i, Cell(Root, ".."))
  PROVE  Gets(d, f, i, Cell(Root, "..")) /\ Furnished(f, i)
<1>1. 0 .. d.ino[i].size - 1 = {0} /\ 0 \in 0 .. d.ino[i].size - 1
  BY DEF Begun
<1>2. Packed(d, i)
  BY <1>1, Geometry DEF Packed, Begun, Cell
<1>3. QED BY <1>1, <1>2 DEF Gets, Furnished, Begun

(* What is shown of a directory with its two entries is complete.          *)
LEMMA FurnishedShown ==
  ASSUME NEW d, NEW i \in Inum, Furnished(d, i), Type(d.ino[i].mode) = IFDIR,
         NEW name \in Names
  PROVE  Shown(d, Cell(i, name)) \in CompleteEntries
<1>1. Cells(d, i) = [k \in 1 .. 2 |-> At(d, i, k - 1)]
  BY DEF Cells, At, Furnished
<1>2. [k \in 1 .. 2 |-> At(d, i, k - 1)] = <<At(d, i, 0), At(d, i, 1)>>
  OBVIOUS
<1>3. Cells(d, i) = <<Cell(i, "."), Cell(Root, "..")>>
  BY <1>1, <1>2 DEF Furnished
<1>4. Shown(d, Cell(i, name)) =
        [name |-> name, type |-> IFDIR, data |-> <<Cell(i, "."), Cell(Root, "..")>>]
  BY <1>3 DEF Shown, Cell
<1> DEFINE S == {[name |-> s, type |-> IFDIR, data |-> <<Cell(j, "."), Cell(Root, "..")>>] :
                   s \in Names, j \in Inum}
           T == {[name |-> s, type |-> IF src.kind = "dir" THEN IFDIR ELSE IFREG,
                  data |-> SubSeq(Data(src), 1, Min({src.len, MaxCells}))] :
                   s \in Names, src \in {x \in Sources : x.kind # "missing"}}
<1>5. CompleteEntries = S \union T
  BY DEF CompleteEntries
<1>6. [name |-> name, type |-> IFDIR, data |-> <<Cell(i, "."), Cell(Root, "..")>>] \in S
  BY SMTT(30)
<1> HIDE DEF S, T
<1>7. QED BY ONLY <1>4, <1>5, <1>6

(* fs_mkdir leaves a whole volume whole.                                   *)
LEMMA FsMkdirIs ==
  ASSUME NEW l \in BOOLEAN, NEW v, Synced(v, Root, l), Type(v.ino[Root].mode) = IFDIR,
         NEW name \in Word, l => name \in Names, NEW w, w = FsMkdir(v, Root, name)
  PROVE  Ended(w, l) \/ Pair(v, w, Root, l)
<1> DEFINE a == InodeAlloc(v)
<1>1. v \in Run /\ v.status = "ok" /\ Logged(v, l)
  BY DEF Synced
<1>2. a.r = 0 \/ \E i \in Inum : Allocated(v, a, i, l)
  BY <1>1, AllocIs
<1>3. w = IF Type(v.ino[Root].mode) # IFDIR \/ a.r = 0 THEN v
          ELSE ThreeLinks(SetMode(a, a.r, DirMode), Root, a.r, name)
  BY MkdirSteps
<1> HIDE DEF a
<1>4. CASE a.r = 0
  BY <1>3, <1>4 DEF Pair
<1>5. CASE a.r # 0 /\ \E i \in Inum : Allocated(v, a, i, l)
  <2>1. PICK i \in Inum : Allocated(v, a, i, l)
    BY <1>5
  <2> DEFINE u == SetMode(a, i, DirMode)
             b == DirLink(u, i, ".", i)
             c == DirLink(b, i, "..", Root)
  <2>2. w = DirLink(c, Root, name, i)
    BY <1>3, <1>5, <2>1 DEF Allocated, ThreeLinks
  <2>3. Root \in Inum /\ "." \in Word /\ ".." \in Word
    BY Geometry, Cells0
  <2>4. /\ Synced(u, Root, l) /\ Synced(u, i, l) /\ u.ino[i].mode = DirMode
        /\ u.ino[Root].mode = v.ino[Root].mode /\ (Whole(v.dev) => Whole(u.dev))
    BY <2>1, MkdirPair
  <2>40. u.dev.ino[i].size = 0 /\ (l => Hidden(u.dev, i)) /\ i # Root /\ MaxCells > 1
    BY <1>1, <2>1, MkdirPair, AllocatedPair, Geometry
  <2> HIDE DEF u
  <2>5. Ended(b, l) \/ (Pair(u, b, i, l) /\ Begun(b.dev, i) /\ (l => Hidden(b.dev, i)))
    <3>1. l => Linkable(u, i, i, ".")
      BY <2>40 DEF Linkable
    <3>2. Ended(b, l) \/ (Pair(u, b, i, l) /\ Landed(u, b, i, i, "."))
      BY <2>3, <2>4, <3>1, DirModeIs, LinkPair
    <3> HIDE DEF b
    <3>3. ASSUME Landed(u, b, i, i, "."), Pair(u, b, i, l)
          PROVE  Begun(b.dev, i) /\ (l => Hidden(b.dev, i))
      <4>1. Packed(u.dev, i) => Gets(u.dev, b.dev, i, Cell(i, "."))
        BY <2>40, <3>3 DEF Landed
      <4>2. Gets(u.dev, b.dev, i, Cell(i, ".")) /\ Begun(b.dev, i)
        BY <2>40, <4>1, GetsDot
      <4>3. RootKept(u.dev, b.dev)
        BY <2>40, <4>2, GetsRoot
      <4>4. u.dev \in Volume
        BY <2>4, RunParts DEF Synced
      <4>5. QED BY <2>40, <4>2, <4>3, <4>4, StillHidden
    <3>4. QED BY <3>2, <3>3
  <2> HIDE DEF b
  <2>6. \/ Ended(c, l)
        \/ /\ Pair(u, b, i, l) /\ Pair(b, c, i, l)
           /\ Furnished(c.dev, i) /\ (l => Hidden(c.dev, i))
    <3>1. CASE Ended(b, l)
      BY <2>3, <3>1, EndedDirLink
    <3>2. CASE Pair(u, b, i, l) /\ Begun(b.dev, i) /\ (l => Hidden(b.dev, i))
      <4>1. Synced(b, Root, l) /\ Synced(b, i, l) /\ Type(b.ino[i].mode) = IFDIR
        BY <2>4, <3>2, DirModeIs DEF Pair
      <4>2. l => Linkable(b, i, Root, "..")
        BY <3>2 DEF Linkable
      <4>3. Ended(c, l) \/ (Pair(b, c, i, l) /\ Landed(b, c, i, Root, ".."))
        BY <2>3, <3>2, <4>1, <4>2, LinkPair
      <4> HIDE DEF c
      <4>4. ASSUME Landed(b, c, i, Root, "..")
            PROVE  Furnished(c.dev, i) /\ (l => Hidden(c.dev, i))
        <5>1. Packed(b.dev, i) => Gets(b.dev, c.dev, i, Cell(Root, ".."))
          BY <2>40, <3>2, <4>4 DEF Landed, Begun
        <5>2. Gets(b.dev, c.dev, i, Cell(Root, "..")) /\ Furnished(c.dev, i)
          BY <3>2, <5>1, GetsDots
        <5>3. RootKept(b.dev, c.dev)
          BY <2>40, <5>2, GetsRoot
        <5>4. b.dev \in Volume
          BY <4>1, RunParts DEF Synced
        <5>5. QED BY <3>2, <5>2, <5>3, <5>4, StillHidden
      <4>5. QED BY <3>2, <4>3, <4>4
    <3>3. QED BY <2>5, <3>1, <3>2
  <2> HIDE DEF c
  <2>7. Ended(w, l) \/ (Pair(u, b, i, l) /\ Pair(b, c, i, l) /\ Pair(c, w, i, l))
    <3>1. CASE Ended(c, l)
      BY <2>2, <2>3, <3>1, EndedDirLink
    <3>2. CASE Pair(u, b, i, l) /\ Pair(b, c, i, l) /\ Furnished(c.dev, i)
      <4>1. /\ Synced(c, Root, l) /\ Synced(c, i, l)
            /\ Type(c.ino[Root].mode) = IFDIR /\ Type(c.ino[i].mode) = IFDIR
        BY <2>4, <3>2, DirModeIs DEF Pair
      <4>2. c.ino[i].mode = c.dev.ino[i].mode
        BY <3>2, <4>1 DEF Synced, Alike, Furnished
      <4>3. l => Linkable(c, Root, i, name)
        BY <2>40, <3>2, <4>1, <4>2, FurnishedShown DEF Linkable
      <4>4. QED BY <2>2, <2>3, <3>2, <4>1, <4>3, LinkPair
    <3>3. QED BY <2>6, <3>1, <3>2
  <2>8. QED BY <2>4, <2>7 DEF Pair
<1>6. QED BY <1>2, <1>4, <1>5

-----------------------------------------------------------------------------
(* Folds as paths; cmd_mkdir.                                              *)

(* FoldLeft takes the largest index first.                                 *)
LEMMA MaxIn ==
  ASSUME NEW n \in Nat, NEW S \in SUBSET (1 .. n), S # {}
  PROVE  Max(S) \in S /\ S \ {Max(S)} \in SUBSET (1 .. n)
<1>1. S \in SUBSET Nat /\ \A y \in S : y <= n
  OBVIOUS
<1>2. Max(S) \in S
  BY <1>1, MaxIs
<1>3. QED BY <1>2

LEMMA MaxSegment ==
  ASSUME NEW k \in Nat, k > 0
  PROVE  1 .. k # {} /\ Max(1 .. k) = k /\ (1 .. k) \ {k} = 1 .. k - 1
<1>1. 1 .. k \in SUBSET Nat /\ (\A y \in 1 .. k : y <= k) /\ k \in 1 .. k
  OBVIOUS
<1>2. Max(1 .. k) \in 1 .. k /\ \A y \in 1 .. k : y <= Max(1 .. k)
  BY <1>1, MaxIs
<1>3. Max(1 .. k) = k
  BY <1>1, <1>2
<1>4. QED BY <1>1, <1>3

(* A fold goes through its segments in order.                              *)
Recurs(n, X, base, step, iter) ==
  /\ iter[{}] = base
  /\ \A S \in SUBSET (1 .. n) : S # {} /\ iter[S \ {Max(S)}] \in X =>
       iter[S] = step[<<iter[S \ {Max(S)}], Max(S)>>]
(* The values of a fold, from its base to its last one.                    *)
Path(n, X, base, step, last) ==
  \E it \in [0 .. n -> X] :
    /\ it[0] = base /\ it[n] = last
    /\ \A k \in 1 .. n : it[k] = step[<<it[k - 1], k>>]

(* A recursive function over subsets that takes the largest index gives    *)
(* such values.                                                            *)
LEMMA FoldPath ==
  ASSUME NEW n \in Nat, NEW X, NEW base \in X, NEW step, Steps(n, X, step),
         NEW iter, Recurs(n, X, base, step, iter)
  PROVE  Path(n, X, base, step, iter[1 .. n])
<1>a. /\ \A x \in X : \A k \in 1 .. n : step[<<x, k>>] \in X
      /\ iter[{}] = base
      /\ \A S \in SUBSET (1 .. n) : S # {} /\ iter[S \ {Max(S)}] \in X =>
           iter[S] = step[<<iter[S \ {Max(S)}], Max(S)>>]
  BY DEF Steps, Recurs
<1> USE <1>a
<1> DEFINE it == [k \in 0 .. n |-> iter[1 .. k]]
           In == {k \in Nat : k <= n => iter[1 .. k] \in X}
<1>1. ASSUME NEW k \in 1 .. n, iter[1 .. k - 1] \in X
      PROVE  iter[1 .. k] = step[<<iter[1 .. k - 1], k>>]
  <2>1. 1 .. k \in SUBSET (1 .. n) /\ k \in Nat /\ k > 0
    OBVIOUS
  <2>2. 1 .. k # {} /\ Max(1 .. k) = k /\ (1 .. k) \ {k} = 1 .. k - 1
    BY <2>1, MaxSegment
  <2>3. QED BY <1>1, <2>1, <2>2
<1>2. 0 \in In /\ iter[1 .. 0] = base
  <2>1. 1 .. 0 = {}
    OBVIOUS
  <2>2. QED BY <2>1
<1>3. ASSUME NEW m \in Nat, m \in In PROVE m + 1 \in In
  <2>1. SUFFICES ASSUME m + 1 <= n PROVE iter[1 .. m + 1] \in X
    OBVIOUS
  <2>2. m + 1 \in 1 .. n /\ (m + 1) - 1 = m /\ m <= n
    BY <2>1
  <2>3. iter[1 .. m] \in X
    BY <1>3, <2>2
  <2>4. iter[1 .. m + 1] = step[<<iter[1 .. m], m + 1>>]
    BY <1>1, <2>2, <2>3
  <2>5. QED BY <2>2, <2>3, <2>4
<1>4. \A k \in 0 .. n : iter[1 .. k] \in X
  <2> HIDE DEF In
  <2>1. Nat \subseteq In
    BY <1>2, <1>3, SetInduction
  <2>2. QED BY <2>1 DEF In
<1>5. it \in [0 .. n -> X] /\ it[0] = base /\ it[n] = iter[1 .. n]
  BY <1>2, <1>4
<1>6. ASSUME NEW k \in 1 .. n PROVE it[k] = step[<<it[k - 1], k>>]
  <2>1. k \in 0 .. n /\ k - 1 \in 0 .. n
    OBVIOUS
  <2>2. QED BY <1>1, <1>4, <2>1
<1> HIDE DEF it
<1>7. QED BY <1>5, <1>6 DEF Path

(* The loop of cmd_mkdir as a path.                                        *)
LEMMA MkdirFold ==
  ASSUME NEW n \in Nat, NEW paths \in [1 .. n -> Paths], NEW X, NEW base \in X, NEW step,
         \A x \in X : \A k \in 1 .. n : step[<<x, k>>] = DoMkdir(x, paths[k]), Steps(n, X, step)
  PROVE  Path(n, X, base, step, FoldLeft(DoMkdir, base, paths))
<1> DEFINE ch == [S \in SUBSET (1 .. n) |-> Max(S)]
           iter == CHOOSE f : f = [S \in SUBSET (1 .. n) |->
                     IF S = {} THEN base ELSE DoMkdir(f[S \ {Max(S)}], paths[Max(S)])]
<1>1. FoldLeft(DoMkdir, base, paths) = iter[1 .. n]
  <2>1. DOMAIN paths = 1 .. n
    OBVIOUS
  <2>2. QED BY <2>1, Zenon DEF FoldLeft, MapThenFoldSet
<1>2. \A S \in SUBSET (1 .. n) : ch[S] = Max(S)
  OBVIOUS
<1>3. Chooses(n, ch)
  BY <1>2, MaxIn DEF Chooses
<1> HIDE DEF ch
<1>4. Folds(n, X, base, step, ch)
  BY <1>3, FoldExists
<1>5. \E f : f = [S \in SUBSET (1 .. n) |->
                    IF S = {} THEN base ELSE DoMkdir(f[S \ {Max(S)}], paths[Max(S)])]
  <2>1. PICK f \in [SUBSET (1 .. n) -> X] : \A S \in SUBSET (1 .. n) :
          f[S] = IF S = {} THEN base ELSE step[<<f[S \ {ch[S]}], ch[S]>>]
    BY <1>4 DEF Folds
  <2>2. \A S \in SUBSET (1 .. n) :
          f[S] = IF S = {} THEN base ELSE DoMkdir(f[S \ {Max(S)}], paths[Max(S)])
    BY <1>2, <2>1, MaxIn
  <2>3. QED BY <2>1, <2>2
<1>6. iter = [S \in SUBSET (1 .. n) |->
                IF S = {} THEN base ELSE DoMkdir(iter[S \ {Max(S)}], paths[Max(S)])]
  BY <1>5, Zenon
<1> HIDE DEF iter
<1>7. Recurs(n, X, base, step, iter)
  BY <1>6, MaxIn DEF Recurs
<1>8. QED BY <1>1, <1>7, FoldPath

(* A run so far: from volume d0 to v.dev, every block and link in its place *)
(* if it was in d0.                                                        *)
Calm(v, d0, l) ==
  /\ v \in Run /\ v.status = "ok" /\ Logged(v, l)
  /\ l /\ Whole(d0) => Whole(v.dev)

(* What is left of a run when it has ended.                                *)
Outcome(v, d0, l) ==
  /\ v \in Run /\ Logged(v, l) /\ v.status \in {"ok", "dies", "wild"}
  /\ v.status = "ok" /\ l /\ Whole(d0) => Whole(v.dev)

(* The volume after fs_super_kill.                                         *)
Cleaned(d) == [d EXCEPT !.clean = TRUE]

LEMMA CleanedIs ==
  ASSUME NEW l \in BOOLEAN, NEW d, Good(d, l)
  PROVE  /\ Good(Cleaned(d), l) /\ Cleaned(d).ino = d.ino
         /\ (l => Visible(Cleaned(d)) = Visible(d))
         /\ (Whole(d) => Whole(Cleaned(d)))
         /\ \A t : Named(Cleaned(d), t) = Named(d, t)
<1> DEFINE e == Cleaned(d)
<1>1. d \in Volume /\ Sound(d) /\ NoHole(d)
  BY DEF Good
<1>2. e \in Volume /\ e.ino = d.ino /\ e.blk = d.blk /\ e.free = d.free
  BY <1>1 DEF Cleaned, Volume
<1> HIDE DEF e
<1>3. \A x \in Slot : Owned(e, x) = Owned(d, x)
  BY <1>2, SuperChange
<1>4. Sound(e) /\ Leads(d, e)
  BY <1>1, <1>2, <1>3, SoundSame
<1>5. Reads(d, e)
  BY <1>2, <1>4 DEF Reads
<1>6. Good(e, l) /\ (l => Visible(e) = Visible(d))
  BY <1>2, <1>4, <1>5, GoodCalm
<1>7. \A t : Named(e, t) = Named(d, t)
  BY <1>1, <1>2, <1>5, EntriesKept
<1>8. Whole(d) => Whole(e)
  BY <1>2, <1>3, <1>7, FullSame DEF Whole, Exact
<1>9. QED BY <1>2, <1>6, <1>7, <1>8 DEF e

(* fs_super_kill ends a run.                                               *)
LEMMA KillIs ==
  ASSUME NEW l \in BOOLEAN, NEW d0, NEW v, Ended(v, l) \/ Calm(v, d0, l)
  PROVE  Outcome(SuperKill(v), d0, l)
<1>1. SuperKill(v) = Emit(v, Cleaned(v.dev))
  BY DEF SuperKill, Cleaned
<1>2. CASE Ended(v, l)
  BY <1>1, <1>2, EndedEmit DEF Ended, Outcome
<1>3. CASE Calm(v, d0, l)
  <2>1. v \in Run /\ v.status = "ok" /\ Logged(v, l) /\ Good(v.dev, l)
    BY <1>3 DEF Calm, Logged
  <2>2. /\ Good(Cleaned(v.dev), l) /\ (Whole(v.dev) => Whole(Cleaned(v.dev)))
        /\ (l => Follows(v.dev, Cleaned(v.dev)))
    BY <2>1, CleanedIs DEF Follows
  <2> DEFINE e == Cleaned(v.dev)
             w == SuperKill(v)
  <2> HIDE DEF e, w
  <2>3. w = Emit(v, e)
    BY <1>1 DEF e, w
  <2>4. /\ w \in Run /\ w.dev = e /\ w.ino = v.ino /\ w.r = v.r /\ w.status = "ok" /\ Logged(w, l)
    BY <2>1, <2>2, <2>3, Emitted DEF e
  <2>5. Outcome(w, d0, l)
    BY <1>3, <2>2, <2>4 DEF Outcome, Calm, e
  <2>6. QED BY <2>5 DEF w
<1>4. QED BY <1>2, <1>3

(* A run that starts on a good volume.                                     *)
LEMMA OpenIs ==
  ASSUME NEW l \in BOOLEAN, Good(disk, l)
  PROVE  /\ Calm(Open, disk, l) /\ Open.dev = disk /\ Open.ino = disk.ino /\ Open.r = 0
         /\ Type(disk.ino[Root].mode) = IFDIR => Synced(Open, Root, l)
         /\ disk.ino[Root].flags = ALOC => Synced(Open, Root, l)
         /\ l => Type(disk.ino[Root].mode) = IFDIR
<1>1. disk \in Volume /\ disk.ino \in [Inum -> InodeRecord] /\ disk.ino[Root] \in InodeRecord
  BY VolumeParts, Geometry DEF Good
<1>2. Open.dev = disk /\ Open.ino = disk.ino /\ Open.log = <<>> /\ Open.r = 0 /\ Open.status = "ok"
  BY DEF Open
<1>3. Open \in Run
  BY <1>1 DEF Open, Run
<1>4. Len(Open.log) = 0
  BY <1>2
<1>5. Logged(Open, l)
  <2>1. 1 .. 0 = {}
    OBVIOUS
  <2>2. Tells(Open.log)
    BY <1>4, <2>1 DEF Tells
  <2>3. QED BY <1>2, <1>4, <2>1, <2>2 DEF Logged
<1>6. l => Type(disk.ino[Root].mode) = IFDIR
  BY DEF Good, IsDir
<1>7. disk.ino[Root].flags = ALOC => Synced(Open, Root, l)
  BY <1>2, <1>3, <1>5, <1>6 DEF Synced, Alike
<1>8. Type(disk.ino[Root].mode) = IFDIR => disk.ino[Root].flags = ALOC
  <2>1. Type(0) # IFDIR
    BY DEF Type, IFDIR
  <2>2. disk.ino[Root].flags = 0 => disk.ino[Root].mode = 0
    BY Geometry DEF Good, Unused, EmptyInode
  <2>3. QED BY <1>1, <2>1, <2>2, InodeParts
<1>9. QED BY <1>2, <1>3, <1>5, <1>6, <1>7, <1>8 DEF Calm

(* do_mkdir.                                                               *)
Making(v, d0, l) ==
  \/ Ended(v, l)
  \/ /\ Calm(v, d0, l)
     /\ Type(v.ino[Root].mode) = IFDIR => Synced(v, Root, l)
     /\ l => Type(v.ino[Root].mode) = IFDIR

(* The result does not matter to what follows.                             *)
LEMMA MakingResult ==
  ASSUME NEW l \in BOOLEAN, NEW d0, NEW v, Making(v, d0, l), NEW n \in Int,
         NEW w, w = [v EXCEPT !.r = n]
  PROVE  Making(w, d0, l)
<1>1. v \in Run
  BY DEF Making, Ended, Calm
<1>2. /\ w \in Run /\ w.dev = v.dev /\ w.ino = v.ino /\ w.log = v.log /\ w.r = n
      /\ w.status = v.status
  BY <1>1, WithResult
<1>3. QED BY <1>2 DEF Making, Ended, Calm, Logged, Synced

(* The last name of a path.                                                *)
LEMMA LastName ==
  ASSUME NEW path \in Paths
  PROVE  Last(path) \in Word /\ Last(path) \in Names
<1>1. path \in Seq(Names) /\ path # <<>>
  BY VolumeAssumption
<1>2. path[Len(path)] \in Names
  BY <1>1
<1>3. QED BY <1>2 DEF Last, Word

(* do_mkdir.                                                               *)
LEMMA DoMkdirIs ==
  ASSUME NEW l \in BOOLEAN, NEW d0, NEW v, Making(v, d0, l), NEW path \in Paths
  PROVE  Making(DoMkdir(v, path), d0, l)
<1> DEFINE name == Last(path)
           u == FsMkdir(v, Root, name)
<1>1. v \in Run /\ name \in Word /\ name \in Names /\ -1 \in Int /\ 0 \in Int
  BY LastName DEF Making, Ended, Calm
<1>2. Lookup(v, Root, name) = 0
  <2>1. v.ino[Root].flags \in {0, ALOC}
    BY <1>1, RunParts, InodeParts, Geometry
  <2>2. QED BY <2>1, LookupIs
<1>3. DoMkdir(v, path) = IF v.r # 0 THEN [v EXCEPT !.r = -1] ELSE [u EXCEPT !.r = 0]
  BY <1>2 DEF DoMkdir
<1> HIDE DEF name
<1>4. Making(u, d0, l)
  <2>1. CASE Ended(v, l)
    BY <1>1, <2>1, EndedMkdir DEF Making
  <2>2. CASE ~ Ended(v, l) /\ Type(v.ino[Root].mode) # IFDIR
    <3>1. u = v
      BY <2>2, MkdirSteps
    <3>2. QED BY <3>1
  <2>3. CASE ~ Ended(v, l) /\ Type(v.ino[Root].mode) = IFDIR
    <3>1. Synced(v, Root, l) /\ Calm(v, d0, l)
      BY <2>3 DEF Making
    <3> HIDE DEF u
    <3>2. Ended(u, l) \/ Pair(v, u, Root, l)
      BY <1>1, <2>3, <3>1, FsMkdirIs DEF u
    <3>3. QED BY <2>3, <3>1, <3>2 DEF Making, Pair, Calm, Synced
  <2>4. QED BY <2>1, <2>2, <2>3
<1> HIDE DEF u
<1>5. Making([v EXCEPT !.r = -1], d0, l)
  BY <1>1, MakingResult
<1>6. Making([u EXCEPT !.r = 0], d0, l)
  BY <1>1, <1>4, MakingResult
<1>7. QED BY <1>3, <1>5, <1>6

(* A run of mkdir leaves good volumes at each of its writes, and a whole   *)
(* one at its end if it found one.                                         *)
LEMMA MkdirRunIs ==
  ASSUME NEW l \in BOOLEAN, Good(disk, l), NEW n \in Nat, NEW paths \in [1 .. n -> Paths]
  PROVE  Outcome(MkdirRun(paths), disk, l)
<1> DEFINE X == {v \in Run : Making(v, disk, l)}
           step == [z \in X \X (1 .. n) |-> DoMkdir(z[1], paths[z[2]])]
           w == FoldLeft(DoMkdir, Open, paths)
<1>1. Open \in X
  BY OpenIs DEF Making, Calm
<1>2. \A x \in X : \A k \in 1 .. n : step[<<x, k>>] = DoMkdir(x, paths[k])
  OBVIOUS
<1>3. ASSUME NEW x \in X, NEW k \in 1 .. n PROVE DoMkdir(x, paths[k]) \in X
  <2>1. Making(DoMkdir(x, paths[k]), disk, l)
    BY DoMkdirIs
  <2>2. QED BY <2>1 DEF Making, Ended, Calm
<1> HIDE DEF X
<1>4. Steps(n, X, step)
  BY <1>2, <1>3 DEF Steps
<1> HIDE DEF step, w
<1>5. Path(n, X, Open, step, w)
  BY <1>1, <1>2, <1>4, MkdirFold DEF w
<1>6. w \in X
  BY <1>5 DEF Path
<1>7. Ended(w, l) \/ Calm(w, disk, l)
  BY <1>6 DEF X, Making
<1>8. Outcome(SuperKill(w), disk, l)
  BY <1>7, KillIs
<1>9. QED BY <1>8 DEF MkdirRun, w

-----------------------------------------------------------------------------
(* do_copy.                                                                *)

(* One round of the loop of do_copy.                                       *)
Chunk(w, k, i, src) ==
  FsWrite(w, i, (k - 1) * CPB, SubSeq(Data(src), (k - 1) * CPB + 1, Min({k * CPB, src.len})))

(* The loop of do_copy as a path.                                          *)
LEMMA CopyFold ==
  ASSUME NEW n \in Nat, NEW i, NEW src, n = (src.len + CPB - 1) \div CPB,
         NEW X, NEW base \in X, NEW step,
         \A x \in X : \A k \in 1 .. n : step[<<x, k>>] = Chunk(x, k, i, src), Steps(n, X, step)
  PROVE  Path(n, X, base, step, CopyChunks(base, i, src))
<1> DEFINE seq == [k \in 1 .. (src.len + CPB - 1) \div CPB |-> k]
           ch == [S \in SUBSET (1 .. n) |-> Max(S)]
           iter == CHOOSE f : f = [S \in SUBSET (1 .. n) |->
                     IF S = {} THEN base ELSE Chunk(f[S \ {Max(S)}], seq[Max(S)], i, src)]
<1>1. CopyChunks(base, i, src) = iter[1 .. n]
  <2>1. DOMAIN seq = 1 .. n
    OBVIOUS
  <2>2. CopyChunks(base, i, src) = FoldLeft(LAMBDA w, k : Chunk(w, k, i, src), base, seq)
    BY DEF CopyChunks, Chunk
  <2>3. QED BY <2>1, <2>2, Zenon DEF FoldLeft, MapThenFoldSet
<1>2. \A S \in SUBSET (1 .. n) : ch[S] = Max(S)
  OBVIOUS
<1>3. \A S \in SUBSET (1 .. n) : S # {} => Max(S) \in 1 .. n /\ seq[Max(S)] = Max(S)
  BY MaxIn
<1>4. Chooses(n, ch)
  BY <1>2, MaxIn DEF Chooses
<1> HIDE DEF ch, seq
<1>5. Folds(n, X, base, step, ch)
  BY <1>4, FoldExists
<1>6. \E f : f = [S \in SUBSET (1 .. n) |->
                    IF S = {} THEN base ELSE Chunk(f[S \ {Max(S)}], seq[Max(S)], i, src)]
  <2>1. PICK f \in [SUBSET (1 .. n) -> X] : \A S \in SUBSET (1 .. n) :
          f[S] = IF S = {} THEN base ELSE step[<<f[S \ {ch[S]}], ch[S]>>]
    BY <1>5 DEF Folds
  <2>2. ASSUME NEW S \in SUBSET (1 .. n), S # {}
        PROVE  f[S] = Chunk(f[S \ {Max(S)}], seq[Max(S)], i, src)
    <3>1. Max(S) \in 1 .. n /\ seq[Max(S)] = Max(S) /\ f[S \ {Max(S)}] \in X
      BY <1>3, <2>1, <2>2, MaxIn
    <3>2. f[S] = step[<<f[S \ {Max(S)}], Max(S)>>]
      BY <1>2, <2>1, <2>2
    <3>3. step[<<f[S \ {Max(S)}], Max(S)>>] = Chunk(f[S \ {Max(S)}], Max(S), i, src)
      BY <3>1
    <3>4. QED BY <3>1, <3>2, <3>3
  <2>3. f[{}] = base
    BY <2>1
  <2>4. f = [S \in SUBSET (1 .. n) |->
               IF S = {} THEN base ELSE Chunk(f[S \ {Max(S)}], seq[Max(S)], i, src)]
    BY <2>1, <2>2, <2>3
  <2>5. QED BY <2>4
<1>7. iter = [S \in SUBSET (1 .. n) |->
                IF S = {} THEN base ELSE Chunk(iter[S \ {Max(S)}], seq[Max(S)], i, src)]
  BY <1>6, Zenon
<1> HIDE DEF iter
<1>8. ASSUME NEW S \in SUBSET (1 .. n), S # {}, iter[S \ {Max(S)}] \in X
      PROVE  iter[S] = step[<<iter[S \ {Max(S)}], Max(S)>>]
  <2>1. Max(S) \in 1 .. n /\ seq[Max(S)] = Max(S)
    BY <1>3, <1>8
  <2>2. iter[S] = Chunk(iter[S \ {Max(S)}], seq[Max(S)], i, src)
    BY <1>7, <1>8
  <2>3. step[<<iter[S \ {Max(S)}], Max(S)>>] = Chunk(iter[S \ {Max(S)}], Max(S), i, src)
    BY <1>8, <2>1
  <2>4. QED BY <2>1, <2>2, <2>3
<1>9. iter[{}] = base
  BY <1>7
<1>10. Recurs(n, X, base, step, iter)
  BY <1>8, <1>9 DEF Recurs
<1>11. QED BY <1>1, <1>10, FoldPath

(* A write to a file changes no directory.                                 *)
LEMMA FileWrite ==
  ASSUME NEW d \in Volume, NEW f \in Volume, NEW i \in Inum, NEW off, NEW cells,
         Wrote(d, f, i, off, cells), ~ IsDir(f, i), IsDir(d, i) => d.ino[i].size = 0
  PROVE  /\ \A t : Named(f, t) = Named(d, t)
         /\ \A j \in Inum : f.ino[j].nlink = d.ino[j].nlink
<1>1. \A j \in Inum : j # i => f.ino[j] = d.ino[j]
  BY DEF Wrote
<1>2. /\ \A x : x \in Entries(d) <=>
           /\ x \in Inum \X (1 .. MaxCells) /\ IsDir(d, x[1]) /\ x[2] <= d.ino[x[1]].size
           /\ At(d, x[1], x[2] - 1).n # 0
      /\ \A x : x \in Entries(f) <=>
           /\ x \in Inum \X (1 .. MaxCells) /\ IsDir(f, x[1]) /\ x[2] <= f.ino[x[1]].size
           /\ At(f, x[1], x[2] - 1).n # 0
  BY EntryIs DEF At
<1>3. ASSUME NEW x
      PROVE  /\ x \in Entries(f) <=> x \in Entries(d)
             /\ x \in Entries(d) => At(f, x[1], x[2] - 1) = At(d, x[1], x[2] - 1)
  <2>1. SUFFICES ASSUME x \in Inum \X (1 .. MaxCells)
                 PROVE  /\ x \in Entries(f) <=> x \in Entries(d)
                        /\ x \in Entries(d) => At(f, x[1], x[2] - 1) = At(d, x[1], x[2] - 1)
    BY <1>2
  <2>2. x[1] \in Inum /\ x[2] \in Nat /\ x[2] >= 1 /\ x[2] - 1 \in Nat
    BY <2>1, Geometry
  <2>3. CASE x[1] # i
    <3>1. f.ino[x[1]] = d.ino[x[1]] /\ (IsDir(f, x[1]) <=> IsDir(d, x[1]))
      BY <1>1, <2>2, <2>3 DEF IsDir
    <3>2. ASSUME x[2] <= d.ino[x[1]].size
          PROVE  At(f, x[1], x[2] - 1) = At(d, x[1], x[2] - 1)
      <4>1. d.ino[x[1]].size \in Nat
        BY <2>2, VolumeParts, InodeParts
      <4>2. x[2] - 1 \in 0 .. d.ino[x[1]].size - 1
        BY <2>2, <3>2, <4>1
      <4>3. QED BY <2>2, <2>3, <4>2 DEF Wrote
    <3>3. QED BY <1>2, <3>1, <3>2
  <2>4. CASE x[1] = i
    <3>1. x \notin Entries(f)
      BY <1>2, <2>4
    <3>2. ~ (x[2] <= 0)
      BY <2>2
    <3>3. x \notin Entries(d)
      BY <1>2, <2>4, <3>2
    <3>4. QED BY <3>1, <3>3
  <2>5. QED BY <2>3, <2>4
<1>4. \A t : Named(f, t) = Named(d, t)
  BY <1>3 DEF Named, At
<1>5. QED BY <1>1, <1>4 DEF Wrote

(* The mode of a regular file.                                             *)
LEMMA RegModeIs == Type(RegMode) # IFDIR
BY DEF Type, RegMode, IFREG, IFDIR

Lower(a, b) == IF a < b THEN a ELSE b

(* The cells of a chunk fill no more than a block.                         *)
LEMMA ChunkCells ==
  ASSUME NEW src \in Sources, NEW k \in Nat, k > 0, (k - 1) * CPB < src.len
  PROVE  LET off == (k - 1) * CPB
             cells == SubSeq(Data(src), off + 1, Min({k * CPB, src.len}))
         IN /\ off \in Nat /\ cells \in Seq(CellSet) /\ Len(cells) <= CPB - (off % CPB)
            /\ off + Len(cells) = Lower(k * CPB, src.len)
            /\ \A j \in 1 .. Len(cells) : cells[j] = Cell(off + j, src.name)
<1> DEFINE off == (k - 1) * CPB
           last == Min({k * CPB, src.len})
           cells == SubSeq(Data(src), off + 1, last)
<1>1. CPB \in Nat \ {0} /\ k - 1 \in Nat /\ src.len \in Nat /\ src.name \in Word
  <2>1. src.len \in Nat
    BY VolumeAssumption
  <2>2. src.name \in Word
    BY DEF Word
  <2>3. QED BY <2>1, <2>2, Geometry
<1>2. off \in Nat /\ k * CPB \in Nat /\ k * CPB = off + CPB
  BY <1>1
<1>3. off % CPB = 0
  <2>1. \A a, b \in Nat : a * b = b * a + 0
    OBVIOUS
  <2>2. off = CPB * (k - 1) + 0 /\ 0 \in 0 .. CPB - 1
    BY <1>1, <2>1
  <2> DEFINE q == k - 1
             r == 0
  <2> HIDE DEF off, q, r
  <2>3. q \in Nat /\ off = CPB * q + r /\ r \in 0 .. CPB - 1
    BY <1>1, <2>2 DEF q, r
  <2>4. off % CPB = r
    BY <1>1, <2>3, Parts
  <2>5. QED BY <2>4 DEF r
<1>4. last \in Nat /\ last <= off + CPB /\ last <= src.len /\ off + 1 <= last
  <2>1. last = IF k * CPB < src.len THEN k * CPB ELSE src.len
    BY <1>1, <1>2, MinOfTwo
  <2>2. off < src.len
    OBVIOUS
  <2> HIDE DEF last, off
  <2>3. QED BY <1>1, <1>2, <2>1, <2>2
<1>5. /\ Data(src) \in Seq(CellSet) /\ Len(Data(src)) = src.len
      /\ \A j \in 1 .. src.len : Data(src)[j] \in CellSet /\ Data(src)[j] = Cell(j, src.name)
  <2>1. \A j \in 1 .. src.len : Cell(j, src.name) \in CellSet
    <3>1. \A j \in 1 .. src.len : j \in Nat
      BY <1>1
    <3>2. QED BY <1>1, <3>1, Cells0
  <2> DEFINE n == src.len
  <2>2. Data(src) = [j \in 1 .. n |-> Cell(j, src.name)]
    BY DEF Data
  <2> HIDE DEF n
  <2>3. n \in Nat /\ \A j \in 1 .. n : Cell(j, src.name) \in CellSet
    BY <1>1, <2>1 DEF n
  <2>4. Data(src) \in [1 .. n -> CellSet]
    BY <2>2, <2>3
  <2>5. Data(src) \in Seq(CellSet) /\ Len(Data(src)) = n
    BY <2>3, <2>4
  <2>6. \A j \in 1 .. n : Data(src)[j] = Cell(j, src.name)
    BY <2>2
  <2>7. QED BY <2>4, <2>5, <2>6 DEF n
<1>50. last = Lower(k * CPB, src.len)
  BY <1>1, <1>2, MinOfTwo DEF Lower
<1> HIDE DEF off, last
<1>6. /\ cells \in Seq(CellSet) /\ Len(cells) = last - (off + 1) + 1
      /\ \A j \in 1 .. last - (off + 1) + 1 : cells[j] = Data(src)[(off + 1) + j - 1]
  <2>1. off + 1 \in Int /\ last \in Int /\ off + 1 <= last
    BY <1>2, <1>4
  <2>2. \A j \in off + 1 .. last : Data(src)[j] \in CellSet
    BY <1>1, <1>2, <1>4, <1>5
  <2>3. QED BY <2>1, <2>2, SubSeqProperties
<1>7. Len(cells) <= CPB - (off % CPB)
  BY <1>1, <1>2, <1>3, <1>4, <1>6
<1>8. off + Len(cells) = Lower(k * CPB, src.len)
  BY <1>2, <1>4, <1>50, <1>6
<1>9. \A j \in 1 .. Len(cells) : cells[j] = Cell(off + j, src.name)
  <2> SUFFICES ASSUME NEW j \in 1 .. Len(cells) PROVE cells[j] = Cell(off + j, src.name)
    OBVIOUS
  <2>1. j \in 1 .. last - (off + 1) + 1 /\ (off + 1) + j - 1 = off + j /\ off + j \in 1 .. src.len
    BY <1>1, <1>2, <1>4, <1>6
  <2>2. cells[j] = Data(src)[off + j]
    BY <1>6, <2>1
  <2>3. QED BY <1>5, <2>1, <2>2
<1>10. QED BY <1>2, <1>6, <1>7, <1>8, <1>9 DEF off, last

(* The file holds the first chunks of its source, as far as it can.        *)
Copied(d, i, src, a) ==
  /\ d.ino[i].size = Lower(Lower(a, src.len), MaxCells)
  /\ \A k \in 0 .. d.ino[i].size - 1 : At(d, i, k) = Cell(k + 1, src.name)

(* A chunk more is copied.                                                 *)
LEMMA CopiedMore ==
  ASSUME NEW d \in Volume, NEW f, NEW i \in Inum, NEW src \in Sources, NEW off \in Nat,
         NEW a \in Nat, off < a, off < src.len, Copied(d, i, src, off), NEW cells,
         off <= d.ino[i].size, Wrote(d, f, i, off, cells), Len(cells) \in Nat,
         off + Len(cells) <= MaxCells, off + Len(cells) = Lower(a, src.len),
         \A j \in 1 .. Len(cells) : cells[j] = Cell(off + j, src.name)
  PROVE  Copied(f, i, src, a)
<1> DEFINE len == Len(cells)
           n == d.ino[i].size
<1>1. src.len \in Nat /\ MaxCells \in Nat /\ n \in Nat
  BY VolumeAssumption, Geometry, VolumeParts, InodeParts
<1>2. n = off
  BY <1>1 DEF Copied, Lower
<1>3. f.ino[i].size = off + len
  <2>1. f.ino[i].size = Max({n, off + len}) /\ off + len \in Nat
    BY <1>1 DEF Wrote
  <2> HIDE DEF n, len
  <2>2. len \in Nat
    BY DEF len
  <2>3. QED BY <1>1, <1>2, <2>1, <2>2, MaxOfTwo
<1>4. off + len = Lower(Lower(a, src.len), MaxCells)
  BY <1>1 DEF Lower
<1>5. ASSUME NEW k \in 0 .. off + len - 1 PROVE At(f, i, k) = Cell(k + 1, src.name)
  <2>1. CASE k < off
    <3>1. k \in 0 .. n - 1 /\ ~ (k \in off .. off + len - 1)
      BY <1>2, <2>1
    <3>2. At(f, i, k) = At(d, i, k)
      BY <3>1 DEF Wrote
    <3>3. QED BY <3>1, <3>2 DEF Copied
  <2>2. CASE ~ (k < off)
    <3>1. k \in off .. off + len - 1 /\ k - off + 1 \in 1 .. len /\ off + (k - off + 1) = k + 1
      BY <2>2
    <3>2. At(f, i, k) = cells[k - off + 1]
      BY <3>1 DEF Wrote
    <3>3. QED BY <3>1, <3>2
  <2>3. QED BY <2>1, <2>2
<1>6. QED BY <1>3, <1>4, <1>5 DEF Copied

(* The chunk does not fit any more: the inode holds all it can.            *)
LEMMA CopiedFull ==
  ASSUME NEW d \in Volume, NEW f, NEW i \in Inum, NEW src \in Sources, NEW off \in Nat,
         NEW a \in Nat, off < a, off < src.len, Copied(d, i, src, off),
         off > d.ino[i].size \/ off >= MaxCells, SameCells(d, f)
  PROVE  Copied(f, i, src, a)
<1>1. src.len \in Nat /\ MaxCells \in Nat /\ d.ino[i].size \in Nat
  BY VolumeAssumption, Geometry, VolumeParts, InodeParts
<1>2. d.ino[i].size = MaxCells /\ MaxCells = Lower(Lower(a, src.len), MaxCells)
  BY <1>1 DEF Copied, Lower
<1>3. QED BY <1>2 DEF Copied, SameCells

(* The whole of a source, as an entry of the root directory.               *)
LEMMA CopiedShown ==
  ASSUME NEW d \in Volume, NEW i \in Inum, NEW src \in Sources, src.kind # "missing",
         NEW a \in Nat, src.len <= a, Copied(d, i, src, a),
         Type(d.ino[i].mode) = IF src.kind = "dir" THEN IFDIR ELSE IFREG,
         NEW dest \in Names
  PROVE  Shown(d, Cell(i, dest)) \in CompleteEntries
<1> DEFINE n == Min({src.len, MaxCells})
           cells == SubSeq(Data(src), 1, n)
<1>1. src.len \in Nat /\ MaxCells \in Nat
  BY VolumeAssumption, Geometry
<1>2. n = Lower(src.len, MaxCells) /\ n \in Nat /\ n <= src.len
  BY <1>1, MinOfTwo DEF Lower
<1> HIDE DEF n
<1>3. d.ino[i].size = n
  BY <1>1, <1>2 DEF Copied, Lower
<1>4. Cells(d, i) = [k \in 1 .. n |-> Cell(k, src.name)]
  <2>1. Cells(d, i) = [k \in 1 .. n |-> At(d, i, k - 1)]
    BY <1>3, CellsIs
  <2>2. \A k \in 1 .. n : k - 1 \in 0 .. d.ino[i].size - 1 /\ (k - 1) + 1 = k
    BY <1>2, <1>3
  <2>3. \A k \in 1 .. n : At(d, i, k - 1) = Cell(k, src.name)
    BY <2>2 DEF Copied
  <2>4. QED BY <2>1, <2>3
<1>5. cells = [k \in 1 .. n |-> Cell(k, src.name)]
  <2>1. \A k \in 1 .. n : k \in 1 .. src.len /\ k + 1 - 1 = k
    BY <1>1, <1>2
  <2>2. \A k \in 1 .. n : Data(src)[k] = Cell(k, src.name)
    BY <2>1 DEF Data
  <2>3. cells = [k \in 1 .. n |-> Data(src)[k]]
    <3>1. cells = [k \in 1 .. n - 1 + 1 |-> Data(src)[1 + k - 1]]
      BY <1>2
    <3>2. n - 1 + 1 = n
      BY <1>2
    <3>3. \A k \in 1 .. n : 1 + k - 1 = k
      BY <1>2
    <3>4. QED BY <3>1, <3>2, <3>3
  <2>4. QED BY <2>2, <2>3
<1>6. Shown(d, Cell(i, dest)) =
        [name |-> dest, type |-> IF src.kind = "dir" THEN IFDIR ELSE IFREG, data |-> cells]
  BY <1>4, <1>5 DEF Shown, Cell
<1> DEFINE X == {y \in Sources : y.kind # "missing"}
           Kind(x) == IF x.kind = "dir" THEN IFDIR ELSE IFREG
           Part(x) == SubSeq(Data(x), 1, Min({x.len, MaxCells}))
           S == {[name |-> s, type |-> IFDIR, data |-> <<Cell(j, "."), Cell(Root, "..")>>] :
                   s \in Names, j \in Inum}
           T == {[name |-> s, type |-> Kind(x), data |-> Part(x)] : s \in Names, x \in X}
<1>7. CompleteEntries = S \union T
  BY DEF CompleteEntries
<1>8. [name |-> dest, type |-> Kind(src), data |-> Part(src)] \in T
  <2>1. dest \in Names /\ src \in X
    OBVIOUS
  <2> HIDE DEF X, S, Kind, Part
  <2>2. QED BY ONLY <2>1, SMTT(30)
<1> HIDE DEF S, T, X
<1>9. QED BY <1>6, <1>7, <1>8 DEF n

(* do_copy, with inode i of mode m.                                        *)
Copying(v, i, m, l) ==
  \/ Ended(v, l)
  \/ /\ Calm(v, disk, l) /\ Synced(v, i, l) /\ Synced(v, Root, l) /\ v.ino[i].mode = m
     /\ l => Hidden(v.dev, i) /\ v.dev.ino[i].mode = m

(* How far it is.                                                          *)
Progress(v, i, src, a, l) == Ended(v, l) \/ (l => Copied(v.dev, i, src, a))

(* A round has cells to write.                                             *)
LEMMA ChunkStart ==
  ASSUME NEW len \in Nat, NEW k \in 1 .. (len + CPB - 1) \div CPB
  PROVE  /\ k \in Nat /\ k > 0 /\ (k - 1) * CPB < len
         /\ (k - 1) * CPB \in Nat /\ k * CPB \in Nat /\ (k - 1) * CPB < k * CPB
<1> DEFINE q == (len + CPB - 1) \div CPB
<1>1. CPB \in Nat \ {0} /\ len + CPB - 1 \in Nat
  BY Geometry
<1>2. q \in Nat /\ CPB * q <= len + CPB - 1
  <2>1. PICK p \in Nat : \E r \in 0 .. CPB - 1 : p = q /\ len + CPB - 1 = CPB * p + r
    <3> DEFINE a == len + CPB - 1
    <3>1. a \in Nat
      BY <1>1
    <3>2. \E p \in Nat : \E r \in 0 .. CPB - 1 : p = a \div CPB /\ r = a % CPB /\ a = CPB * p + r
      <4> HIDE DEF a
      <4>1. QED BY <1>1, <3>1, Division
    <3>3. QED BY <3>2
  <2>2. \A r \in 0 .. CPB - 1 : r \in Nat
    BY <1>1
  <2>3. CPB * p \in Nat
    BY <1>1
  <2>4. CPB * p <= len + CPB - 1
    <3> DEFINE b == CPB * p
    <3>1. PICK r \in 0 .. CPB - 1 : len + CPB - 1 = b + r
      BY <2>1
    <3>2. b \in Nat
      BY <2>3
    <3> HIDE DEF b
    <3>3. b <= len + CPB - 1
      BY <1>1, <3>1, <3>2
    <3>4. QED BY <3>3 DEF b
  <2>5. QED BY <2>1, <2>4
<1>3. k \in Nat /\ k > 0 /\ k - 1 \in Nat /\ k - 1 < q
  <2> HIDE DEF q
  <2>1. k \in 1 .. q
    BY DEF q
  <2>2. QED BY <1>2, <2>1
<1>4. CPB * (k - 1) + CPB <= CPB * q
  <2> DEFINE a == k - 1
  <2>1. a \in Nat /\ a < q
    BY <1>3
  <2> HIDE DEF q, a
  <2>2. CPB * a + CPB <= CPB * q
    BY <1>1, <1>2, <2>1, Monotone
  <2>3. QED BY <2>2 DEF a
<1>5. \A a, b \in Nat : a * b = b * a
  OBVIOUS
<1>6. (k - 1) * CPB = CPB * (k - 1) /\ CPB * (k - 1) \in Nat /\ CPB * q \in Nat
  BY <1>1, <1>2, <1>3, <1>5
<1>7. (k - 1) * CPB < len
  <2> DEFINE a == CPB * (k - 1)
             b == CPB * q
  <2>1. a \in Nat /\ b \in Nat /\ a + CPB <= b /\ b <= len + CPB - 1
    BY <1>2, <1>4, <1>6
  <2>2. (k - 1) * CPB = a
    BY <1>6
  <2> HIDE DEF a, b
  <2>3. a < len
    BY <1>1, <2>1
  <2>4. QED BY <2>2, <2>3
<1>8. (k - 1) * CPB \in Nat /\ k * CPB = (k - 1) * CPB + CPB
  BY <1>1, <1>3
<1>9. k * CPB \in Nat /\ (k - 1) * CPB < k * CPB
  <2> DEFINE a == (k - 1) * CPB
             b == k * CPB
  <2>1. a \in Nat /\ b = a + CPB
    BY <1>8
  <2> HIDE DEF a, b
  <2>2. b \in Nat /\ a < b
    BY <1>1, <2>1
  <2>3. QED BY <2>2 DEF a, b
<1>10. QED BY <1>3, <1>7, <1>8, <1>9

(* A round leaves the entries as they were.                                *)
LEMMA ChunkIs ==
  ASSUME NEW l \in BOOLEAN, NEW i \in Inum, NEW src \in Sources,
         NEW k \in 1 .. (src.len + CPB - 1) \div CPB, NEW v, Copying(v, i, RegMode, l)
  PROVE  /\ Copying(Chunk(v, k, i, src), i, RegMode, l)
         /\ Progress(v, i, src, (k - 1) * CPB, l) => Progress(Chunk(v, k, i, src), i, src, k * CPB, l)
<1> DEFINE off == (k - 1) * CPB
           cells == SubSeq(Data(src), off + 1, Min({k * CPB, src.len}))
           z == Chunk(v, k, i, src)
           a == k * CPB
<1>1. /\ off \in Nat /\ cells \in Seq(CellSet) /\ Len(cells) <= CPB - (off % CPB)
      /\ a \in Nat /\ off < a /\ off < src.len /\ Len(cells) \in Nat
      /\ off + Len(cells) = Lower(a, src.len)
      /\ \A j \in 1 .. Len(cells) : cells[j] = Cell(off + j, src.name)
  <2>1. src.len \in Nat
    BY VolumeAssumption
  <2>2. /\ k \in Nat /\ k > 0 /\ (k - 1) * CPB < src.len
        /\ k * CPB \in Nat /\ (k - 1) * CPB < k * CPB
    BY <2>1, ChunkStart
  <2>3. /\ off \in Nat /\ cells \in Seq(CellSet) /\ Len(cells) <= CPB - (off % CPB)
        /\ off + Len(cells) = Lower(a, src.len)
        /\ \A j \in 1 .. Len(cells) : cells[j] = Cell(off + j, src.name)
    BY <2>2, ChunkCells
  <2>4. Len(cells) \in Nat
    BY <2>3
  <2>5. a \in Nat /\ off < a /\ off < src.len
    BY <2>2
  <2>6. QED BY ONLY <2>3, <2>4, <2>5
<1>2. z = FsWrite(v, i, off, cells)
  BY DEF Chunk
<1> HIDE DEF off, cells, z, a
<1>3. CASE Ended(v, l)
  BY <1>1, <1>2, <1>3, EndedFsWrite DEF Copying, Progress, z
<1>4. CASE /\ Calm(v, disk, l) /\ Synced(v, i, l) /\ Synced(v, Root, l) /\ v.ino[i].mode = RegMode
           /\ l => Hidden(v.dev, i) /\ v.dev.ino[i].mode = RegMode
           /\ ~ Ended(v, l)
  <2> DEFINE d == v.dev
  <2>1. d \in Volume /\ v \in Run
    BY <1>4, RunParts DEF Synced
  <2>2. IsDir(d, i) => d.ino[i].size = 0
    BY <1>4, RegModeIs DEF Synced, Alike, IsDir
  <2>3. Clear(d, i, off, Len(cells))
    <3>1. SUFFICES ASSUME IsDir(d, i), NEW m \in off .. off + Len(cells) - 1, m < d.ino[i].size
                   PROVE  FALSE
      BY DEF Clear
    <3>2. m \in Nat /\ d.ino[i].size = 0
      BY <1>1, <2>2, <3>1
    <3>3. QED BY <3>1, <3>2
  <2>4. Writable(v, i, l, off, cells)
    BY <1>1, <1>4, <2>3 DEF Writable, Admits
  <2>5. Ended(z, l) \/ Refused(v, z, i, l, off) \/ Stored(v, z, i, l, off, cells)
    BY <1>1, <1>2, <2>4, FsWriteIs
  <2>6. ASSUME Synced(z, i, l), Frame(v, z, i), \A t : Named(z.dev, t) = Named(d, t),
               \A j \in Inum : z.dev.ino[j].nlink = d.ino[j].nlink,
               l => RootKept(d, z.dev)
        PROVE  Copying(z, i, RegMode, l)
    <3>1. z \in Run /\ z.status = "ok" /\ Logged(z, l)
      BY <2>6 DEF Synced
    <3>2. Synced(z, Root, l)
      <4>1. CASE i = Root
        BY <2>6, <4>1
      <4>2. CASE i # Root
        <5>1. z.ino[Root] = v.ino[Root] /\ z.dev.ino[Root] = v.dev.ino[Root]
          BY <2>6, <4>2, Geometry DEF Frame
        <5>2. Root \in Inum /\ Synced(v, Root, l)
          BY <1>4, Geometry
        <5>3. QED BY <3>1, <5>1, <5>2, SyncedOther
      <4>3. QED BY <4>1, <4>2
    <3>3. z.ino[i].mode = RegMode
      BY <1>4, <2>6 DEF Frame
    <3>4. Whole(d) => Whole(z.dev)
      BY <2>6 DEF Whole, Exact, Frame
    <3>5. Calm(z, disk, l)
      BY <1>4, <3>1, <3>4 DEF Calm
    <3>6. l => Hidden(z.dev, i) /\ z.dev.ino[i].mode = RegMode
      BY <1>4, <2>1, <2>6, <3>3, StillHidden DEF Frame
    <3>7. QED BY <2>6, <3>2, <3>3, <3>5, <3>6 DEF Copying
  <2>60. /\ Progress(v, i, src, off, l) => (l => Copied(d, i, src, off))
         /\ v.ino[i].size = d.ino[i].size
    BY <1>4 DEF Progress, Synced, Alike
  <2>7. CASE Ended(z, l)
    BY <2>7 DEF Copying, Progress, z
  <2>8. CASE Refused(v, z, i, l, off)
    <3>1. RootKept(d, z.dev)
      BY <2>8, Geometry DEF Refused, Untouched, SameCells, RootKept
    <3>2. Copying(z, i, RegMode, l)
      BY <2>6, <2>8, <3>1 DEF Refused, Untouched
    <3>3. l /\ Copied(d, i, src, off) => Copied(z.dev, i, src, a)
      <4>1. (off > d.ino[i].size \/ off >= MaxCells) /\ SameCells(d, z.dev)
        BY <2>60, <2>8 DEF Refused, Untouched
      <4> HIDE DEF d
      <4>2. QED BY <1>1, <2>1, <4>1, CopiedFull
    <3>4. QED BY <2>60, <3>2, <3>3 DEF z, Progress, off, a
  <2>9. CASE Stored(v, z, i, l, off, cells)
    <3>1. z.dev \in Volume
      BY <2>9, RunParts DEF Stored, Synced
    <3>2. ~ IsDir(z.dev, i)
      BY <1>4, <2>9, RegModeIs DEF Stored, Frame, IsDir
    <3>3. /\ \A t : Named(z.dev, t) = Named(d, t)
          /\ \A j \in Inum : z.dev.ino[j].nlink = d.ino[j].nlink
      <4>1. Wrote(d, z.dev, i, off, cells)
        BY <2>9 DEF Stored
      <4> HIDE DEF d
      <4>2. QED BY <2>1, <2>2, <3>1, <3>2, <4>1, FileWrite
    <3>4. l => RootKept(d, z.dev)
      BY <1>4, <2>9, Geometry DEF Stored, Wrote, RootKept, Hidden
    <3>5. Copying(z, i, RegMode, l)
      BY <2>6, <2>9, <3>3, <3>4 DEF Stored
    <3>6. l /\ Copied(d, i, src, off) => Copied(z.dev, i, src, a)
      <4>1. off <= d.ino[i].size /\ Wrote(d, z.dev, i, off, cells) /\ off + Len(cells) <= MaxCells
        BY <2>9 DEF Stored
      <4> HIDE DEF d
      <4>2. QED BY <1>1, <2>1, <4>1, CopiedMore
    <3>7. QED BY <2>60, <3>5, <3>6 DEF z, Progress, off, a
  <2>10. QED BY <2>5, <2>7, <2>8, <2>9 DEF z
<1>5. QED BY <1>3, <1>4 DEF Copying

(* The rounds of the loop reach the end of the source.                     *)
LEMMA LastChunk ==
  ASSUME NEW len \in Nat
  PROVE  LET n == (len + CPB - 1) \div CPB IN n * CPB \in Nat /\ len <= n * CPB
<1> DEFINE a == len + CPB - 1
           n == a \div CPB
<1>1. CPB \in Nat \ {0} /\ a \in Nat
  BY Geometry
<1>2. PICK q \in Nat, r \in 0 .. CPB - 1 : q = n /\ a = CPB * q + r
  <2> HIDE DEF a
  <2>1. \E q \in Nat : \E r \in 0 .. CPB - 1 : q = a \div CPB /\ r = a % CPB /\ a = CPB * q + r
    BY <1>1, Division
  <2>2. QED BY <2>1
<1>3. n * CPB = CPB * q /\ CPB * q \in Nat
  <2>1. \A x, y \in Nat : x * y = y * x /\ x * y \in Nat
    OBVIOUS
  <2>2. QED BY <1>1, <1>2, <2>1
<1>4. len <= CPB * q
  <2> DEFINE b == CPB * q
  <2>1. b \in Nat /\ len + CPB - 1 = b + r
    BY <1>2, <1>3
  <2> HIDE DEF b
  <2>2. len <= b
    BY <1>1, <2>1
  <2>3. QED BY <2>2 DEF b
<1>5. QED BY <1>3, <1>4

(* So does the loop.                                                       *)
LEMMA CopyChunksIs ==
  ASSUME NEW l \in BOOLEAN, NEW i \in Inum, NEW src \in Sources, NEW m,
         src.len > 0 => m = RegMode, NEW v, Copying(v, i, m, l)
  PROVE  /\ Copying(CopyChunks(v, i, src), i, m, l)
         /\ Progress(v, i, src, 0, l) =>
              \E a \in Nat : src.len <= a /\ Progress(CopyChunks(v, i, src), i, src, a, l)
<1> DEFINE n == (src.len + CPB - 1) \div CPB
           X == {w \in Run : Copying(w, i, m, l)}
           step == [z \in X \X (1 .. n) |-> Chunk(z[1], z[2], i, src)]
<1>1. src.len \in Nat /\ CPB \in Nat \ {0}
  BY VolumeAssumption, Geometry
<1>2. n \in Nat
  <2> DEFINE a == src.len + CPB - 1
  <2>1. a \in Nat
    BY <1>1
  <2>2. \E q \in Nat : \E r \in 0 .. CPB - 1 : q = a \div CPB /\ r = a % CPB /\ a = CPB * q + r
    <3> HIDE DEF a
    <3>1. QED BY <1>1, <2>1, Division
  <2>3. QED BY <2>2
<1>3. v \in X
  BY DEF Copying, Ended, Calm
<1>4. \A x \in X : \A k \in 1 .. n : step[<<x, k>>] = Chunk(x, k, i, src)
  OBVIOUS
<1>5. ASSUME NEW x \in X, NEW k \in 1 .. n
      PROVE  /\ Chunk(x, k, i, src) \in X
             /\ Progress(x, i, src, (k - 1) * CPB, l) =>
                  Progress(Chunk(x, k, i, src), i, src, k * CPB, l)
  <2>1. (k - 1) * CPB < src.len /\ k \in Nat /\ k > 0
    BY <1>1, ChunkStart
  <2>2. (k - 1) * CPB \in Nat
    BY <1>1, <2>1
  <2>3. src.len > 0
    BY <1>1, <2>1, <2>2
  <2>4. m = RegMode /\ Copying(x, i, RegMode, l)
    BY <2>3
  <2>5. /\ Copying(Chunk(x, k, i, src), i, m, l)
        /\ Progress(x, i, src, (k - 1) * CPB, l) =>
             Progress(Chunk(x, k, i, src), i, src, k * CPB, l)
    BY <2>4, ChunkIs
  <2>6. QED BY <2>5 DEF Copying, Ended, Calm
<1> HIDE DEF X
<1>6. Steps(n, X, step)
  BY <1>4, <1>5 DEF Steps
<1>60. \A x \in X : \A k \in 1 .. n : Progress(x, i, src, (k - 1) * CPB, l) =>
         Progress(step[<<x, k>>], i, src, k * CPB, l)
  BY <1>4, <1>5
<1>61. n * CPB \in Nat /\ src.len <= n * CPB
  BY <1>1, LastChunk
<1> HIDE DEF step
<1>7. n = (src.len + CPB - 1) \div CPB
  BY DEF n
<1> HIDE DEF n
<1>8. Path(n, X, v, step, CopyChunks(v, i, src))
  BY <1>2, <1>3, <1>4, <1>6, <1>7, CopyFold
<1>9. CopyChunks(v, i, src) \in X
  BY <1>2, <1>8 DEF Path
<1>10. Progress(v, i, src, 0, l) => Progress(CopyChunks(v, i, src), i, src, n * CPB, l)
  <2> SUFFICES ASSUME Progress(v, i, src, 0, l)
               PROVE  Progress(CopyChunks(v, i, src), i, src, n * CPB, l)
    OBVIOUS
  <2>1. PICK it \in [0 .. n -> X] :
          /\ it[0] = v /\ it[n] = CopyChunks(v, i, src)
          /\ \A k \in 1 .. n : it[k] = step[<<it[k - 1], k>>]
    BY <1>8 DEF Path
  <2> DEFINE In == {k \in Nat : k <= n => Progress(it[k], i, src, k * CPB, l)}
  <2>2. 0 \in In
    <3>1. 0 * CPB = 0
      BY <1>1
    <3>2. QED BY <2>1, <3>1
  <2>3. ASSUME NEW k \in Nat, k \in In PROVE k + 1 \in In
    <3>1. SUFFICES ASSUME k + 1 <= n PROVE Progress(it[k + 1], i, src, (k + 1) * CPB, l)
      OBVIOUS
    <3>2. k + 1 \in 1 .. n /\ (k + 1) - 1 = k /\ k <= n /\ k \in 0 .. n
      BY <1>2, <3>1
    <3>3. it[k] \in X /\ Progress(it[k], i, src, ((k + 1) - 1) * CPB, l)
      BY <2>1, <2>3, <3>2
    <3>4. it[k + 1] = step[<<it[k], k + 1>>]
      BY <2>1, <3>2
    <3>5. QED BY <1>60, <3>2, <3>3, <3>4
  <2> HIDE DEF In
  <2>4. Nat \subseteq In
    BY <2>2, <2>3, SetInduction
  <2>5. QED BY <1>2, <2>1, <2>4 DEF In
<1>11. QED BY <1>9, <1>10, <1>61 DEF X

(* The modes an inode can have.                                            *)
ModeSet == {g * 4096 : g \in Garbage} \union {0, DirMode, RegMode}

(* The mode and the flags of an inode replaced.                            *)
LEMMA Remade ==
  ASSUME NEW q \in InodeRecord, NEW m
  PROVE  [q EXCEPT !.mode = m, !.flags = ALOC]
           = [flags |-> ALOC, mode |-> m, nlink |-> q.nlink, size |-> q.size, zones |-> q.zones]
<1> DEFINE f == q.flags  o == q.mode  n == q.nlink  s == q.size  z == q.zones
           p == [q EXCEPT !.mode = m]
<1>1. q = [flags |-> f, mode |-> o, nlink |-> n, size |-> s, zones |-> z]
  BY DEF InodeRecord
<1> HIDE DEF f, o, n, s, z
<1>2. p = [flags |-> f, mode |-> m, nlink |-> n, size |-> s, zones |-> z]
  BY <1>1
<1>3. [q EXCEPT !.mode = m, !.flags = ALOC] = [p EXCEPT !.flags = ALOC]
  OBVIOUS
<1> HIDE DEF p
<1>4. [p EXCEPT !.flags = ALOC] = [flags |-> ALOC, mode |-> m, nlink |-> n, size |-> s, zones |-> z]
  BY <1>2
<1>5. QED BY <1>3, <1>4 DEF n, s, z

(* The inode that do_copy sets up: fs_inode_alloc does not read the root.  *)
LEMMA NewCopy ==
  ASSUME NEW q, q = Fresh \/ (q \in InodeRecord /\ EmptyInode(q)), NEW m
  PROVE  [q EXCEPT !.mode = m, !.flags = ALOC] = Typed(m)
<1>1. q \in InodeRecord /\ q.size = 0 /\ q.nlink = 0 /\ q.zones = [z \in 0 .. SInd |-> 0]
  <2>1. CASE q = Fresh
    BY <2>1, FreshIs
  <2>2. CASE q \in InodeRecord /\ EmptyInode(q)
    <3>1. q.zones \in [0 .. SInd -> Zone] /\ \A z \in 0 .. SInd : q.zones[z] = 0
      BY <2>2, InodeParts DEF EmptyInode
    <3>2. q.zones = [z \in 0 .. SInd |-> 0]
      BY <3>1
    <3>3. QED BY <2>2, <3>2 DEF EmptyInode
  <2>3. QED BY <2>1, <2>2
<1> DEFINE zones == [z \in 0 .. SInd |-> 0]
           p == [flags |-> ALOC, mode |-> m, nlink |-> 0, size |-> 0, zones |-> zones]
<1>2. q.zones = zones
  BY <1>1
<1>3. Typed(m) = p
  <2>1. ZeroInode = [flags |-> 0, mode |-> 0, nlink |-> 0, size |-> 0, zones |-> zones]
    BY DEF ZeroInode
  <2> HIDE DEF zones
  <2>2. Fresh = [flags |-> ALOC, mode |-> 0, nlink |-> 0, size |-> 0, zones |-> zones]
    BY <2>1 DEF Fresh
  <2>3. QED BY <2>2 DEF Typed
<1> HIDE DEF zones
<1>5. [q EXCEPT !.mode = m, !.flags = ALOC]
        = [flags |-> ALOC, mode |-> m, nlink |-> q.nlink, size |-> q.size, zones |-> q.zones]
  BY <1>1, Remade
<1>6. QED BY <1>1, <1>2, <1>3, <1>5 DEF p

(* The inode of a copy is allocated, and the root is in memory.            *)
LEMMA CopyMade ==
  ASSUME NEW l \in BOOLEAN, Good(disk, l), NEW i, NEW a, Allocated(Open, a, i, l),
         NEW m \in ModeSet,
         NEW z, z = Update(SetIno(a, i, [a.ino[i] EXCEPT !.mode = m, !.flags = ALOC]), i)
  PROVE  /\ i \in Inum /\ Copying(z, i, m, l) /\ z \in Run /\ Logged(z, l)
         /\ z.dev.ino[i].size = 0
<1> DEFINE p == Typed(m)
<1>1. /\ Open.dev = disk /\ Open.ino = disk.ino /\ Calm(Open, disk, l)
      /\ disk.ino[Root].flags = ALOC => Synced(Open, Root, l)
  BY OpenIs
<1>2. /\ i \in Inum /\ Root \in Inum /\ a \in Run /\ a.status = "ok" /\ Logged(a, l)
      /\ disk.ino[i].flags = 0 /\ EmptyInode(disk.ino[i]) /\ disk.ino[i] \in InodeRecord
      /\ a.dev.ino[i] = Fresh
      /\ \A j \in Inum : j # i => a.dev.ino[j] = disk.ino[j] /\ a.ino[j] = Open.ino[j]
      /\ \A t : Named(a.dev, t) = Named(disk, t)
      /\ Full(disk) => Full(a.dev)
      /\ l => i # Root /\ Hidden(a.dev, i)
      /\ i # Root => disk.ino[Root].flags = ALOC
      /\ a.ino[i] = IF i = Root THEN disk.ino[Root] ELSE Fresh
  <2>1. i \in Inum /\ disk.ino[i] \in InodeRecord
    BY VolumeParts DEF Allocated, Good
  <2>2. QED BY <1>1, <2>1, Geometry DEF Allocated
<1>3. /\ p \in InodeRecord /\ p.mode = m /\ p.flags = ALOC /\ p.nlink = 0 /\ Alike(p, Fresh)
      /\ p.size = 0
  BY TypedIs DEF ModeSet
<1>4. z = Update(SetIno(a, i, p), i)
  <2>1. [a.ino[i] EXCEPT !.mode = m, !.flags = ALOC] = p
    <3>1. a.ino[i] = Fresh \/ (a.ino[i] \in InodeRecord /\ EmptyInode(a.ino[i]))
      BY <1>2
    <3>2. QED BY <3>1, NewCopy
  <2>2. QED BY <2>1
<1> HIDE DEF p
<1>5. Ready(a, i, l, p)
  <2>1. 0 <= Cardinality(Named(a.dev, i))
    BY NamedFinite
  <2>2. l => /\ p.nlink <= Cardinality(Named(a.dev, i))
             /\ i = Root => Type(p.mode) = IFDIR
             /\ i = Root \/ Hidden(a.dev, i) \/ Type(p.mode) = Type(a.dev.ino[i].mode)
    BY <1>2, <1>3, <2>1
  <2>3. Alike(p, a.dev.ino[i])
    BY <1>2, <1>3
  <2>4. QED BY <1>2, <1>3, <2>2, <2>3 DEF Ready
<1>6. /\ Synced(z, i, l) /\ z.r = a.r /\ z.ino[i] = p /\ z.dev.ino[i] = p
      /\ \A j \in Inum : j # i => z.ino[j] = a.ino[j] /\ z.dev.ino[j] = a.dev.ino[j]
      /\ \A j : Named(z.dev, j) = Named(a.dev, j)
      /\ Full(a.dev) => Full(z.dev)
      /\ SameCells(a.dev, z.dev)
  BY <1>2, <1>4, <1>5, MetaUpdate
<1>7. z \in Run /\ z.status = "ok" /\ Logged(z, l)
  BY <1>6 DEF Synced
<1>8. Synced(z, Root, l)
  <2>1. CASE i = Root
    BY <1>6, <2>1
  <2>2. CASE i # Root
    <3>1. Synced(Open, Root, l)
      BY <1>1, <1>2, <2>2
    <3>2. z.ino[Root] = Open.ino[Root] /\ z.dev.ino[Root] = Open.dev.ino[Root]
      BY <1>1, <1>2, <1>6, <2>2
    <3>3. QED BY <1>2, <1>7, <3>1, <3>2, SyncedOther
  <2>3. QED BY <2>1, <2>2
<1>9. Whole(disk) => Whole(z.dev)
  <2>1. \A j \in Inum : z.dev.ino[j].nlink = disk.ino[j].nlink
    BY <1>2, <1>3, <1>6 DEF EmptyInode
  <2>2. QED BY <1>2, <1>6, <2>1 DEF Whole, Exact
<1>10. Calm(z, disk, l)
  BY <1>7, <1>9 DEF Calm
<1>11. l => Hidden(z.dev, i)
  <2>1. a.dev \in Volume /\ RootKept(a.dev, z.dev)
    BY <1>2, <1>6, RunParts DEF SameCells, RootKept
  <2>2. QED BY <1>2, <2>1, StillHidden
<1>12. QED BY <1>2, <1>3, <1>6, <1>7, <1>8, <1>10, <1>11 DEF Copying

(* The link that ends do_copy.                                             *)
LEMMA CopyLinked ==
  ASSUME NEW l \in BOOLEAN, NEW i \in Inum, NEW m, NEW v, Copying(v, i, m, l),
         NEW src \in Sources, src.kind # "missing",
         Type(m) = IF src.kind = "dir" THEN IFDIR ELSE IFREG,
         NEW a \in Nat, src.len <= a, Progress(v, i, src, a, l), NEW dest \in Names
  PROVE  LET w == DirLink(v, Root, dest, i) IN Ended(w, l) \/ Calm(w, disk, l)
<1> DEFINE w == DirLink(v, Root, dest, i)
<1>1. Root \in Inum /\ dest \in Word
  BY Geometry DEF Word
<1>2. CASE Ended(v, l)
  BY <1>1, <1>2, EndedDirLink
<1>3. CASE /\ Calm(v, disk, l) /\ Synced(v, i, l) /\ Synced(v, Root, l) /\ v.ino[i].mode = m
           /\ l => Hidden(v.dev, i) /\ v.dev.ino[i].mode = m
           /\ ~ Ended(v, l)
  <2>0. l => Linkable(v, Root, i, dest)
    <3>1. SUFFICES ASSUME l PROVE Linkable(v, Root, i, dest)
      OBVIOUS
    <3>2. Copied(v.dev, i, src, a)
      BY <1>3, <3>1 DEF Progress
    <3>3. v.dev \in Volume /\ v.dev.ino[i].mode = m /\ v.ino[i].mode = m /\ i # Root
      BY <1>3, <3>1, RunParts DEF Synced, Hidden
    <3>4. Shown(v.dev, Cell(i, dest)) \in CompleteEntries
      BY <3>2, <3>3, CopiedShown
    <3>5. QED BY <3>3, <3>4 DEF Linkable
  <2>1. l => Type(v.ino[Root].mode) = IFDIR /\ Linkable(v, Root, i, dest)
    BY <1>3, <2>0 DEF Synced
  <2> HIDE DEF w
  <2>2. w = DirLink(v, Root, dest, i)
    BY DEF w
  <2>3. CASE Type(v.ino[Root].mode) = IFDIR
    <3>1. Root \in {Root, i} /\ i \in {Root, i}
      OBVIOUS
    <3>2. Ended(w, l) \/ Pair(v, w, i, l)
      BY <1>1, <1>3, <2>1, <2>2, <2>3, <3>1, LinkPair
    <3>3. QED BY <1>3, <3>2 DEF Pair, Calm, Synced, w
  <2>4. CASE Type(v.ino[Root].mode) # IFDIR
    <3>1. \/ Ended(w, l)
          \/ /\ Synced(w, Root, l) /\ Synced(w, i, l) /\ Kept(v, w, Root, i)
             /\ \/ v.dev.ino[Root].size = MaxCells /\ Untouched(v.dev, w.dev)
                \/ /\ NlinkMore(v.dev, w.dev, i) /\ w.dev.ino[i].mode = v.ino[i].mode
                   /\ Type(v.ino[Root].mode) = IFDIR =>
                        Gained(v.dev, w.dev, i) /\ w.dev.ino[Root].size <= v.dev.ino[Root].size + 1
                   /\ Packed(v.dev, Root) => Gets(v.dev, w.dev, Root, Cell(i, dest))
      BY <1>1, <1>3, <2>1, <2>2, DirLinkIs
    <3>2. QED BY <2>1, <2>4, <3>1 DEF Calm, Synced, w
  <2>5. QED BY <2>3, <2>4
<1>4. QED BY <1>2, <1>3 DEF Copying

(* The new inode of do_copy on the device, and a null pointer used.        *)
Made(v, i, m) == Update(SetIno(v, i, [v.ino[i] EXCEPT !.mode = m, !.flags = ALOC]), i)
Dies(v) == [v EXCEPT !.status = "dies"]

(* do_copy, step by step.                                                  *)
LEMMA CopySteps ==
  ASSUME NEW src, NEW dest, NEW m, NEW a, a = InodeAlloc(Open)
  PROVE  CopyRun(src, dest, m) =
           IF a.r = 0 THEN Dies(a)
           ELSE IF src.kind = "missing" THEN Dies(Made(a, a.r, m))
           ELSE SuperKill(DirLink(CopyChunks(Made(a, a.r, m), a.r, src), Root, dest, a.r))
BY DEF CopyRun, Dies, Made

(* A run that dies leaves what it wrote so far.                            *)
LEMMA DiesIs ==
  ASSUME NEW l \in BOOLEAN, NEW d0, NEW v \in Run, Logged(v, l)
  PROVE  Outcome(Dies(v), d0, l)
<1>1. /\ Dies(v) \in Run /\ Dies(v).dev = v.dev /\ Dies(v).log = v.log
      /\ Dies(v).status = "dies"
  BY WithStatus DEF Dies
<1>2. QED BY <1>1 DEF Outcome, Logged

(* The modes of a directory and of a file.                                 *)
LEMMA KindModes == Type(DirMode) = IFDIR /\ Type(RegMode) = IFREG
BY DEF Type, DirMode, RegMode, IFDIR, IFREG

LEMMA NoneCopied ==
  ASSUME NEW d, NEW i, d.ino[i].size = 0, NEW src, src.len \in Nat
  PROVE  Copied(d, i, src, 0)
<1>1. Lower(Lower(0, src.len), MaxCells) = 0
  BY Geometry DEF Lower
<1>2. 0 .. 0 - 1 = {}
  OBVIOUS
<1>3. QED BY <1>1, <1>2 DEF Copied

(* A run of copy, as for mkdir.                                            *)
LEMMA CopyRunIs ==
  ASSUME NEW l \in BOOLEAN, Good(disk, l), NEW src \in Sources, NEW dest \in Names,
         NEW m \in StatModes(src)
  PROVE  Outcome(CopyRun(src, dest, m), disk, l)
<1> DEFINE a == InodeAlloc(Open)
<1>1. /\ Open \in Run /\ Open.status = "ok" /\ Logged(Open, l)
  BY OpenIs DEF Calm
<1>2. (a.r = 0 /\ a = Numbered(Open, 0)) \/ \E i \in Inum : Allocated(Open, a, i, l)
  BY <1>1, AllocIs
<1>3. /\ src.kind \in {"file", "dir", "missing"} /\ src.len \in Nat
      /\ src.kind # "file" => src.len = 0
  BY VolumeAssumption
<1>4. m \in ModeSet /\ (src.len > 0 => m = RegMode)
  <2>1. CASE src.kind = "file"
    BY <2>1 DEF StatModes, ModeSet
  <2>2. CASE src.kind = "dir"
    BY <1>3, <2>2 DEF StatModes, ModeSet
  <2>3. CASE src.kind = "missing"
    BY <1>3, <2>3 DEF StatModes, ModeSet
  <2>4. QED BY <1>3, <2>1, <2>2, <2>3
<1>5. src.kind # "missing" => Type(m) = IF src.kind = "dir" THEN IFDIR ELSE IFREG
  BY <1>3, KindModes DEF StatModes
<1>6. CopyRun(src, dest, m) =
        IF a.r = 0 THEN Dies(a)
        ELSE IF src.kind = "missing" THEN Dies(Made(a, a.r, m))
        ELSE SuperKill(DirLink(CopyChunks(Made(a, a.r, m), a.r, src), Root, dest, a.r))
  BY CopySteps
<1> HIDE DEF a
<1>7. CASE a.r = 0 /\ a = Numbered(Open, 0)
  <2>1. 0 \in Int
    OBVIOUS
  <2>2. a = [Open EXCEPT !.r = 0]
    BY <1>7 DEF Numbered
  <2>3. a \in Run /\ a.dev = Open.dev /\ a.ino = Open.ino /\ a.log = Open.log /\ a.r = 0
        /\ a.status = Open.status
    BY ONLY <1>1, <2>1, <2>2, WithResult
  <2>4. Logged(a, l)
    BY <1>1, <2>3 DEF Logged
  <2>5. QED BY <1>6, <1>7, <2>3, <2>4, DiesIs
<1>8. ASSUME NEW i \in Inum, Allocated(Open, a, i, l)
      PROVE  Outcome(CopyRun(src, dest, m), disk, l)
  <2> DEFINE z == Made(a, i, m)
             y == CopyChunks(z, i, src)
             w == DirLink(y, Root, dest, i)
  <2>1. a.r = i /\ i # 0
    BY <1>8, Geometry DEF Allocated
  <2>2. z = Update(SetIno(a, i, [a.ino[i] EXCEPT !.mode = m, !.flags = ALOC]), i)
    BY DEF Made
  <2> HIDE DEF z
  <2>3. Copying(z, i, m, l) /\ z \in Run /\ Logged(z, l) /\ z.dev.ino[i].size = 0
    BY <1>4, <1>8, <2>2, CopyMade
  <2>30. Progress(z, i, src, 0, l)
    BY <1>3, <2>3, NoneCopied DEF Progress
  <2>4. Copying(y, i, m, l) /\ \E n \in Nat : src.len <= n /\ Progress(y, i, src, n, l)
    BY <1>4, <2>3, <2>30, CopyChunksIs
  <2> HIDE DEF y
  <2>5. src.kind # "missing" => Ended(w, l) \/ Calm(w, disk, l)
    <3>1. PICK n \in Nat : src.len <= n /\ Progress(y, i, src, n, l)
      BY <2>4
    <3>2. QED BY <1>5, <2>4, <3>1, CopyLinked
  <2> HIDE DEF w
  <2>6. src.kind # "missing" => Outcome(SuperKill(w), disk, l)
    BY <2>5, KillIs
  <2>7. Outcome(Dies(z), disk, l)
    BY <2>3, DiesIs
  <2>8. QED BY <1>6, <2>1, <2>6, <2>7 DEF w, y, z
<1>9. QED BY <1>2, <1>7, <1>8

-----------------------------------------------------------------------------
(* mkfs.                                                                   *)

(* The entries that mkfs links in the root directory.                      *)
Dots == <<".", "..">>

(* One inode of a block that mkfs zeroes, and all of them.                 *)
ZeroOne(f, i, b) == IF i \div IPB = b - 1 THEN [f EXCEPT ![i] = ZeroInode] ELSE f
ZeroAll(ino, b) ==
  LET Zero(f, i) == IF i \div IPB = b - 1 THEN [f EXCEPT ![i] = ZeroInode] ELSE f
  IN FoldLeft(Zero, ino, [i \in Inum |-> i])

(* The loops of mkfs as paths: over the inodes of a block, over the inode  *)
(* blocks, over the data blocks and over the two entries of the root.      *)
LEMMA ZeroOneFold ==
  ASSUME NEW n \in Nat, n = ISize - 1, NEW b,
         NEW X, NEW base \in X, NEW step,
         \A x \in X : \A k \in 1 .. n : step[<<x, k>>] = ZeroOne(x, k, b), Steps(n, X, step)
  PROVE  Path(n, X, base, step, ZeroAll(base, b))
<1> DEFINE seq == [i \in Inum |-> i]
           ch == [S \in SUBSET (1 .. n) |-> Max(S)]
           iter == CHOOSE f : f = [S \in SUBSET (1 .. n) |->
                     IF S = {} THEN base ELSE ZeroOne(f[S \ {Max(S)}], seq[Max(S)], b)]
<1>1. ZeroAll(base, b) = iter[1 .. n]
  <2>1. DOMAIN seq = 1 .. n
    BY DEF Inum
  <2>2. ZeroAll(base, b) = FoldLeft(LAMBDA f, i : ZeroOne(f, i, b), base, seq)
    BY DEF ZeroAll, ZeroOne
  <2>3. QED BY <2>1, <2>2, Zenon DEF FoldLeft, MapThenFoldSet
<1>2. \A S \in SUBSET (1 .. n) : ch[S] = Max(S)
  OBVIOUS
<1>3. \A S \in SUBSET (1 .. n) : S # {} => Max(S) \in 1 .. n /\ seq[Max(S)] = Max(S)
  BY MaxIn DEF Inum
<1>4. Chooses(n, ch)
  BY <1>2, MaxIn DEF Chooses
<1> HIDE DEF ch, seq
<1>5. Folds(n, X, base, step, ch)
  BY <1>4, FoldExists
<1>6. \E f : f = [S \in SUBSET (1 .. n) |->
                    IF S = {} THEN base ELSE ZeroOne(f[S \ {Max(S)}], seq[Max(S)], b)]
  <2>1. PICK f \in [SUBSET (1 .. n) -> X] : \A S \in SUBSET (1 .. n) :
          f[S] = IF S = {} THEN base ELSE step[<<f[S \ {ch[S]}], ch[S]>>]
    BY <1>5 DEF Folds
  <2>2. ASSUME NEW S \in SUBSET (1 .. n), S # {}
        PROVE  f[S] = ZeroOne(f[S \ {Max(S)}], seq[Max(S)], b)
    <3>1. Max(S) \in 1 .. n /\ seq[Max(S)] = Max(S) /\ f[S \ {Max(S)}] \in X
      BY <1>3, <2>1, <2>2, MaxIn
    <3>2. f[S] = step[<<f[S \ {Max(S)}], Max(S)>>]
      BY <1>2, <2>1, <2>2
    <3>3. step[<<f[S \ {Max(S)}], Max(S)>>] = ZeroOne(f[S \ {Max(S)}], Max(S), b)
      BY <3>1
    <3>4. QED BY <3>1, <3>2, <3>3
  <2>3. f[{}] = base
    BY <2>1
  <2>4. f = [S \in SUBSET (1 .. n) |->
               IF S = {} THEN base ELSE ZeroOne(f[S \ {Max(S)}], seq[Max(S)], b)]
    BY <2>1, <2>2, <2>3
  <2>5. QED BY <2>4
<1>7. iter = [S \in SUBSET (1 .. n) |->
                IF S = {} THEN base ELSE ZeroOne(iter[S \ {Max(S)}], seq[Max(S)], b)]
  BY <1>6, Zenon
<1> HIDE DEF iter
<1>8. ASSUME NEW S \in SUBSET (1 .. n), S # {}, iter[S \ {Max(S)}] \in X
      PROVE  iter[S] = step[<<iter[S \ {Max(S)}], Max(S)>>]
  <2>1. Max(S) \in 1 .. n /\ seq[Max(S)] = Max(S)
    BY <1>3, <1>8
  <2>2. iter[S] = ZeroOne(iter[S \ {Max(S)}], seq[Max(S)], b)
    BY <1>7, <1>8
  <2>3. step[<<iter[S \ {Max(S)}], Max(S)>>] = ZeroOne(iter[S \ {Max(S)}], Max(S), b)
    BY <1>8, <2>1
  <2>4. QED BY <2>1, <2>2, <2>3
<1>9. iter[{}] = base
  BY <1>7
<1>10. Recurs(n, X, base, step, iter)
  BY <1>8, <1>9 DEF Recurs
<1>11. QED BY <1>1, <1>10, FoldPath

LEMMA ZeroFold ==
  ASSUME NEW n \in Nat, n = ISize,
         NEW X, NEW base \in X, NEW step,
         \A x \in X : \A k \in 1 .. n : step[<<x, k>>] = ZeroInodes(x, k), Steps(n, X, step)
  PROVE  Path(n, X, base, step, FoldLeft(ZeroInodes, base, [k \in 1 .. ISize |-> k]))
<1> DEFINE seq == [k \in 1 .. ISize |-> k]
           ch == [S \in SUBSET (1 .. n) |-> Max(S)]
           iter == CHOOSE f : f = [S \in SUBSET (1 .. n) |->
                     IF S = {} THEN base ELSE ZeroInodes(f[S \ {Max(S)}], seq[Max(S)])]
<1>1. FoldLeft(ZeroInodes, base, [k \in 1 .. ISize |-> k]) = iter[1 .. n]
  <2>1. DOMAIN seq = 1 .. n
    OBVIOUS
  <2>2. FoldLeft(ZeroInodes, base, [k \in 1 .. ISize |-> k]) = FoldLeft(ZeroInodes, base, seq)
    OBVIOUS
  <2>3. QED BY <2>1, <2>2, Zenon DEF FoldLeft, MapThenFoldSet
<1>2. \A S \in SUBSET (1 .. n) : ch[S] = Max(S)
  OBVIOUS
<1>3. \A S \in SUBSET (1 .. n) : S # {} => Max(S) \in 1 .. n /\ seq[Max(S)] = Max(S)
  BY MaxIn
<1>4. Chooses(n, ch)
  BY <1>2, MaxIn DEF Chooses
<1> HIDE DEF ch, seq
<1>5. Folds(n, X, base, step, ch)
  BY <1>4, FoldExists
<1>6. \E f : f = [S \in SUBSET (1 .. n) |->
                    IF S = {} THEN base ELSE ZeroInodes(f[S \ {Max(S)}], seq[Max(S)])]
  <2>1. PICK f \in [SUBSET (1 .. n) -> X] : \A S \in SUBSET (1 .. n) :
          f[S] = IF S = {} THEN base ELSE step[<<f[S \ {ch[S]}], ch[S]>>]
    BY <1>5 DEF Folds
  <2>2. ASSUME NEW S \in SUBSET (1 .. n), S # {}
        PROVE  f[S] = ZeroInodes(f[S \ {Max(S)}], seq[Max(S)])
    <3>1. Max(S) \in 1 .. n /\ seq[Max(S)] = Max(S) /\ f[S \ {Max(S)}] \in X
      BY <1>3, <2>1, <2>2, MaxIn
    <3>2. f[S] = step[<<f[S \ {Max(S)}], Max(S)>>]
      BY <1>2, <2>1, <2>2
    <3>3. step[<<f[S \ {Max(S)}], Max(S)>>] = ZeroInodes(f[S \ {Max(S)}], Max(S))
      BY <3>1
    <3>4. QED BY <3>1, <3>2, <3>3
  <2>3. f[{}] = base
    BY <2>1
  <2>4. f = [S \in SUBSET (1 .. n) |->
               IF S = {} THEN base ELSE ZeroInodes(f[S \ {Max(S)}], seq[Max(S)])]
    BY <2>1, <2>2, <2>3
  <2>5. QED BY <2>4
<1>7. iter = [S \in SUBSET (1 .. n) |->
                IF S = {} THEN base ELSE ZeroInodes(iter[S \ {Max(S)}], seq[Max(S)])]
  BY <1>6, Zenon
<1> HIDE DEF iter
<1>8. ASSUME NEW S \in SUBSET (1 .. n), S # {}, iter[S \ {Max(S)}] \in X
      PROVE  iter[S] = step[<<iter[S \ {Max(S)}], Max(S)>>]
  <2>1. Max(S) \in 1 .. n /\ seq[Max(S)] = Max(S)
    BY <1>3, <1>8
  <2>2. iter[S] = ZeroInodes(iter[S \ {Max(S)}], seq[Max(S)])
    BY <1>7, <1>8
  <2>3. step[<<iter[S \ {Max(S)}], Max(S)>>] = ZeroInodes(iter[S \ {Max(S)}], Max(S))
    BY <1>8, <2>1
  <2>4. QED BY <2>1, <2>2, <2>3
<1>9. iter[{}] = base
  BY <1>7
<1>10. Recurs(n, X, base, step, iter)
  BY <1>8, <1>9 DEF Recurs
<1>11. QED BY <1>1, <1>10, FoldPath

LEMMA FreeFold ==
  ASSUME NEW n \in Nat, n = NData,
         NEW X, NEW base \in X, NEW step,
         \A x \in X : \A k \in 1 .. n : step[<<x, k>>] = MkfsFree(x, k), Steps(n, X, step)
  PROVE  Path(n, X, base, step, FoldLeft(MkfsFree, base, [b \in Block |-> b]))
<1> DEFINE seq == [b \in Block |-> b]
           ch == [S \in SUBSET (1 .. n) |-> Max(S)]
           iter == CHOOSE f : f = [S \in SUBSET (1 .. n) |->
                     IF S = {} THEN base ELSE MkfsFree(f[S \ {Max(S)}], seq[Max(S)])]
<1>1. FoldLeft(MkfsFree, base, [b \in Block |-> b]) = iter[1 .. n]
  <2>1. DOMAIN seq = 1 .. n
    BY DEF Block
  <2>2. FoldLeft(MkfsFree, base, [b \in Block |-> b]) = FoldLeft(MkfsFree, base, seq)
    OBVIOUS
  <2>3. QED BY <2>1, <2>2, Zenon DEF FoldLeft, MapThenFoldSet
<1>2. \A S \in SUBSET (1 .. n) : ch[S] = Max(S)
  OBVIOUS
<1>3. \A S \in SUBSET (1 .. n) : S # {} => Max(S) \in 1 .. n /\ seq[Max(S)] = Max(S)
  BY MaxIn DEF Block
<1>4. Chooses(n, ch)
  BY <1>2, MaxIn DEF Chooses
<1> HIDE DEF ch, seq
<1>5. Folds(n, X, base, step, ch)
  BY <1>4, FoldExists
<1>6. \E f : f = [S \in SUBSET (1 .. n) |->
                    IF S = {} THEN base ELSE MkfsFree(f[S \ {Max(S)}], seq[Max(S)])]
  <2>1. PICK f \in [SUBSET (1 .. n) -> X] : \A S \in SUBSET (1 .. n) :
          f[S] = IF S = {} THEN base ELSE step[<<f[S \ {ch[S]}], ch[S]>>]
    BY <1>5 DEF Folds
  <2>2. ASSUME NEW S \in SUBSET (1 .. n), S # {}
        PROVE  f[S] = MkfsFree(f[S \ {Max(S)}], seq[Max(S)])
    <3>1. Max(S) \in 1 .. n /\ seq[Max(S)] = Max(S) /\ f[S \ {Max(S)}] \in X
      BY <1>3, <2>1, <2>2, MaxIn
    <3>2. f[S] = step[<<f[S \ {Max(S)}], Max(S)>>]
      BY <1>2, <2>1, <2>2
    <3>3. step[<<f[S \ {Max(S)}], Max(S)>>] = MkfsFree(f[S \ {Max(S)}], Max(S))
      BY <3>1
    <3>4. QED BY <3>1, <3>2, <3>3
  <2>3. f[{}] = base
    BY <2>1
  <2>4. f = [S \in SUBSET (1 .. n) |->
               IF S = {} THEN base ELSE MkfsFree(f[S \ {Max(S)}], seq[Max(S)])]
    BY <2>1, <2>2, <2>3
  <2>5. QED BY <2>4
<1>7. iter = [S \in SUBSET (1 .. n) |->
                IF S = {} THEN base ELSE MkfsFree(iter[S \ {Max(S)}], seq[Max(S)])]
  BY <1>6, Zenon
<1> HIDE DEF iter
<1>8. ASSUME NEW S \in SUBSET (1 .. n), S # {}, iter[S \ {Max(S)}] \in X
      PROVE  iter[S] = step[<<iter[S \ {Max(S)}], Max(S)>>]
  <2>1. Max(S) \in 1 .. n /\ seq[Max(S)] = Max(S)
    BY <1>3, <1>8
  <2>2. iter[S] = MkfsFree(iter[S \ {Max(S)}], seq[Max(S)])
    BY <1>7, <1>8
  <2>3. step[<<iter[S \ {Max(S)}], Max(S)>>] = MkfsFree(iter[S \ {Max(S)}], Max(S))
    BY <1>8, <2>1
  <2>4. QED BY <2>1, <2>2, <2>3
<1>9. iter[{}] = base
  BY <1>7
<1>10. Recurs(n, X, base, step, iter)
  BY <1>8, <1>9 DEF Recurs
<1>11. QED BY <1>1, <1>10, FoldPath

LEMMA LinkFold ==
  ASSUME NEW n \in Nat, n = 2,
         NEW X, NEW base \in X, NEW step,
         \A x \in X : \A k \in 1 .. n : step[<<x, k>>] = MkfsLink(x, Dots[k]), Steps(n, X, step)
  PROVE  Path(n, X, base, step, FoldLeft(MkfsLink, base, Dots))
<1> DEFINE ch == [S \in SUBSET (1 .. n) |-> Max(S)]
           iter == CHOOSE f : f = [S \in SUBSET (1 .. n) |->
                     IF S = {} THEN base ELSE MkfsLink(f[S \ {Max(S)}], Dots[Max(S)])]
<1>1. FoldLeft(MkfsLink, base, Dots) = iter[1 .. n]
  <2>1. DOMAIN Dots = 1 .. n
    BY DEF Dots
  <2>2. QED BY <2>1, Zenon DEF FoldLeft, MapThenFoldSet
<1>2. \A S \in SUBSET (1 .. n) : ch[S] = Max(S)
  OBVIOUS
<1>3. \A S \in SUBSET (1 .. n) : S # {} => Max(S) \in 1 .. n
  BY MaxIn
<1>4. Chooses(n, ch)
  BY <1>2, MaxIn DEF Chooses
<1> HIDE DEF ch
<1>5. Folds(n, X, base, step, ch)
  BY <1>4, FoldExists
<1>6. \E f : f = [S \in SUBSET (1 .. n) |->
                    IF S = {} THEN base ELSE MkfsLink(f[S \ {Max(S)}], Dots[Max(S)])]
  <2>1. PICK f \in [SUBSET (1 .. n) -> X] : \A S \in SUBSET (1 .. n) :
          f[S] = IF S = {} THEN base ELSE step[<<f[S \ {ch[S]}], ch[S]>>]
    BY <1>5 DEF Folds
  <2>2. ASSUME NEW S \in SUBSET (1 .. n), S # {}
        PROVE  f[S] = MkfsLink(f[S \ {Max(S)}], Dots[Max(S)])
    <3>1. Max(S) \in 1 .. n /\ f[S \ {Max(S)}] \in X
      BY <1>3, <2>1, <2>2, MaxIn
    <3>2. f[S] = step[<<f[S \ {Max(S)}], Max(S)>>]
      BY <1>2, <2>1, <2>2
    <3>3. step[<<f[S \ {Max(S)}], Max(S)>>] = MkfsLink(f[S \ {Max(S)}], Dots[Max(S)])
      BY <3>1
    <3>4. QED BY <3>1, <3>2, <3>3
  <2>3. f[{}] = base
    BY <2>1
  <2>4. f = [S \in SUBSET (1 .. n) |->
               IF S = {} THEN base ELSE MkfsLink(f[S \ {Max(S)}], Dots[Max(S)])]
    BY <2>1, <2>2, <2>3
  <2>5. QED BY <2>4
<1>7. iter = [S \in SUBSET (1 .. n) |->
                IF S = {} THEN base ELSE MkfsLink(iter[S \ {Max(S)}], Dots[Max(S)])]
  BY <1>6, Zenon
<1> HIDE DEF iter
<1>8. ASSUME NEW S \in SUBSET (1 .. n), S # {}, iter[S \ {Max(S)}] \in X
      PROVE  iter[S] = step[<<iter[S \ {Max(S)}], Max(S)>>]
  <2>1. Max(S) \in 1 .. n
    BY <1>3, <1>8
  <2>2. iter[S] = MkfsLink(iter[S \ {Max(S)}], Dots[Max(S)])
    BY <1>7, <1>8
  <2>3. step[<<iter[S \ {Max(S)}], Max(S)>>] = MkfsLink(iter[S \ {Max(S)}], Dots[Max(S)])
    BY <1>8, <2>1
  <2>4. QED BY <2>1, <2>2, <2>3
<1>9. iter[{}] = base
  BY <1>7
<1>10. Recurs(n, X, base, step, iter)
  BY <1>8, <1>9 DEF Recurs
<1>11. Path(n, X, base, step, iter[1 .. n])
  BY <1>10, FoldPath
<1>12. QED BY <1>1, <1>11

(* What one write of zeroes to an inode block changes.                     *)
ZeroPart(d, k) == [d EXCEPT !.ino = ZeroAll(@, k)]
Opened(d) == [d EXCEPT !.valid = TRUE, !.clean = FALSE, !.free = {}]
Freer(d, b) == [d EXCEPT !.free = @ \union {b}]

LEMMA MkfsWrites ==
  ASSUME NEW v, NEW k
  PROVE  /\ ZeroInodes(v, k) = Emit(v, ZeroPart(v.dev, k))
         /\ MkfsOpen(v) = Emit(v, Opened(v.dev))
         /\ MkfsFree(v, k) = Emit(v, Freer(v.dev, k))
BY DEF ZeroInodes, ZeroPart, ZeroAll, MkfsOpen, Opened, MkfsFree, Freer

(* The inodes of the block are zeroed, and no other.                       *)
LEMMA ZeroAllIs ==
  ASSUME NEW ino \in [Inum -> InodeRecord], NEW b
  PROVE  /\ ZeroAll(ino, b) \in [Inum -> InodeRecord]
         /\ \A i \in Inum : ZeroAll(ino, b)[i] = IF i \div IPB = b - 1 THEN ZeroInode ELSE ino[i]
<1> DEFINE n == ISize - 1
           X == [Inum -> InodeRecord]
           step == [z \in X \X (1 .. n) |-> ZeroOne(z[1], z[2], b)]
<1>1. n \in Nat /\ Inum = 1 .. n /\ ino \in X
  BY Geometry DEF Inum
<1>2. \A f \in X : \A i \in 1 .. n : step[<<f, i>>] = ZeroOne(f, i, b)
  OBVIOUS
<1>3. ASSUME NEW f \in X, NEW i \in 1 .. n
      PROVE  /\ ZeroOne(f, i, b) \in X
             /\ \A j \in Inum : ZeroOne(f, i, b)[j] =
                  IF j = i /\ i \div IPB = b - 1 THEN ZeroInode ELSE f[j]
  <2>1. ZeroInode \in InodeRecord /\ i \in Inum
    BY <1>1, NewInode
  <2>2. CASE i \div IPB = b - 1
    <3>1. ZeroOne(f, i, b) = [f EXCEPT ![i] = ZeroInode]
      BY <2>2 DEF ZeroOne
    <3>2. QED BY <2>1, <2>2, <3>1
  <2>3. CASE i \div IPB # b - 1
    <3>1. ZeroOne(f, i, b) = f
      BY <2>3 DEF ZeroOne
    <3>2. QED BY <2>3, <3>1
  <2>4. QED BY <2>2, <2>3
<1> HIDE DEF n, X
<1>4. Steps(n, X, step)
  BY <1>2, <1>3 DEF Steps
<1> HIDE DEF step
<1>5. Path(n, X, ino, step, ZeroAll(ino, b))
  BY <1>1, <1>2, <1>4, ZeroOneFold DEF n
<1>6. PICK it \in [0 .. n -> X] :
        /\ it[0] = ino /\ it[n] = ZeroAll(ino, b)
        /\ \A k \in 1 .. n : it[k] = step[<<it[k - 1], k>>]
  BY <1>5 DEF Path
<1> DEFINE S == {k \in Nat : k <= n => \A j \in Inum :
                   it[k][j] = IF j <= k /\ j \div IPB = b - 1 THEN ZeroInode ELSE ino[j]}
<1>7. 0 \in S
  BY <1>1, <1>6
<1>8. ASSUME NEW k \in Nat, k \in S PROVE k + 1 \in S
  <2>1. SUFFICES ASSUME k + 1 <= n, NEW j \in Inum
                 PROVE  it[k + 1][j] = IF j <= k + 1 /\ j \div IPB = b - 1 THEN ZeroInode
                                       ELSE ino[j]
    OBVIOUS
  <2>2. k \in 0 .. n /\ k + 1 \in 1 .. n /\ (k + 1) - 1 = k /\ k <= n
    BY <1>1, <2>1
  <2>3. it[k] \in X /\ it[k + 1] = step[<<it[k], k + 1>>]
    BY <1>6, <2>2
  <2>4. it[k + 1] = ZeroOne(it[k], k + 1, b)
    BY <1>2, <2>2, <2>3
  <2>5. it[k + 1][j] = IF j = k + 1 /\ (k + 1) \div IPB = b - 1 THEN ZeroInode ELSE it[k][j]
    BY <1>3, <2>2, <2>3, <2>4
  <2>6. it[k][j] = IF j <= k /\ j \div IPB = b - 1 THEN ZeroInode ELSE ino[j]
    BY <1>8, <2>2
  <2>7. j \in Nat /\ (j <= k + 1 <=> j <= k \/ j = k + 1)
    BY <1>1
  <2>8. QED BY <2>5, <2>6, <2>7
<1>9. n \in S
  <2> HIDE DEF S
  <2>1. QED BY <1>1, <1>7, <1>8, SetInduction
<1>10. \A j \in Inum : j <= n
  BY <1>1
<1>11. n \in 0 .. n
  BY <1>1
<1>12. QED BY <1>1, <1>6, <1>9, <1>10, <1>11 DEF X

LEMMA ZeroPartIs ==
  ASSUME NEW d \in Volume, NEW k
  PROVE  /\ ZeroPart(d, k) \in Volume
         /\ ZeroPart(d, k).free = d.free /\ ZeroPart(d, k).blk = d.blk
         /\ \A i \in Inum : ZeroPart(d, k).ino[i] = IF i \div IPB = k - 1 THEN ZeroInode
                                                    ELSE d.ino[i]
<1> DEFINE f == ZeroAll(d.ino, k)
           e == ZeroPart(d, k)
<1>1. /\ f \in [Inum -> InodeRecord]
      /\ \A i \in Inum : f[i] = IF i \div IPB = k - 1 THEN ZeroInode ELSE d.ino[i]
  BY ZeroAllIs, VolumeParts
<1>2. e = [d EXCEPT !.ino = f]
  BY DEF ZeroPart
<1> HIDE DEF f
<1>3. e \in Volume /\ e.free = d.free /\ e.blk = d.blk /\ e.ino = f
  BY <1>1, <1>2 DEF Volume
<1>4. QED BY <1>1, <1>3

(* A volume half zeroed is good, but for its links.                        *)
LEMMA ZeroPartGood ==
  ASSUME NEW d, Good(d, FALSE), NEW k
  PROVE  Good(ZeroPart(d, k), FALSE)
<1> DEFINE e == ZeroPart(d, k)
<1>1. d \in Volume /\ Sound(d) /\ NoHole(d) /\ Unused(d)
  BY DEF Good
<1>2. /\ e \in Volume /\ e.free = d.free /\ e.blk = d.blk
      /\ \A i \in Inum : e.ino[i] = ZeroInode \/ e.ino[i] = d.ino[i]
  BY <1>1, ZeroPartIs
<1> HIDE DEF e
<1>3. ASSUME NEW x \in Slot
      PROVE  /\ e.ino[x[1]] = d.ino[x[1]] => Owned(e, x) = Owned(d, x)
             /\ e.ino[x[1]] = ZeroInode => Owned(e, x) = 0
  <2>1. x[1] \in Inum
    BY Slots
  <2>2. e.ino[x[1]] = d.ino[x[1]] => Owned(e, x) = Owned(d, x)
    BY <1>2, SameOwned
  <2>3. e.ino[x[1]] = ZeroInode => Owned(e, x) = 0
    BY <2>1, NewInode, NoZones
  <2>4. QED BY <2>2, <2>3
<1>4. \A x \in Slot : Owned(e, x) = 0 \/ (e.ino[x[1]] = d.ino[x[1]] /\ Owned(e, x) = Owned(d, x))
  <2>1. \A x \in Slot : x[1] \in Inum
    BY Slots
  <2>2. QED BY <1>2, <1>3, <2>1
<1>5. Leads(e, d) /\ \A x \in Slot : Owned(e, x) \in Zone
  <2>1. \A x \in Slot : Owned(d, x) \in Zone
    BY <1>1 DEF Sound
  <2>2. QED BY <1>4, <2>1 DEF Leads, Zone
<1>6. Sound(e)
  BY <1>1, <1>2, <1>5, SoundLess
<1>7. NoHole(e)
  <2>1. ASSUME NEW i \in Inum, NEW off \in 0 .. e.ino[i].size - 1
        PROVE  Owned(e, <<i, off \div CPB>>) # 0
    <3>1. e.ino[i] = d.ino[i]
      BY <1>2, <2>1, NewInode
    <3>2. <<i, off \div CPB>> \in Slot
      <4>1. e.ino[i].size \in 0 .. MaxCells
        BY <1>2, VolumeParts, InodeParts
      <4>2. QED BY <2>1, <4>1, SlotOf
    <3>3. Owned(e, <<i, off \div CPB>>) = Owned(d, <<i, off \div CPB>>)
      <4>1. <<i, off \div CPB>>[1] = i
        OBVIOUS
      <4>2. QED BY <1>3, <3>1, <3>2, <4>1
    <3>4. off \in 0 .. d.ino[i].size - 1
      BY <2>1, <3>1
    <3>5. QED BY <1>1, <3>3, <3>4 DEF NoHole
  <2>2. QED BY <2>1 DEF NoHole
<1>8. Unused(e)
  BY <1>1, <1>2, NewInode DEF Unused, EmptyInode
<1>9. QED BY <1>2, <1>6, <1>7, <1>8 DEF Good, e

(* A volume whose inode blocks are zeroed.                                 *)
Blank(d) == d \in Volume /\ \A i \in Inum : d.ino[i] = ZeroInode

(* It is good, and nothing is in use.                                      *)
LEMMA BlankIs ==
  ASSUME NEW d, Blank(d)
  PROVE  /\ Good(d, FALSE) /\ \A x \in Slot : Owned(d, x) = 0
         /\ \A t : Named(d, t) = {}
<1>1. d \in Volume /\ \A i \in Inum : d.ino[i] = ZeroInode
  BY DEF Blank
<1>2. \A x \in Slot : Owned(d, x) = 0
  BY <1>1, NewInode, NoZones, Slots
<1>3. Sound(d)
  <2>1. \A x \in Slot : Owned(d, x) \in Zone /\ Owned(d, x) \notin d.free
    BY <1>1, <1>2, VolumeParts, Geometry DEF Zone
  <2>2. QED BY <1>2, <2>1 DEF Sound
<1>4. NoHole(d)
  BY <1>1, NewInode DEF NoHole
<1>5. Unused(d)
  BY <1>1, NewInode DEF Unused, EmptyInode
<1>6. Entries(d) = {}
  <2>1. ASSUME NEW e, e \in Entries(d) PROVE FALSE
    <3>1. e \in Inum \X (1 .. MaxCells) /\ IsDir(d, e[1])
      BY <1>1, <2>1, EntryIs
    <3>2. d.ino[e[1]].mode = 0
      BY <1>1, <3>1, NewInode
    <3>3. Type(0) # IFDIR
      BY DEF Type, IFDIR
    <3>4. QED BY <3>1, <3>2, <3>3 DEF IsDir
  <2>2. QED BY <2>1
<1>7. QED BY <1>1, <1>2, <1>3, <1>4, <1>5, <1>6 DEF Good, Named

LEMMA OpenedIs ==
  ASSUME NEW d, Blank(d)
  PROVE  Blank(Opened(d)) /\ Opened(d).free = {}
<1>1. d \in Volume /\ \A i \in Inum : d.ino[i] = ZeroInode
  BY DEF Blank
<1>2. Opened(d) \in Volume /\ Opened(d).ino = d.ino /\ Opened(d).free = {}
  BY <1>1 DEF Volume, Opened
<1>3. QED BY <1>1, <1>2 DEF Blank

LEMMA FreerIs ==
  ASSUME NEW d, Blank(d), NEW b \in Block
  PROVE  Blank(Freer(d, b)) /\ Freer(d, b).free = d.free \union {b}
<1>1. d \in Volume /\ \A i \in Inum : d.ino[i] = ZeroInode
  BY DEF Blank
<1>2. Freer(d, b) \in Volume /\ Freer(d, b).ino = d.ino /\ Freer(d, b).free = d.free \union {b}
  BY <1>1 DEF Volume, Freer
<1>3. QED BY <1>1, <1>2 DEF Blank

(* After the inode blocks have been zeroed, no inode leads anywhere.       *)
LEMMA ZeroedIs ==
  ASSUME Good(disk, FALSE),
         NEW v, v = FoldLeft(ZeroInodes, Open, [k \in 1 .. ISize |-> k])
  PROVE  v \in Run /\ v.status = "ok" /\ Logged(v, FALSE) /\ Blank(v.dev)
<1> DEFINE n == ISize
           X == {x \in Run : x.status = "ok" /\ Logged(x, FALSE)}
           step == [z \in X \X (1 .. n) |-> ZeroInodes(z[1], z[2])]
<1>1. Open \in X
  BY OpenIs DEF Calm
<1>2. \A x \in X : \A k \in 1 .. n : step[<<x, k>>] = ZeroInodes(x, k)
  OBVIOUS
<1>3. ASSUME NEW x \in X, NEW k
      PROVE  ZeroInodes(x, k) \in X /\ ZeroInodes(x, k).dev = ZeroPart(x.dev, k)
  <2>1. x \in Run /\ x.status = "ok" /\ Logged(x, FALSE) /\ Good(x.dev, FALSE)
    BY DEF Logged
  <2>2. Good(ZeroPart(x.dev, k), FALSE)
    BY <2>1, ZeroPartGood
  <2>3. ZeroInodes(x, k) = Emit(x, ZeroPart(x.dev, k))
    BY MkfsWrites
  <2> DEFINE e == ZeroPart(x.dev, k)
             y == Emit(x, e)
  <2> HIDE DEF e
  <2>4. y \in Run /\ y.dev = e /\ y.status = "ok" /\ Logged(y, FALSE)
    BY <2>1, <2>2, Emitted DEF e
  <2> HIDE DEF y
  <2>5. y \in X
    BY <2>4
  <2>6. QED BY <2>3, <2>4, <2>5 DEF e, y
<1>4. \A x \in X : x \in Run /\ x.status = "ok" /\ Logged(x, FALSE)
  OBVIOUS
<1> HIDE DEF X
<1>5. n \in Nat /\ Steps(n, X, step)
  BY <1>2, <1>3, Geometry DEF Steps
<1> HIDE DEF step
<1>6. Path(n, X, Open, step, v)
  BY <1>1, <1>2, <1>5, ZeroFold
<1>7. PICK it \in [0 .. n -> X] :
        it[n] = v /\ \A k \in 1 .. n : it[k] = step[<<it[k - 1], k>>]
  BY <1>6 DEF Path
<1> HIDE DEF n
<1> DEFINE S == {k \in Nat : k <= n =>
                   \A i \in Inum : i \div IPB < k => it[k].dev.ino[i] = ZeroInode}
<1>8. \A i \in Inum : i \div IPB \in Nat /\ i \div IPB <= i
  <2>1. IPB \in Nat \ {0}
    BY VolumeAssumption
  <2>2. ASSUME NEW i \in Inum PROVE i \div IPB \in Nat /\ i \div IPB <= i
    <3>1. i \in Nat
      BY Geometry
    <3>2. PICK q \in Nat, r \in 0 .. IPB - 1 : q = i \div IPB /\ i = IPB * q + r
      BY <2>1, <3>1, Division
    <3>3. q <= IPB * q
      <4>1. PICK c \in Nat : IPB = c + 1
        <5>1. IPB - 1 \in Nat /\ IPB = (IPB - 1) + 1
          BY <2>1
        <5>2. QED BY <5>1
      <4>2. IPB * q = c * q + q
        BY <4>1
      <4> DEFINE m == c * q
      <4>3. m \in Nat
        OBVIOUS
      <4> HIDE DEF m
      <4>4. QED BY <4>2, <4>3 DEF m
    <3> DEFINE m == IPB * q
    <3>4. m \in Nat
      BY <2>1
    <3> HIDE DEF m
    <3>5. QED BY <3>1, <3>2, <3>3, <3>4 DEF m
  <2>3. QED BY <2>2
<1>9. 0 \in S
  BY <1>8
<1>10. ASSUME NEW k \in Nat, k \in S PROVE k + 1 \in S
  <2>1. SUFFICES ASSUME k + 1 <= n, NEW i \in Inum, i \div IPB < k + 1
                 PROVE  it[k + 1].dev.ino[i] = ZeroInode
    OBVIOUS
  <2>2. k \in 0 .. n /\ k + 1 \in 1 .. n /\ (k + 1) - 1 = k
    BY <1>5, <2>1
  <2>3. it[k] \in X /\ it[k + 1] = step[<<it[k], k + 1>>]
    BY <1>7, <2>2
  <2>4. it[k + 1].dev = ZeroPart(it[k].dev, k + 1)
    BY <1>2, <1>3, <2>2, <2>3
  <2>5. it[k].dev \in Volume
    BY <1>4, <2>3, RunParts
  <2>6. it[k + 1].dev.ino[i] = IF i \div IPB = k THEN ZeroInode ELSE it[k].dev.ino[i]
    <3>1. ZeroPart(it[k].dev, k + 1).ino[i]
            = IF i \div IPB = (k + 1) - 1 THEN ZeroInode ELSE it[k].dev.ino[i]
      BY <2>5, ZeroPartIs
    <3>2. QED BY <2>2, <2>4, <3>1
  <2>7. i \div IPB # k => i \div IPB < k
    BY <1>8, <2>1
  <2>8. k <= n
    BY <2>2
  <2>9. QED BY <1>10, <2>6, <2>7, <2>8
<1>11. n \in S
  <2> HIDE DEF S
  <2>1. QED BY <1>5, <1>9, <1>10, SetInduction
<1>12. v \in X
  BY <1>5, <1>7
<1>13. ASSUME NEW i \in Inum PROVE v.dev.ino[i] = ZeroInode
  <2>1. i < n
    BY Geometry DEF Inum, n
  <2>2. i \div IPB < n
    BY <1>5, <1>8, <2>1, Geometry
  <2>3. QED BY <1>5, <1>7, <1>11, <2>2
<1>14. v.dev \in Volume
  BY <1>4, <1>12, RunParts
<1>15. QED BY <1>4, <1>12, <1>13, <1>14 DEF Blank

(* A run of mkfs that has not reached the root directory.                  *)
Blanked(v) == v \in Run /\ v.status = "ok" /\ Logged(v, FALSE) /\ Blank(v.dev)

(* A write of such a volume.                                               *)
LEMMA BlankEmit ==
  ASSUME NEW v, Blanked(v), NEW d, Blank(d)
  PROVE  Blanked(Emit(v, d)) /\ Emit(v, d).dev = d
<1>1. v \in Run /\ v.status = "ok" /\ Logged(v, FALSE)
  BY DEF Blanked
<1>2. Good(d, FALSE)
  BY BlankIs
<1> DEFINE y == Emit(v, d)
<1>3. y \in Run /\ y.dev = d /\ y.status = "ok" /\ Logged(y, FALSE)
  BY <1>1, <1>2, Emitted
<1> HIDE DEF y
<1>4. QED BY <1>3 DEF Blanked, y

(* mkfs frees every block, one after the other.                            *)
LEMMA FreedAll ==
  ASSUME NEW u, Blanked(u), NEW v, v = FoldLeft(MkfsFree, MkfsOpen(u), [b \in Block |-> b])
  PROVE  Blanked(v) /\ Full(v.dev)
<1> DEFINE n == NData
           base == MkfsOpen(u)
           X == {x \in Run : Blanked(x)}
           step == [z \in X \X (1 .. n) |-> MkfsFree(z[1], z[2])]
<1>1. base \in X
  <2>1. Blank(Opened(u.dev))
    BY OpenedIs DEF Blanked
  <2>2. Blanked(base)
    BY <2>1, BlankEmit, MkfsWrites
  <2>3. QED BY <2>2 DEF Blanked
<1>2. \A x \in X : \A k \in 1 .. n : step[<<x, k>>] = MkfsFree(x, k)
  OBVIOUS
<1>3. ASSUME NEW x \in X, NEW k \in 1 .. n
      PROVE  MkfsFree(x, k) \in X /\ MkfsFree(x, k).dev.free = x.dev.free \union {k}
  <2>1. k \in Block /\ Blank(x.dev) /\ Blanked(x)
    BY DEF Blanked, Block
  <2>2. Blank(Freer(x.dev, k)) /\ Freer(x.dev, k).free = x.dev.free \union {k}
    BY <2>1, FreerIs
  <2>3. Blanked(Emit(x, Freer(x.dev, k))) /\ Emit(x, Freer(x.dev, k)).dev = Freer(x.dev, k)
    BY <2>1, <2>2, BlankEmit
  <2>4. Emit(x, Freer(x.dev, k)) = MkfsFree(x, k)
    BY MkfsWrites
  <2>5. QED BY <2>2, <2>3, <2>4 DEF Blanked
<1>4. \A x \in X : Blanked(x)
  OBVIOUS
<1> HIDE DEF X, base
<1>5. n \in Nat /\ Steps(n, X, step)
  BY <1>2, <1>3, Geometry DEF Steps
<1> HIDE DEF step
<1>6. Path(n, X, base, step, v)
  BY <1>1, <1>2, <1>5, FreeFold DEF base
<1>7. PICK it \in [0 .. n -> X] :
        it[n] = v /\ \A k \in 1 .. n : it[k] = step[<<it[k - 1], k>>]
  BY <1>6 DEF Path
<1> DEFINE S == {k \in Nat : k <= n => 1 .. k \subseteq it[k].dev.free}
<1>8. Block = 1 .. n
  BY DEF Block
<1> HIDE DEF n
<1>9. 0 \in S
  OBVIOUS
<1>10. ASSUME NEW k \in Nat, k \in S PROVE k + 1 \in S
  <2>1. SUFFICES ASSUME k + 1 <= n PROVE 1 .. k + 1 \subseteq it[k + 1].dev.free
    OBVIOUS
  <2>2. k \in 0 .. n /\ k + 1 \in 1 .. n /\ (k + 1) - 1 = k /\ k <= n
    BY <1>5, <2>1
  <2>3. it[k] \in X /\ it[k + 1] = step[<<it[k], k + 1>>]
    BY <1>7, <2>2
  <2>4. it[k + 1].dev.free = it[k].dev.free \union {k + 1}
    BY <1>2, <1>3, <2>2, <2>3
  <2>5. 1 .. k \subseteq it[k].dev.free
    BY <1>10, <2>2
  <2>6. 1 .. k + 1 = (1 .. k) \union {k + 1}
    OBVIOUS
  <2>7. QED BY <2>4, <2>5, <2>6
<1>11. n \in S
  <2> HIDE DEF S
  <2>1. QED BY <1>5, <1>9, <1>10, SetInduction
<1>12. v \in X
  BY <1>5, <1>7
<1>13. Block \subseteq v.dev.free
  BY <1>5, <1>7, <1>8, <1>11
<1>14. QED BY <1>4, <1>12, <1>13 DEF Full

(* The root directory has k entries, for itself.                           *)
RootCells(d, k) == d.ino[Root].size = k /\ \A j \in 0 .. k - 1 : At(d, Root, j).n = Root

(* mkfs while it makes the root directory, k of whose entries are there.   *)
RootEntries(v, k) ==
  \/ Ended(v, FALSE)
  \/ /\ Synced(v, Root, FALSE) /\ Full(v.dev) /\ v.ino[Root].mode = DirMode
     /\ RootCells(v.dev, k)
     /\ \A j \in Inum : Cardinality(Named(v.dev, j)) = IF j = Root THEN k ELSE 0
     /\ \A j \in Inum : j # Root => v.dev.ino[j].nlink = 0

(* The root inode as mkfs first writes it, g being what its link count     *)
(* held.                                                                   *)
RootOf(g) == [ZeroInode EXCEPT !.flags = ALOC, !.mode = DirMode, !.nlink = g]

LEMMA RootOfIs ==
  ASSUME NEW g \in Nat
  PROVE  /\ RootOf(g) \in InodeRecord /\ RootOf(g).flags = ALOC /\ RootOf(g).mode = DirMode
         /\ RootOf(g).nlink = g /\ RootOf(g).size = 0 /\ RootOf(g).zones = ZeroInode.zones
<1> DEFINE zones == [z \in 0 .. SInd |-> 0]
           p == [ZeroInode EXCEPT !.flags = ALOC]
           q == [p EXCEPT !.mode = DirMode]
           s == [q EXCEPT !.nlink = g]
<1>1. RootOf(g) = s
  BY DEF RootOf
<1>2. ZeroInode = [flags |-> 0, mode |-> 0, nlink |-> 0, size |-> 0, zones |-> zones]
  BY DEF ZeroInode
<1>3. zones \in [0 .. SInd -> {0} \union Block]
  OBVIOUS
<1> HIDE DEF zones
<1>4. p = [flags |-> ALOC, mode |-> 0, nlink |-> 0, size |-> 0, zones |-> zones]
  BY <1>2
<1> HIDE DEF p
<1>5. q = [flags |-> ALOC, mode |-> DirMode, nlink |-> 0, size |-> 0, zones |-> zones]
  BY <1>4
<1> HIDE DEF q
<1>6. s = [flags |-> ALOC, mode |-> DirMode, nlink |-> g, size |-> 0, zones |-> zones]
  BY <1>5
<1> HIDE DEF s
<1>7. 0 \in 0 .. MaxCells
  BY Geometry
<1>8. s \in InodeRecord
  BY <1>3, <1>6, <1>7 DEF InodeRecord
<1>9. s.zones = ZeroInode.zones
  BY <1>2, <1>6
<1>10. QED BY <1>1, <1>6, <1>8, <1>9

(* The root inode is written.                                              *)
LEMMA RootMade ==
  ASSUME NEW v, Blanked(v), Full(v.dev), NEW g \in Nat
  PROVE  RootEntries(MkfsRoot(v, g), 0)
<1> DEFINE p == RootOf(g)
           z == MkfsRoot(v, g)
<1>1. v \in Run /\ v.status = "ok" /\ Logged(v, FALSE) /\ \A i \in Inum : v.dev.ino[i] = ZeroInode
  BY DEF Blanked, Blank
<1>2. z = Update(SetIno(v, Root, p), Root)
  BY DEF MkfsRoot, RootOf
<1>3. /\ p \in InodeRecord /\ p.flags = ALOC /\ p.mode = DirMode /\ p.size = 0
      /\ p.zones = ZeroInode.zones
  BY RootOfIs
<1> HIDE DEF p, z
<1>4. Root \in Inum
  BY Geometry
<1>5. Ready(v, Root, FALSE, p)
  BY <1>1, <1>3, <1>4, NewInode DEF Ready, Alike
<1>6. /\ Synced(z, Root, FALSE) /\ z.ino[Root] = p /\ z.dev.ino[Root] = p
      /\ \A j \in Inum : j # Root => z.dev.ino[j] = v.dev.ino[j]
      /\ \A j : Named(z.dev, j) = Named(v.dev, j)
      /\ Full(z.dev)
  <2>1. ASSUME NEW l \in BOOLEAN, l = FALSE
        PROVE  /\ Synced(z, Root, l) /\ z.ino[Root] = p /\ z.dev.ino[Root] = p
               /\ \A j \in Inum : j # Root => z.dev.ino[j] = v.dev.ino[j]
               /\ \A j : Named(z.dev, j) = Named(v.dev, j)
               /\ Full(z.dev)
    <3>1. Ready(v, Root, l, p)
      BY <1>5, <2>1
    <3>2. QED BY ONLY <1>2, <1>4, <3>1, Full(v.dev), l \in BOOLEAN, MetaUpdate
  <2>2. QED BY <2>1
<1>7. \A t : Named(v.dev, t) = {}
  BY BlankIs DEF Blanked
<1>8. \A j \in Inum : Cardinality(Named(z.dev, j)) = IF j = Root THEN 0 ELSE 0
  BY <1>6, <1>7, FS_EmptySet
<1>9. \A j \in Inum : j # Root => z.dev.ino[j].nlink = 0
  BY <1>1, <1>6, NewInode
<1>10. RootCells(z.dev, 0) /\ z.ino[Root].mode = DirMode
  <2>1. 0 .. 0 - 1 = {}
    OBVIOUS
  <2>2. QED BY <1>3, <1>6, <2>1 DEF RootCells
<1>11. RootEntries(z, 0)
  BY <1>6, <1>8, <1>9, <1>10 DEF RootEntries
<1>12. QED BY <1>11 DEF z

(* One entry more; the root directory is not full yet.                     *)
LEMMA RootLinked ==
  ASSUME NEW k \in {0, 1}, NEW v, RootEntries(v, k), NEW name \in {".", ".."}
  PROVE  RootEntries(MkfsLink(v, name), k + 1)
<1> DEFINE w == MkfsLink(v, name)
<1>1. Root \in Inum /\ name \in Word
  BY Geometry, Cells0
<1>2. w = DirLink(v, Root, name, Root)
  BY DEF MkfsLink
<1> HIDE DEF w
<1>3. CASE Ended(v, FALSE)
  BY <1>1, <1>2, <1>3, EndedDirLink DEF RootEntries, w
<1>4. CASE ~ Ended(v, FALSE)
  <2>1. /\ Synced(v, Root, FALSE) /\ Full(v.dev) /\ v.ino[Root].mode = DirMode
        /\ v.dev.ino[Root].size = k /\ \A j \in 0 .. k - 1 : At(v.dev, Root, j).n = Root
        /\ \A j \in Inum : Cardinality(Named(v.dev, j)) = IF j = Root THEN k ELSE 0
        /\ \A j \in Inum : j # Root => v.dev.ino[j].nlink = 0
    BY <1>4 DEF RootEntries, RootCells
  <2>2. Type(v.ino[Root].mode) = IFDIR
    BY <2>1, DirModeIs
  <2>3. v.dev.ino[Root].size # MaxCells /\ v.dev.ino[Root].size \in Nat
    <3>1. v.dev.ino[Root].size \in Nat
      BY <1>1, <2>1, RunParts, VolumeParts, InodeParts DEF Synced
    <3>2. QED BY <2>1, <3>1, Geometry
  <2>4. CASE Ended(w, FALSE)
    BY <2>4 DEF RootEntries, w
  <2>5. CASE ~ Ended(w, FALSE)
    <3>1. /\ Synced(w, Root, FALSE) /\ Kept(v, w, Root, Root) /\ NlinkMore(v.dev, w.dev, Root)
          /\ Gained(v.dev, w.dev, Root)
          /\ Packed(v.dev, Root) => Gets(v.dev, w.dev, Root, Cell(Root, name))
      BY <1>1, <1>2, <2>1, <2>2, <2>3, <2>5, DirLinkIs
    <3>2. Full(w.dev) /\ w.ino[Root].mode = DirMode
      BY <1>1, <2>1, <3>1 DEF Kept
    <3>3. RootCells(w.dev, k + 1)
      <4>1. Packed(v.dev, Root)
        BY <2>1, Geometry DEF Packed
      <4>2. Gets(v.dev, w.dev, Root, Cell(Root, name))
        BY <3>1, <4>1
      <4>3. w.dev.ino[Root].size = k + 1 /\ At(w.dev, Root, k).n = Root
        BY <2>1, <4>2 DEF Gets, Cell
      <4>4. \A j \in 0 .. k - 1 : At(w.dev, Root, j).n = Root
        BY <1>1, <2>1, <4>2 DEF Gets
      <4>5. \A j \in 0 .. k + 1 - 1 : j = k \/ j \in 0 .. k - 1
        OBVIOUS
      <4>6. \A j \in 0 .. k + 1 - 1 : At(w.dev, Root, j).n = Root
        BY <4>3, <4>4, <4>5
      <4>7. QED BY <4>3, <4>6 DEF RootCells
    <3>4. \A j \in Inum : Cardinality(Named(w.dev, j)) = IF j = Root THEN k + 1 ELSE 0
      BY <2>1, <3>1 DEF Gained
    <3>5. \A j \in Inum : j # Root => w.dev.ino[j].nlink = 0
      BY <2>1, <3>1 DEF Kept
    <3>6. RootEntries(w, k + 1)
      BY <3>1, <3>2, <3>3, <3>4, <3>5 DEF RootEntries
    <3>7. QED BY <3>6 DEF w
  <2>6. QED BY <2>4, <2>5
<1>5. QED BY <1>3, <1>4

(* Both entries are there.                                                 *)
LEMMA RootDone ==
  ASSUME NEW v, RootEntries(v, 0)
  PROVE  RootEntries(FoldLeft(MkfsLink, v, Dots), 2)
<1> DEFINE n == 2
           X == {x \in Run : Ended(x, FALSE) \/ Synced(x, Root, FALSE)}
           step == [z \in X \X (1 .. n) |-> MkfsLink(z[1], Dots[z[2]])]
           w == FoldLeft(MkfsLink, v, Dots)
<1>1. v \in X
  BY DEF RootEntries, Ended, Synced
<1>2. \A x \in X : \A k \in 1 .. n : step[<<x, k>>] = MkfsLink(x, Dots[k])
  OBVIOUS
<1>3. Dots[1] = "." /\ Dots[2] = ".." /\ \A k \in 1 .. n : Dots[k] \in {".", ".."}
  BY DEF Dots
<1>s. \A x \in X : step[<<x, 1>>] = MkfsLink(x, ".") /\ step[<<x, 2>>] = MkfsLink(x, "..")
  <2>1. 1 \in 1 .. n /\ 2 \in 1 .. n
    OBVIOUS
  <2> HIDE DEF X, n
  <2>2. \A x \in X : step[<<x, 1>>] = MkfsLink(x, Dots[1]) /\ step[<<x, 2>>] = MkfsLink(x, Dots[2])
    BY <2>1
  <2>3. QED BY <1>3, <2>2
<1>4. ASSUME NEW x \in X, NEW k \in 1 .. n PROVE MkfsLink(x, Dots[k]) \in X
  <2>1. Root \in Inum /\ Dots[k] \in Word
    BY <1>3, Geometry, Cells0
  <2> DEFINE y == DirLink(x, Root, Dots[k], Root)
  <2>2. CASE Ended(x, FALSE)
    <3>1. Ended(y, FALSE)
      BY <2>1, <2>2, EndedDirLink
    <3>2. QED BY <3>1 DEF MkfsLink, Ended
  <2>3. CASE Synced(x, Root, FALSE)
    <3> HIDE DEF y
    <3>1. Ended(y, FALSE) \/ Synced(y, Root, FALSE)
      BY <2>1, <2>3, DirLinkIs DEF y
    <3>2. y \in X
      BY <3>1 DEF Ended, Synced
    <3>3. QED BY <3>2 DEF MkfsLink, y
  <2>4. QED BY <2>2, <2>3
<1> HIDE DEF X
<1>5. n \in Nat /\ Steps(n, X, step)
  BY <1>2, <1>4 DEF Steps
<1> HIDE DEF step
<1>6. Path(n, X, v, step, w)
  BY <1>1, <1>2, <1>5, LinkFold
<1>7. PICK it \in [0 .. n -> X] :
        it[0] = v /\ it[n] = w /\ \A k \in 1 .. n : it[k] = step[<<it[k - 1], k>>]
  BY <1>6 DEF Path
<1>8. it[1] = MkfsLink(v, ".") /\ it[2] = MkfsLink(it[1], "..") /\ w = it[2]
  <2>1. it[1] = step[<<v, 1>>]
    BY <1>7
  <2>2. it[2] = step[<<it[1], 2>>] /\ it[1] \in X
    BY <1>7
  <2>3. QED BY <1>1, <1>7, <1>s, <2>1, <2>2
<1>9. RootEntries(it[1], 1)
  <2>1. RootEntries(MkfsLink(v, "."), 0 + 1)
    BY RootLinked
  <2>2. QED BY <1>8, <2>1
<1>10. RootEntries(it[2], 2)
  <2>1. RootEntries(MkfsLink(it[1], ".."), 1 + 1)
    BY <1>9, RootLinked
  <2>2. QED BY <1>8, <2>1
<1>11. QED BY <1>8, <1>10 DEF w

(* The root inode with its count of 2.                                     *)
RootCounted(v) == [v.ino[Root] EXCEPT !.nlink = 2]

(* The two entries of mkfs are not shown.                                  *)
LEMMA VisibleNone ==
  ASSUME NEW d \in Volume, IsDir(d, Root), d.ino[Root].size = 2
  PROVE  Visible(d) = <<>>
<1>1. Visible(d) = [k \in 1 .. 2 - 2 |-> Shown(d, At(d, Root, k + 1))]
  BY VisibleIs
<1>2. 1 .. 2 - 2 = {}
  OBVIOUS
<1>3. QED BY <1>1, <1>2

(* The last inode write of mkfs makes the volume whole.                    *)
LEMMA RootCountedIs ==
  ASSUME NEW v, RootEntries(v, 2)
  PROVE  LET z == MkfsCount(v) IN
           \/ Ended(z, FALSE)
           \/ /\ z \in Run /\ z.status = "ok" /\ Logged(z, FALSE)
              /\ Good(z.dev, TRUE) /\ Whole(z.dev) /\ Visible(z.dev) = <<>>
<1> DEFINE p == RootCounted(v)
           z == MkfsCount(v)
<1>1. Root \in Inum
  BY Geometry
<1>2. z = Update(SetIno(v, Root, p), Root)
  BY DEF MkfsCount, RootCounted
<1>3. v \in Run
  BY DEF RootEntries, Ended, Synced
<1>4. v.ino[Root] \in InodeRecord
  BY <1>1, <1>3, RunParts
<1>5. /\ p \in InodeRecord /\ p.nlink = 2
      /\ p.flags = v.ino[Root].flags /\ p.mode = v.ino[Root].mode
      /\ p.size = v.ino[Root].size /\ p.zones = v.ino[Root].zones
  <2> DEFINE q == v.ino[Root]
  <2>1. p = [q EXCEPT !.nlink = 2]
    BY DEF RootCounted
  <2>2. q \in InodeRecord
    BY <1>4
  <2> HIDE DEF q, p
  <2>3. QED BY <2>1, <2>2 DEF InodeRecord, q
<1> HIDE DEF p, z
<1>6. CASE Ended(v, FALSE)
  BY <1>1, <1>2, <1>5, <1>6, EndedUpdate DEF z
<1>7. CASE ~ Ended(v, FALSE)
  <2>1. /\ Synced(v, Root, FALSE) /\ Full(v.dev) /\ v.ino[Root].mode = DirMode
        /\ \A j \in Inum : Cardinality(Named(v.dev, j)) = IF j = Root THEN 2 ELSE 0
        /\ \A j \in Inum : j # Root => v.dev.ino[j].nlink = 0
        /\ v.dev.ino[Root].size = 2 /\ \A j \in 0 .. 2 - 1 : At(v.dev, Root, j).n = Root
    BY <1>7 DEF RootEntries, RootCells
  <2>2. Ready(v, Root, FALSE, p)
    BY <1>3, <1>5, <2>1 DEF Ready, Synced, Alike
  <2>3. /\ Synced(z, Root, FALSE) /\ z.dev.ino[Root] = p
        /\ \A j \in Inum : j # Root => z.dev.ino[j] = v.dev.ino[j]
        /\ \A j : Named(z.dev, j) = Named(v.dev, j)
        /\ Full(z.dev) /\ SameCells(v.dev, z.dev)
    <3>1. ASSUME NEW l \in BOOLEAN, l = FALSE
          PROVE  /\ Synced(z, Root, l) /\ z.dev.ino[Root] = p
                 /\ \A j \in Inum : j # Root => z.dev.ino[j] = v.dev.ino[j]
                 /\ \A j : Named(z.dev, j) = Named(v.dev, j)
                 /\ Full(z.dev) /\ SameCells(v.dev, z.dev)
      <4>1. Ready(v, Root, l, p) /\ Full(v.dev)
        BY <2>1, <2>2, <3>1
      <4>2. QED BY ONLY <1>1, <1>2, <4>1, l \in BOOLEAN, MetaUpdate
    <3>2. QED BY <3>1
  <2>4. Exact(z.dev)
    BY <1>5, <2>1, <2>3 DEF Exact
  <2>5. z \in Run /\ z.status = "ok" /\ Logged(z, FALSE) /\ Good(z.dev, FALSE)
    BY <2>3 DEF Synced, Logged
  <2>6. Linked(z.dev)
    <3>1. ASSUME NEW j \in Inum PROVE z.dev.ino[j].nlink <= Cardinality(Named(z.dev, j))
      <4>1. Cardinality(Named(z.dev, j)) \in Nat
        BY NamedFinite
      <4>2. QED BY <2>4, <4>1 DEF Exact
    <3>2. QED BY <3>1 DEF Linked
  <2>7. IsDir(z.dev, Root)
    BY <1>5, <2>1, <2>3, DirModeIs DEF IsDir
  <2>8. Rooted(z.dev) /\ Visible(z.dev) = <<>>
    <3>1. z.dev.ino[Root].size = 2 /\ \A j \in 0 .. 2 - 1 : At(z.dev, Root, j).n = Root
      BY <1>1, <2>1, <2>3 DEF SameCells
    <3> HIDE DEF z
    <3>2. Rooted(z.dev)
      <4>1. 2 .. 2 - 1 = {}
        OBVIOUS
      <4>2. QED BY <1>1, <3>1, <4>1 DEF Rooted
    <3>3. z.dev \in Volume
      BY <2>5 DEF Good
    <3>4. QED BY <2>7, <3>1, <3>2, <3>3, VisibleNone
  <2>9. Good(z.dev, TRUE)
    BY <2>5, <2>6, <2>7, <2>8 DEF Good
  <2>10. QED BY <2>3, <2>4, <2>5, <2>8, <2>9 DEF Whole, z
<1>8. QED BY <1>6, <1>7

(* A volume that is good with its links is good without.                   *)
LEMMA GoodLess ==
  ASSUME NEW d, NEW l \in BOOLEAN, Good(d, l)
  PROVE  Good(d, FALSE)
BY DEF Good

(* A run of mkfs, whatever the image held before.                          *)
Formatted(v) ==
  /\ v \in Run /\ Logged(v, FALSE) /\ v.status \in {"ok", "wild"}
  /\ v.status = "ok" => Good(v.dev, TRUE) /\ Whole(v.dev) /\ Visible(v.dev) = <<>>

(* A run of mkfs that reaches its end leaves a whole volume; at each of    *)
(* its writes the volume is good, but for its links.                       *)
LEMMA MkfsRunIs ==
  ASSUME Good(disk, FALSE), NEW g \in Garbage
  PROVE  Formatted(MkfsRun(g))
<1> DEFINE zeroed == FoldLeft(ZeroInodes, Open, [k \in 1 .. ISize |-> k])
           freed == FoldLeft(MkfsFree, MkfsOpen(zeroed), [b \in Block |-> b])
           rooted == MkfsRoot(freed, g)
           linked == FoldLeft(MkfsLink, rooted, Dots)
           z == MkfsCount(linked)
           w == SuperKill(z)
<1>1. MkfsRun(g) = w
  BY DEF MkfsRun, Dots
<1>2. Blanked(zeroed)
  BY ZeroedIs DEF Blanked
<1> HIDE DEF zeroed
<1>3. Blanked(freed) /\ Full(freed.dev)
  BY <1>2, FreedAll
<1> HIDE DEF freed
<1>4. RootEntries(rooted, 0)
  BY <1>3, RootMade, VolumeAssumption
<1> HIDE DEF rooted
<1>5. RootEntries(linked, 2)
  BY <1>4, RootDone
<1> HIDE DEF linked
<1>6. \/ Ended(z, FALSE)
      \/ /\ z \in Run /\ z.status = "ok" /\ Logged(z, FALSE)
         /\ Good(z.dev, TRUE) /\ Whole(z.dev) /\ Visible(z.dev) = <<>>
  BY <1>5, RootCountedIs
<1> HIDE DEF z
<1>7. w = Emit(z, Cleaned(z.dev))
  BY DEF SuperKill, Cleaned
<1> HIDE DEF w
<1>8. CASE Ended(z, FALSE)
  <2>1. w = z
    BY <1>7, <1>8, Silent DEF Ended
  <2>2. QED BY <1>1, <1>8, <2>1 DEF Formatted, Ended
<1>9. CASE ~ Ended(z, FALSE)
  <2>1. /\ z \in Run /\ z.status = "ok" /\ Logged(z, FALSE)
        /\ Good(z.dev, TRUE) /\ Whole(z.dev) /\ Visible(z.dev) = <<>>
    BY <1>6, <1>9
  <2>2. Good(Cleaned(z.dev), TRUE) /\ Whole(Cleaned(z.dev)) /\ Visible(Cleaned(z.dev)) = <<>>
    BY <2>1, CleanedIs
  <2>3. Good(Cleaned(z.dev), FALSE)
    BY <2>2, GoodLess
  <2> DEFINE e == Cleaned(z.dev)
  <2> HIDE DEF e
  <2>4. w \in Run /\ w.dev = e /\ w.status = "ok" /\ Logged(w, FALSE)
    <3>1. Good(e, FALSE) /\ w = Emit(z, e)
      BY <1>7, <2>3 DEF e
    <3>2. QED BY <2>1, <3>1, Emitted
  <2>5. QED BY <1>1, <2>2, <2>4 DEF Formatted, e
<1>10. QED BY <1>8, <1>9

(* ls and inspect.                                                         *)
LEMMA BrowseRunIs ==
  ASSUME NEW l \in BOOLEAN, Good(disk, l)
  PROVE  Outcome(LsRun, disk, l) /\ Outcome(InspectRun, disk, l)
<1>1. Outcome(SuperKill(Open), disk, l)
  BY OpenIs, KillIs
<1>2. QED BY <1>1 DEF LsRun, InspectRun

-----------------------------------------------------------------------------
(* The inductive invariant and the theorems.                               *)

(* The links of the volume are counted, as mkfs has run to its end.        *)
Tracked == health \notin {"raw", "lost"}

(* What a run in progress leaves when it reaches its end.                  *)
Lasting(s) == s[Len(s)]

(* What a run in progress will leave, at each of its writes and at its end. *)
Playing(s, l, how, found) ==
  /\ s \in Seq(Volume) /\ s # <<>> /\ \A k \in 1 .. Len(s) : Good(s[k], l)
  /\ how \in {"ok", "dies", "wild"}
  /\ how = "ok" /\ found => Whole(Lasting(s))
  /\ l => Tells(s)

(* The inductive invariant.  The volume and every content it will have     *)
(* until the run in progress ends are good; what the run leaves when it    *)
(* reaches its end is whole, if it found a whole volume or made one.       *)
(* Each write shows one complete entry more in the root directory, or none.*)
IInv ==
  /\ ending \in {"ok", "format", "dies", "wild"}
  /\ health \in {"raw", "whole", "busy", "torn", "lost"}
  /\ runs \in 0 .. MaxRuns
  /\ Good(disk, Tracked)
  /\ todo \in Seq(Volume) /\ \A k \in 1 .. Len(todo) : Good(todo[k], Tracked)
  /\ health = "whole" => Whole(disk)
  /\ health = "lost" => todo = <<>>
  /\ health = "busy" => todo # <<>>
  /\ todo # <<>> /\ ending = "format" =>
       /\ health = "raw" /\ Good(Lasting(todo), TRUE) /\ Whole(Lasting(todo))
       /\ Visible(Lasting(todo)) = <<>>
  /\ Tracked => Tells(todo)
  /\ todo # <<>> /\ ending = "ok" /\ health \in {"whole", "busy"} => Whole(Lasting(todo))

(* The image that was never formatted.                                     *)
LEMMA InitIInv == Init => IInv
<1> SUFFICES ASSUME Init PROVE IInv
  OBVIOUS
<1>1. PICK old \in Former :
        disk = [valid |-> FALSE, clean |-> TRUE, free |-> {},
                ino |-> [i \in Inum |-> ZeroInode], blk |-> [b \in Block |-> old]]
  BY DEF Init
<1> DEFINE ino == [i \in Inum |-> ZeroInode]
           blk == [b \in Block |-> old]
<1>2. ino \in [Inum -> InodeRecord] /\ \A i \in Inum : ino[i] = ZeroInode
  BY NewInode
<1>3. blk \in [Block -> Content]
  BY OldBlocks
<1>4. disk = [valid |-> FALSE, clean |-> TRUE, free |-> {}, ino |-> ino, blk |-> blk]
  BY <1>1
<1> HIDE DEF ino, blk
<1>5. disk \in Volume
  BY <1>2, <1>3, <1>4 DEF Volume
<1>6. disk.ino = ino
  BY <1>4
<1>7. Blank(disk)
  BY <1>2, <1>5, <1>6 DEF Blank
<1>8. Good(disk, FALSE)
  BY <1>7, BlankIs
<1>9. ~ Tracked /\ Good(disk, Tracked)
  BY <1>8 DEF Init, Tracked, Good
<1>10. 0 \in 0 .. MaxRuns
  BY VolumeAssumption
<1>11. todo = <<>> /\ health = "raw" /\ runs = 0 /\ ending = "ok"
  BY DEF Init
<1>12. todo \in Seq(Volume) /\ \A k \in 1 .. Len(todo) : Good(todo[k], Tracked)
  BY <1>11
<1>13. QED BY <1>9, <1>10, <1>11, <1>12 DEF IInv

LEMMA TrackedBoolean == Tracked \in BOOLEAN
BY DEF Tracked

(* A run whose outcome is known, as it is played.                          *)
LEMMA StartPlays ==
  ASSUME NEW l \in BOOLEAN, NEW v, Outcome(v, disk, l), v.log # <<>>
  PROVE  Playing(v.log, l, v.status, l /\ Whole(disk))
<1>1. /\ v \in Run /\ Logged(v, l) /\ v.status \in {"ok", "dies", "wild"}
      /\ v.status = "ok" /\ l /\ Whole(disk) => Whole(v.dev)
  BY DEF Outcome
<1>2. v.log \in Seq(Volume) /\ Len(v.log) \in Nat
  BY <1>1, RunParts
<1>3. Len(v.log) > 0
  BY <1>2, EmptySeq
<1>4. QED BY <1>1, <1>2, <1>3 DEF Playing, Logged, Lasting

(* mkdir, copy, ls and inspect.                                            *)
LEMMA ToolIInv ==
  ASSUME IInv, NEW v, Outcome(v, disk, Tracked), Start(v), UNCHANGED <<disk, health>>
  PROVE  IInv'
<1>1. todo = <<>> /\ health # "lost" /\ v.log # <<>> /\ todo' = v.log /\ ending' = v.status
      /\ runs < MaxRuns /\ runs' = runs + 1 /\ disk' = disk /\ health' = health
  BY DEF Start, Idle
<1>2. Playing(todo', Tracked, ending', Tracked /\ Whole(disk))
  BY <1>1, StartPlays, TrackedBoolean
<1>3. Tracked' = Tracked
  BY <1>1 DEF Tracked
<1>4. runs' \in 0 .. MaxRuns
  BY <1>1, VolumeAssumption DEF IInv
<1>5. health \in {"whole", "busy"} => Tracked /\ Whole(disk)
  BY <1>1 DEF IInv, Tracked
<1>6. Good(disk', Tracked')
  BY <1>1, <1>3 DEF IInv
<1>7. \A k \in 1 .. Len(todo') : Good(todo'[k], Tracked')
  BY <1>2, <1>3 DEF Playing
<1>8. ending' = "ok" /\ health' \in {"whole", "busy"} => Whole(Lasting(todo'))
  BY <1>1, <1>2, <1>5 DEF Playing
<1>9. health' = "whole" => Whole(disk')
  BY <1>1 DEF IInv
<1>10. Tracked' => Tells(todo)'
  <2>1. Tracked => Tells(v.log)
    BY <1>1, <1>2 DEF Playing
  <2>2. Tells(todo)' <=> Tells(v.log)
    BY <1>1 DEF Tells, Before
  <2>3. QED BY <1>3, <2>1, <2>2
<1>11. QED BY <1>1, <1>2, <1>4, <1>6, <1>7, <1>8, <1>9, <1>10 DEF IInv, Playing

(* mkfs starts on any volume, and the volume is raw until it ends.         *)
LEMMA MkfsIInv ==
  ASSUME IInv, Mkfs
  PROVE  IInv'
<1>1. PICK g \in Garbage :
        Start([MkfsRun(g) EXCEPT !.status = IF @ = "ok" THEN "format" ELSE @])
  BY DEF Mkfs
<1>2. health' = "raw" /\ disk' = disk
  BY DEF Mkfs
<1> DEFINE v == MkfsRun(g)
           how == IF v.status = "ok" THEN "format" ELSE v.status
           w == [v EXCEPT !.status = how]
<1>3. Good(disk, FALSE)
  BY GoodLess, TrackedBoolean DEF IInv
<1>4. Formatted(v)
  BY <1>3, MkfsRunIs
<1>5. Start(w)
  BY <1>1
<1>6. /\ v \in Run /\ Logged(v, FALSE) /\ how \in {"format", "wild"}
      /\ how = "format" => Good(v.dev, TRUE) /\ Whole(v.dev) /\ Visible(v.dev) = <<>>
  BY <1>4 DEF Formatted
<1> HIDE DEF v, how
<1>7. w.log = v.log /\ w.status = how
  BY <1>6 DEF Run
<1> HIDE DEF w
<1>8. todo = <<>> /\ health # "lost" /\ v.log # <<>> /\ todo' = v.log /\ ending' = how
      /\ runs < MaxRuns /\ runs' = runs + 1
  BY <1>5, <1>7 DEF Start, Idle
<1>9. Tracked' = FALSE
  BY <1>2 DEF Tracked
<1>10. v.log \in Seq(Volume) /\ Len(v.log) \in Nat
  BY <1>6, RunParts
<1>11. Len(v.log) > 0
  BY <1>8, <1>10, EmptySeq
<1>12. Lasting(todo') = v.dev
  BY <1>6, <1>8, <1>11 DEF Logged, Lasting
<1>13. \A k \in 1 .. Len(todo') : Good(todo'[k], Tracked')
  BY <1>6, <1>8, <1>9 DEF Logged
<1>14. Good(disk', Tracked')
  BY <1>2, <1>3, <1>9
<1>15. runs' \in 0 .. MaxRuns
  BY <1>8, VolumeAssumption DEF IInv
<1>16. ending' = "format" =>
         Good(Lasting(todo)', TRUE) /\ Whole(Lasting(todo)') /\ Visible(Lasting(todo)') = <<>>
  <2>1. Lasting(todo)' = v.dev
    BY <1>12 DEF Lasting
  <2>2. QED BY <1>6, <1>8, <2>1
<1>17. QED BY <1>2, <1>6, <1>8, <1>9, <1>10, <1>13, <1>14, <1>15, <1>16 DEF IInv

(* One write of the run in progress; the last one decides the health.      *)
LEMMA WriteBlockIInv ==
  ASSUME IInv, WriteBlock
  PROVE  IInv'
<1>1. /\ todo # <<>> /\ disk' = Head(todo) /\ todo' = Tail(todo) /\ runs' = runs
      /\ todo \in Seq(Volume) /\ \A k \in 1 .. Len(todo) : Good(todo[k], Tracked)
  BY DEF WriteBlock, IInv
<1>2. /\ Len(todo) \in Nat /\ Len(todo) > 0 /\ disk' = todo[1]
      /\ todo' \in Seq(Volume) /\ Len(todo') = Len(todo) - 1
      /\ \A k \in 1 .. Len(todo') : todo'[k] = todo[k + 1]
  BY <1>1
<1>3. Good(disk', Tracked) /\ \A k \in 1 .. Len(todo') : Good(todo'[k], Tracked)
  BY <1>1, <1>2
<1>7. Tracked => Tells(todo)'
  <2> SUFFICES ASSUME Tracked PROVE Tells(todo)'
    OBVIOUS
  <2>1. \A k \in 1 .. Len(todo) : Follows(IF k = 1 THEN disk ELSE todo[k - 1], todo[k])
    BY DEF IInv, Tells, Before
  <2>2. ASSUME NEW k \in 1 .. Len(todo')
        PROVE  Follows(IF k = 1 THEN disk' ELSE todo'[k - 1], todo'[k])
    <3>1. k + 1 \in 1 .. Len(todo) /\ k + 1 # 1 /\ k + 1 - 1 = k
      BY <1>2
    <3>2. Follows(todo[k], todo[k + 1])
      BY <2>1, <3>1
    <3>3. todo[k] = IF k = 1 THEN disk' ELSE todo'[k - 1]
      <4>1. CASE k = 1
        BY <1>2, <4>1
      <4>2. CASE k # 1
        <5>1. k - 1 \in 1 .. Len(todo') /\ k - 1 + 1 = k
          BY <1>2, <4>2
        <5>2. QED BY <1>2, <4>2, <5>1
      <4>3. QED BY <4>1, <4>2
    <3>4. QED BY <1>2, <3>2, <3>3
  <2>3. QED BY <2>2 DEF Tells, Before, Follows
<1>4. CASE Len(todo) > 1
  <2>1. health' = (IF health = "whole" THEN "busy" ELSE health) /\ ending' = ending
    BY <1>4 DEF WriteBlock
  <2>2. todo' # <<>> /\ Lasting(todo') = Lasting(todo)
    BY <1>2, <1>4 DEF Lasting
  <2>3. Tracked' = Tracked
    BY <2>1 DEF Tracked
  <2>4. health' # "whole" /\ (health' = "lost" => health = "lost")
        /\ (health' \in {"whole", "busy"} => health \in {"whole", "busy"})
        /\ (health' = "raw" <=> health = "raw")
        /\ health' \in {"raw", "whole", "busy", "torn", "lost"}
    BY <2>1 DEF IInv
  <2>5. Good(disk', Tracked') /\ \A k \in 1 .. Len(todo') : Good(todo'[k], Tracked')
    BY <1>3, <2>3
  <2>6. QED BY <1>1, <1>2, <1>7, <2>1, <2>2, <2>3, <2>4, <2>5 DEF IInv
<1>5. CASE Len(todo) = 1
  <2>1. /\ health' = CASE ending = "format" -> "whole"
                       [] ending = "wild" -> "lost"
                       [] ending = "ok" /\ health = "busy" -> "whole"
                       [] ending = "dies" /\ health # "raw" -> "torn"
                       [] OTHER -> health
        /\ ending' = "ok"
    BY <1>5 DEF WriteBlock
  <2>2. todo' = <<>> /\ disk' = Lasting(todo)
    BY <1>2, <1>5 DEF Lasting
  <2>3. health # "lost"
    BY <1>1 DEF IInv
  <2>4. ending = "format" => health = "raw" /\ Good(disk', TRUE) /\ Whole(disk')
    BY <1>1, <2>2 DEF IInv
  <2>5. ending = "ok" /\ health \in {"whole", "busy"} => Whole(disk')
    BY <1>1, <2>2 DEF IInv
  <2>6. /\ health' \in {"raw", "whole", "busy", "torn", "lost"}
        /\ health' # "busy"
        /\ health' = "whole" => ending = "format" \/ (ending = "ok" /\ health \in {"whole", "busy"})
        /\ health' \notin {"raw", "lost"} => ending = "format" \/ health \notin {"raw", "lost"}
    BY <2>1, <2>3 DEF IInv
  <2>7. health' = "whole" => Whole(disk')
    BY <2>4, <2>5, <2>6
  <2>8. Good(disk', Tracked')
    <3>1. CASE Tracked'
      <4>1. Good(disk', TRUE)
        <5>1. CASE ending = "format"
          BY <2>4, <5>1
        <5>2. CASE ending # "format"
          BY <1>3, <2>6, <3>1, <5>2 DEF Tracked, Good
        <5>3. QED BY <5>1, <5>2
      <4>2. QED BY <3>1, <4>1 DEF Good
    <3>2. CASE ~ Tracked'
      BY <1>3, <3>2 DEF Good
    <3>3. QED BY <3>1, <3>2
  <2>9. Tells(todo)'
    BY <2>2 DEF Tells
  <2>10. QED BY <1>1, <1>2, <2>1, <2>2, <2>6, <2>7, <2>8, <2>9 DEF IInv
<1>6. QED BY <1>2, <1>4, <1>5

(* The process is killed between two writes.                               *)
LEMMA DieIInv ==
  ASSUME IInv, Die
  PROVE  IInv'
<1>1. /\ todo' = <<>> /\ ending' = "ok" /\ disk' = disk /\ runs' = runs
      /\ health' = IF health = "busy" THEN "torn" ELSE health
  BY DEF Die
<1>2. Tracked' = Tracked
  BY <1>1 DEF Tracked
<1>3. Good(disk', Tracked')
  BY <1>1, <1>2 DEF IInv
<1>4. todo' \in Seq(Volume) /\ \A k \in 1 .. Len(todo') : Good(todo'[k], Tracked')
  BY <1>1
<1>5. Tells(todo)'
  BY <1>1 DEF Tells
<1>6. QED BY <1>1, <1>3, <1>4, <1>5 DEF IInv

(* IInv is inductive.                                                      *)
LEMMA NextIInv == IInv /\ [Next]_vars => IInv'
<1> SUFFICES ASSUME IInv, [Next]_vars PROVE IInv'
  OBVIOUS
<1>1. Good(disk, Tracked) /\ Tracked \in BOOLEAN
  BY TrackedBoolean DEF IInv
<1>2. CASE Mkfs
  BY <1>2, MkfsIInv
<1>3. CASE Mkdir
  <2>1. PICK n \in 1 .. 2 : \E paths \in [1 .. n -> Paths] : Start(MkdirRun(paths))
    BY <1>3 DEF Mkdir
  <2>2. PICK paths \in [1 .. n -> Paths] : Start(MkdirRun(paths))
    BY <2>1
  <2>3. UNCHANGED <<disk, health>>
    BY <1>3 DEF Mkdir
  <2>4. n \in Nat
    OBVIOUS
  <2>5. Outcome(MkdirRun(paths), disk, Tracked)
    BY <1>1, <2>4, MkdirRunIs
  <2>6. QED BY <2>2, <2>3, <2>5, ToolIInv
<1>4. CASE Copy
  <2>1. PICK src \in Sources, dest \in Names : \E mode \in StatModes(src) :
          Start(CopyRun(src, dest, mode))
    BY <1>4 DEF Copy
  <2>2. PICK mode \in StatModes(src) : Start(CopyRun(src, dest, mode))
    BY <2>1
  <2>3. UNCHANGED <<disk, health>>
    BY <1>4 DEF Copy
  <2>4. Outcome(CopyRun(src, dest, mode), disk, Tracked)
    BY <1>1, CopyRunIs
  <2>5. QED BY <2>2, <2>3, <2>4, ToolIInv
<1>5. CASE Browse
  <2>1. (Start(LsRun) \/ Start(InspectRun)) /\ UNCHANGED <<disk, health>>
    BY <1>5 DEF Browse
  <2>2. Outcome(LsRun, disk, Tracked) /\ Outcome(InspectRun, disk, Tracked)
    BY <1>1, BrowseRunIs
  <2>3. QED BY <2>1, <2>2, ToolIInv
<1>6. CASE WriteBlock
  BY <1>6, WriteBlockIInv
<1>7. CASE Die
  BY <1>7, DieIInv
<1>8. CASE UNCHANGED vars
  <2>1. disk' = disk /\ todo' = todo /\ ending' = ending /\ health' = health /\ runs' = runs
    BY <1>8 DEF vars
  <2>2. Tracked' = Tracked
    BY <2>1 DEF Tracked
  <2>3. Tells(todo)' <=> Tells(todo)
    BY <2>1 DEF Tells, Before
  <2>4. QED BY <2>1, <2>2, <2>3 DEF IInv
<1>9. QED BY <1>2, <1>3, <1>4, <1>5, <1>6, <1>7, <1>8 DEF Next

(* IInv holds in every state, for every geometry, whatever the images,     *)
(* paths, sources and garbage, and however often the tools are run and     *)
(* killed.                                                                 *)
THEOREM Invariance == Spec => []IInv
<1>1. Init => IInv
  BY InitIInv
<1>2. IInv /\ [Next]_vars => IInv'
  BY NextIInv
<1>3. QED BY <1>1, <1>2, PTL DEF Spec

(* Every inode on the device has its type and no file outgrows its zones,  *)
(* at whichever write a tool is killed (Tools!TypeOK).                     *)
THEOREM TypeCorrect == Spec => []TypeOK
<1>1. IInv => TypeOK
  <2> SUFFICES ASSUME IInv PROVE TypeOK
    OBVIOUS
  <2>1. disk \in Volume
    BY DEF IInv, Good
  <2>2. /\ disk.valid \in BOOLEAN /\ disk.clean \in BOOLEAN /\ disk.free \subseteq Block
        /\ disk.ino \in [Inum -> InodeRecord]
    BY <2>1, VolumeParts
  <2>3. QED BY <2>2 DEF IInv, TypeOK
<1>2. QED BY <1>1, Invariance, PTL

(* No two zones or addresses on the device lead to the same block and none *)
(* leads to a free one, at whichever write a tool is killed, with any      *)
(* number of runs of mkfs, mkdir and copy before (Tools!NoSharedBlock).    *)
THEOREM BlocksNotShared == Spec => []NoSharedBlock
<1>1. IInv => NoSharedBlock
  <2> SUFFICES ASSUME IInv PROVE NoSharedBlock
    OBVIOUS
  <2>1. Sound(disk)
    BY DEF IInv, Good
  <2>2. \A x \in InUse(disk) : x \in Slot /\ Owned(disk, x) # 0
    BY DEF InUse, Slot
  <2>3. QED BY <2>1, <2>2 DEF Sound, NoSharedBlock
<1>2. QED BY <1>1, Invariance, PTL

(* An inode on the device has a block for every cell below its size        *)
(* (Tools!NoHoles), so that fs_read never allocates one.                   *)
THEOREM FilesHaveNoHoles == Spec => []NoHoles
<1>1. IInv => NoHoles
  <2> SUFFICES ASSUME IInv, NEW i \in Inum, NEW off \in 0 .. disk.ino[i].size - 1
               PROVE  BlockAt(disk, disk.ino[i], off \div CPB) # 0
    BY DEF NoHoles
  <2>1. disk \in Volume /\ NoHole(disk)
    BY DEF IInv, Good
  <2>2. disk.ino[i].size \in 0 .. MaxCells
    BY <2>1, VolumeParts, InodeParts
  <2>3. off \div CPB \in 0 .. NDir + NInd - 1
    BY <2>2, SlotOf
  <2>4. Owned(disk, <<i, off \div CPB>>) = BlockAt(disk, disk.ino[i], off \div CPB)
    BY <2>3, OwnedIs
  <2>5. QED BY <2>1, <2>4 DEF NoHole
<1>2. QED BY <1>1, Invariance, PTL

(* As long as every run reached its end, each block is free or some inode  *)
(* leads to it (Tools!NothingLost).                                        *)
THEOREM NoBlockLost == Spec => []NothingLost
<1>1. IInv => NothingLost
  <2> SUFFICES ASSUME IInv, health = "whole"
               PROVE  disk.free \union {Owned(disk, x) : x \in InUse(disk)} = Block
    BY DEF NothingLost
  <2>1. disk \in Volume /\ Sound(disk) /\ Full(disk)
    BY DEF IInv, Good, Whole
  <2>2. \A x : x \in InUse(disk) <=> x \in Slot /\ Owned(disk, x) # 0
    BY DEF InUse, Slot
  <2>3. disk.free \subseteq Block
    BY <2>1, VolumeParts
  <2>4. \A x \in InUse(disk) : Owned(disk, x) \in Block
    BY <2>1, <2>2 DEF Sound, Zone
  <2>5. \A b \in Block : b \in disk.free \/ \E x \in InUse(disk) : Owned(disk, x) = b
    BY <2>1, <2>2, Geometry DEF Full
  <2>6. QED BY <2>3, <2>4, <2>5
<1>2. QED BY <1>1, Invariance, PTL

(* The entries that LinkCounts counts are those of Named.                  *)
LEMMA NamedCells ==
  ASSUME NEW d \in Volume, NEW i
  PROVE  {e \in Entries(d) : Cells(d, e[1])[e[2]].n = i} = Named(d, i)
<1>1. ASSUME NEW e \in Entries(d)
      PROVE  Cells(d, e[1])[e[2]] = CellAt(d, d.ino[e[1]], e[2] - 1)
  <2>1. e \in Inum \X (1 .. MaxCells) /\ e[2] <= d.ino[e[1]].size
    BY EntryIs
  <2>2. e[2] \in 1 .. d.ino[e[1]].size
    <3>1. e[1] \in Inum /\ e[2] \in Nat /\ e[2] >= 1
      BY <2>1, Geometry
    <3>2. d.ino[e[1]].size \in Nat
      BY <3>1, VolumeParts, InodeParts
    <3>3. QED BY <2>1, <3>1, <3>2
  <2>3. QED BY <2>2 DEF Cells
<1>2. QED BY <1>1 DEF Named

(* No inode counts more links than it has entries, whichever write a tool  *)
(* is killed at, and exactly as many as long as every run reached its end  *)
(* (Tools!LinkCounts).                                                     *)
THEOREM LinksCounted == Spec => []LinkCounts
<1>1. IInv => LinkCounts
  <2> SUFFICES ASSUME IInv, health \notin {"raw", "lost"}, NEW i \in Inum
               PROVE  LET N == {e \in Entries(disk) : Cells(disk, e[1])[e[2]].n = i} IN
                        /\ disk.ino[i].nlink <= Cardinality(N)
                        /\ health = "whole" => disk.ino[i].nlink = Cardinality(N)
    BY DEF LinkCounts
  <2>1. disk \in Volume /\ Linked(disk)
    BY DEF IInv, Good, Tracked
  <2>2. health = "whole" => Exact(disk)
    BY DEF IInv, Whole
  <2>3. {e \in Entries(disk) : Cells(disk, e[1])[e[2]].n = i} = Named(disk, i)
    BY <2>1, NamedCells
  <2>4. QED BY <2>1, <2>2, <2>3 DEF Linked, Exact
<1>2. QED BY <1>1, Invariance, PTL

(* The image that was never formatted shows nothing.                       *)
LEMMA TreeInit == Init => Tree!Init
BY DEF Init, Tree!Init, Listing

(* A write of a formatted volume shows nothing new, or a complete entry    *)
(* more; the last write of mkfs shows an empty root directory.             *)
LEMMA WriteBlockShows ==
  ASSUME IInv, IInv', WriteBlock
  PROVE  \/ Listing' = <<>> \/ Listing' = Listing
         \/ \E c \in CompleteEntries : Listing' = Append(Listing, c)
<1>1. Listing = IF Tracked THEN Visible(disk) ELSE <<>>
  BY DEF Listing, Tracked
<1>2. Listing' = IF Tracked' THEN Visible(disk') ELSE <<>>
  BY DEF Listing, Tracked
<1>3. CASE ~ Tracked'
  BY <1>2, <1>3
<1>4. CASE Tracked /\ Tracked'
  <2>1. /\ todo # <<>> /\ todo \in Seq(Volume) /\ disk' = todo[1] /\ Tells(todo)
    BY <1>4 DEF WriteBlock, IInv
  <2>2. 1 \in 1 .. Len(todo)
    BY <2>1
  <2>3. Follows(disk, disk')
    BY <2>1, <2>2 DEF Tells, Before
  <2>4. QED BY <1>1, <1>2, <1>4, <2>3 DEF Follows
<1>5. CASE ~ Tracked /\ Tracked'
  <2>1. todo # <<>> /\ todo \in Seq(Volume) /\ disk' = Head(todo)
    BY DEF WriteBlock, IInv
  <2>2. health = "raw" /\ Len(todo) = 1 /\ ending = "format"
    BY <1>5, <2>1 DEF WriteBlock, Tracked, IInv
  <2>3. disk' = Lasting(todo)
    BY <2>1, <2>2 DEF Lasting
  <2>4. Visible(disk') = <<>>
    BY <2>1, <2>2, <2>3 DEF IInv
  <2>5. QED BY <1>2, <1>5, <2>4
<1>6. QED BY <1>3, <1>4, <1>5

(* Every step shows nothing new, one complete entry more, or an empty root *)
(* directory.                                                              *)
LEMMA TreeStep == IInv /\ IInv' /\ [Next]_vars => [Tree!Next]_Listing
<1> SUFFICES ASSUME IInv, IInv', [Next]_vars PROVE [Tree!Next]_Listing
  OBVIOUS
<1>1. CASE WriteBlock
  BY <1>1, WriteBlockShows DEF Tree!Next, Tree!Format, Tree!Add
<1>2. CASE Mkfs
  <2>1. Listing' = <<>>
    BY <1>2 DEF Mkfs, Listing
  <2>2. QED BY <2>1 DEF Tree!Next, Tree!Format
<1>3. CASE Mkdir \/ Copy \/ Browse \/ UNCHANGED vars
  <2>1. disk' = disk /\ health' = health
    BY <1>3 DEF Mkdir, Copy, Browse, vars
  <2>2. QED BY <2>1 DEF Listing
<1>4. CASE Die
  <2>1. disk' = disk /\ health' = IF health = "busy" THEN "torn" ELSE health
    BY <1>4 DEF Die
  <2>2. QED BY <2>1 DEF Listing
<1>5. QED BY <1>1, <1>2, <1>3, <1>4 DEF Next

(* Whatever write a tool is killed at, the root directory shows the entry  *)
(* that it was to make complete or not at all, no entry ever changes, and  *)
(* only mkfs removes one: Tools implements Namespace                       *)
(* (Tools!RefinesNamespace), for every geometry and every images, paths    *)
(* and sources.                                                            *)
THEOREM ImplementsNamespace == Spec => RefinesNamespace
<1>1. Init => Tree!Init
  BY TreeInit
<1>2. IInv /\ IInv' /\ [Next]_vars => [Tree!Next]_Listing
  BY TreeStep
<1>3. QED BY <1>1, <1>2, Invariance, PTL DEF Spec, RefinesNamespace, Tree!Spec
=============================================================================
