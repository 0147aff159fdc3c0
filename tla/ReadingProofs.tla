---------------------------- MODULE ReadingProofs ----------------------------
(* Theorems about what MCReading reads, for any values of its constants.   *)
EXTENDS MCReading, FiniteSetTheorems, TLAPS

\* A step is one of the part that behaves, which stays the same.
LEMMA OneService ==
  ASSUME [Next]_vars
  PROVE  /\ service' = service
         /\ service = "pins" => [Pins!Next]_pinsVars
         /\ service = "calendar" => [Pins!NextDay]_today
         /\ service = "folder" => [Folders!Next]_folderVars
         /\ service = "list" => [List!Next]_listVars
         /\ service = "pivot" => [Grid!Next]_pivotVars
         /\ service = "join" => [Joins!Next]_joinVars
         /\ service = "formula" => [Computed!Next]_formulaVars
BY DEF Next, vars, pinsVars

LEMMA OneServiceAtFirst ==
  ASSUME Init
  PROVE  /\ service = "pins" => Pins!Init
         /\ service = "calendar" => FirstOfDays
         /\ service = "folder" => Folders!Init
         /\ service = "list" => List!Init
         /\ service = "pivot" => Grid!Init
         /\ service = "join" => Joins!Init
         /\ service = "formula" => Computed!Init
BY DEF Init

-----------------------------------------------------------------------------
\* Numbers, and sets made one after the other

\* Every set of numbers has a least one.
LEMMA LeastNat ==
  ASSUME NEW S \in SUBSET Nat, S # {}
  PROVE  \E n \in S : \A m \in S : n <= m
<1> DEFINE R == OpToRel(<, Nat)
<1>1. IsWellFoundedOn(R, Nat)
  BY NatLessThanWellFounded DEF OpToRel
<1> HIDE DEF R
<1>2. PICK n \in S : \A m \in S : ~(<<m, n>> \in R)
  BY <1>1, WFMin
<1>3. ASSUME NEW m \in S PROVE n <= m
  <2>1. ~(<<m, n>> \in R)
    BY <1>2
  <2>2. m \in Nat /\ n \in Nat
    OBVIOUS
  <2>3. ~(m < n)
    BY <2>1, <2>2 DEF R, OpToRel
  <2> QED
    BY <2>2, <2>3
<1> QED
  BY <1>3

\* Induction, for the set of the numbers with a property.
LEMMA ByInduction ==
  ASSUME NEW S, 0 \in S, \A n \in Nat : n \in S => n + 1 \in S
  PROVE  \A n \in Nat : n \in S
<1> SUFFICES ASSUME Nat \ S # {} PROVE FALSE
  OBVIOUS
<1>1. PICK n \in Nat \ S : \A m \in Nat \ S : n <= m
  BY LeastNat
<1>2. n # 0 /\ n - 1 \in Nat /\ n - 1 < n
  OBVIOUS
<1>3. n - 1 \in S
  BY <1>1, <1>2
<1> QED
  BY <1>2, <1>3

\* A step on the sets in T, and the sets it makes from A, one after the other.
Growing(T, A, G) ==
  /\ IsFiniteSet(T) /\ A \in SUBSET T /\ G \in [SUBSET T -> SUBSET T]
  /\ \A X \in SUBSET T : X \subseteq G[X]
Made(T, A, G, k, c) == c \in [0..k -> SUBSET T] /\ c[0] = A /\ \A n \in 1..k : c[n] = G[c[n - 1]]
Kept(T, A, G, X) == A \subseteq X /\ \A Y \in SUBSET T : Y \subseteq X => G[Y] \subseteq X

LEMMA StepsExist ==
  ASSUME NEW T, NEW A, NEW G, Growing(T, A, G), NEW k \in Nat
  PROVE  \E c : Made(T, A, G, k, c)
<1> DEFINE S == {n \in Nat : \E c : Made(T, A, G, n, c)}
<1>1. 0 \in S
  <2>1. Made(T, A, G, 0, [n \in 0..0 |-> A])
    BY DEF Growing, Made
  <2> QED
    BY <2>1
<1>2. ASSUME NEW n \in Nat, n \in S PROVE n + 1 \in S
  <2>1. PICK c : Made(T, A, G, n, c)
    BY <1>2
  <2> DEFINE d == [i \in 0..(n + 1) |-> IF i = n + 1 THEN G[c[n]] ELSE c[i]]
  <2>2. \A i \in 0..(n + 1) : i = n + 1 \/ i \in 0..n
    OBVIOUS
  <2>3. c[n] \in SUBSET T /\ G[c[n]] \in SUBSET T
    BY <2>1 DEF Growing, Made
  <2>4. d \in [0..(n + 1) -> SUBSET T] /\ d[0] = A
    BY <2>1, <2>2, <2>3 DEF Made
  <2>5. ASSUME NEW i \in 1..(n + 1) PROVE d[i] = G[d[i - 1]]
    <3>1. i - 1 \in 0..n /\ i - 1 # n + 1 /\ d[i - 1] = c[i - 1]
      OBVIOUS
    <3>2. CASE i = n + 1
      BY <3>1, <3>2
    <3>3. CASE i # n + 1
      BY <2>1, <3>1, <3>3 DEF Made
    <3> QED
      BY <3>2, <3>3
  <2> HIDE DEF d
  <2>6. Made(T, A, G, n + 1, d)
    BY <2>4, <2>5 DEF Made
  <2> QED
    BY <2>6
<1> HIDE DEF S
<1>3. k \in S
  BY <1>1, <1>2, ByInduction
<1> QED
  BY <1>3 DEF S

\* In a finite set they stop growing after as many steps as there is room for.
LEMMA StepsStop ==
  ASSUME NEW T, NEW A, NEW G, Growing(T, A, G), NEW k \in Nat, Cardinality(T) <= k + Cardinality(A),
         NEW c, Made(T, A, G, k, c)
  PROVE  A \subseteq c[k] /\ c[k] \in SUBSET T /\ G[c[k]] = c[k]
<1> DEFINE S == {n \in Nat : n <= k => A \subseteq c[n] /\ (G[c[n]] = c[n] \/ Cardinality(A) + n <= Cardinality(c[n]))}
<1>1. \A X \in SUBSET T : IsFiniteSet(X) /\ Cardinality(X) \in Nat /\ Cardinality(X) <= Cardinality(T)
  BY FS_Subset, FS_CardinalityType DEF Growing
<1>2. ASSUME NEW X \in SUBSET T, NEW Y \in SUBSET T, X \subseteq Y, X # Y
      PROVE  Cardinality(X) < Cardinality(Y)
  <2>1. Cardinality(X) <= Cardinality(Y) /\ Cardinality(X) # Cardinality(Y)
    BY <1>1, <1>2, FS_Subset
  <2> QED
    BY <1>1, <2>1
<1>3. 0 \in S
  BY <1>1 DEF Growing, Made
<1>4. ASSUME NEW n \in Nat, n \in S PROVE n + 1 \in S
  <2> SUFFICES ASSUME n + 1 <= k
               PROVE  /\ A \subseteq c[n + 1]
                      /\ G[c[n + 1]] = c[n + 1] \/ Cardinality(A) + (n + 1) <= Cardinality(c[n + 1])
    OBVIOUS
  <2>1. n \in 0..k /\ n + 1 \in 1..k /\ n + 1 \in 0..k /\ (n + 1) - 1 = n /\ n <= k
    OBVIOUS
  <2>2. c[n] \in SUBSET T /\ c[n + 1] \in SUBSET T /\ c[n + 1] = G[c[n]] /\ A \subseteq c[n]
        /\ c[n] \subseteq c[n + 1]
    BY <1>4, <2>1 DEF Growing, Made
  <2>3. CASE G[c[n]] = c[n]
    BY <2>2, <2>3
  <2>4. CASE G[c[n]] # c[n]
    <3>1. Cardinality(A) + n <= Cardinality(c[n])
      BY <1>4, <2>1, <2>4
    <3>2. Cardinality(c[n]) < Cardinality(c[n + 1])
      BY <1>2, <2>2, <2>4
    <3>3. Cardinality(A) \in Nat /\ Cardinality(c[n]) \in Nat /\ Cardinality(c[n + 1]) \in Nat
      BY <1>1, <2>2 DEF Growing
    <3> QED
      BY <2>2, <3>1, <3>2, <3>3
  <2> QED
    BY <2>3, <2>4
<1> HIDE DEF S
<1>5. k \in S
  BY <1>3, <1>4, ByInduction
<1>6. c[k] \in SUBSET T /\ G[c[k]] \in SUBSET T /\ c[k] \subseteq G[c[k]]
  BY DEF Growing, Made
<1>7. CASE Cardinality(A) + k <= Cardinality(c[k])
  <2>1. Cardinality(A) \in Nat /\ Cardinality(T) \in Nat
    BY <1>1 DEF Growing
  <2>2. ~(Cardinality(c[k]) < Cardinality(T))
    BY <1>1, <1>6, <1>7, <2>1
  <2>3. c[k] = T
    BY <1>2, <1>6, <2>2
  <2> QED
    BY <1>5, <1>6, <2>3 DEF S
<1> QED
  BY <1>5, <1>6, <1>7 DEF S

\* They stay in every set that has the first one and keeps what a step makes.
LEMMA StepsWithin ==
  ASSUME NEW T, NEW A, NEW G, NEW k \in Nat, NEW c, Made(T, A, G, k, c), NEW X, Kept(T, A, G, X)
  PROVE  c[k] \subseteq X
<1> DEFINE S == {n \in Nat : n <= k => c[n] \subseteq X}
<1>1. 0 \in S
  BY DEF Made, Kept
<1>2. ASSUME NEW n \in Nat, n \in S PROVE n + 1 \in S
  <2> SUFFICES ASSUME n + 1 <= k PROVE c[n + 1] \subseteq X
    OBVIOUS
  <2>1. n \in 0..k /\ n + 1 \in 1..k /\ (n + 1) - 1 = n /\ n <= k
    OBVIOUS
  <2> QED
    BY <1>2, <2>1 DEF Made, Kept
<1> HIDE DEF S
<1>3. k \in S
  BY <1>1, <1>2, ByInduction
<1> QED
  BY <1>3 DEF S

\* A function that obeys the recursion, as far as its values are sets in T, has these values.
LEMMA StepsAreMade ==
  ASSUME NEW T, NEW A, NEW G, Growing(T, A, G), NEW k \in Nat,
         NEW b, b[0] = A, \A n \in 1..k : b[n - 1] \in SUBSET T => b[n] = G[b[n - 1]]
  PROVE  \E c : Made(T, A, G, k, c) /\ b[k] = c[k]
<1>1. PICK c : Made(T, A, G, k, c)
  BY StepsExist
<1> DEFINE S == {n \in Nat : n <= k => b[n] = c[n]}
<1>2. 0 \in S
  BY <1>1 DEF Made
<1>3. ASSUME NEW n \in Nat, n \in S PROVE n + 1 \in S
  <2> SUFFICES ASSUME n + 1 <= k PROVE b[n + 1] = c[n + 1]
    OBVIOUS
  <2>1. n \in 0..k /\ n + 1 \in 1..k /\ (n + 1) - 1 = n /\ n <= k
    OBVIOUS
  <2>2. b[n] = c[n] /\ c[n] \in SUBSET T
    BY <1>1, <1>3, <2>1 DEF Made
  <2>3. b[n + 1] = G[b[n]] /\ c[n + 1] = G[c[n]]
    BY <1>1, <2>1, <2>2 DEF Made
  <2> QED
    BY <2>2, <2>3
<1> HIDE DEF S
<1>4. k \in S
  BY <1>2, <1>3, ByInduction
<1> QED
  BY <1>1, <1>4 DEF S

-----------------------------------------------------------------------------
\* Folders of reports

LEMMA FolderCounts ==
  /\ \A S : Folders!Cardinality(S) = Cardinality(S)
  /\ \A S : Folders!IsFiniteSet(S) <=> IsFiniteSet(S)
BY DEF Folders!Cardinality, Cardinality, Folders!IsFiniteSet, IsFiniteSet

LEMMA FolderConstants ==
  IsFiniteSet(Folder) /\ Root \notin Folder /\ Reader \in FolderOwner /\ MaxMoves \in Nat
BY ReadingAssumption, FolderCounts DEF Folders!FolderAssumption

\* The tree of a set of folders is the least that has the roots and all below its members.
LEMMA TreeIs ==
  ASSUME NEW S, IsFiniteSet(S)
  PROVE  /\ Folders!build_folder_tree(S) \subseteq S
         /\ \A f \in S : folders[f].parent \notin S => f \in Folders!build_folder_tree(S)
         /\ \A f \in S : folders[f].parent \in Folders!build_folder_tree(S) => f \in Folders!build_folder_tree(S)
<1> DEFINE k == Folders!Cardinality(S)
           A == {f \in S : folders[f].parent \notin S}
           Below(X) == {f \in S : folders[f].parent \in X}
           G == [X \in SUBSET S |-> X \cup Below(X)]
           Is(h) == h = [n \in 0..k |-> IF n = 0 THEN A ELSE h[n - 1] \cup Below(h[n - 1])]
           b == CHOOSE h : Is(h)
<1>1. Folders!build_folder_tree(S) = b[k]
  BY DEF Folders!build_folder_tree
<1>2. k = Cardinality(S) /\ k \in Nat
  BY FolderCounts, FS_CardinalityType
<1>3. A \in SUBSET S /\ Cardinality(A) \in Nat /\ G \in [SUBSET S -> SUBSET S]
  BY FS_Subset, FS_CardinalityType
<1>4. \A X \in SUBSET S : X \subseteq G[X] /\ G[X] = X \cup Below(X)
  OBVIOUS
<1> HIDE DEF k, A, G
<1>0. Growing(S, A, G)
  BY <1>3, <1>4 DEF Growing
<1>5. Is(b)
  <2>1. PICK c : Made(S, A, G, k, c)
    BY <1>0, <1>2, StepsExist
  <2>2. ASSUME NEW n \in 0..k, n # 0 PROVE c[n] = c[n - 1] \cup Below(c[n - 1])
    <3>1. n \in 1..k /\ n - 1 \in 0..k
      BY <1>2, <2>2
    <3> QED
      BY <1>4, <2>1, <3>1 DEF Made
  <2>3. Is(c)
    BY <2>1, <2>2 DEF Made
  <2> HIDE DEF Is
  <2> QED
    BY <2>3
<1> HIDE DEF b
<1>6. b[0] = A /\ \A n \in 1..k : b[n] = b[n - 1] \cup Below(b[n - 1])
  BY <1>2, <1>5
<1>7. \A n \in 1..k : b[n - 1] \in SUBSET S => b[n] = G[b[n - 1]]
  BY <1>4, <1>6
<1>8. Cardinality(S) <= k + Cardinality(A)
  BY <1>2, <1>3
<1>9. A \subseteq b[k] /\ b[k] \in SUBSET S /\ G[b[k]] = b[k]
  <2>1. PICK c : Made(S, A, G, k, c) /\ b[k] = c[k]
    BY <1>0, <1>2, <1>6, <1>7, StepsAreMade
  <2> QED
    BY <1>0, <1>2, <1>8, <2>1, StepsStop
<1>10. Below(b[k]) \subseteq b[k]
  BY <1>4, <1>9
<1> QED
  BY <1>1, <1>9, <1>10 DEF A

\* What a reader is to see: the folders at the top and all below.
Top == {f \in Folder : Folders!Here(f) /\ (folders[f].owner = Reader \/ shares[f] # "none")}

LEMMA ReachableIs ==
  /\ Top \subseteq Folders!Reachable /\ Folders!Reachable \subseteq Folder
  /\ Folders!Children(Folders!Reachable) \subseteq Folders!Reachable
  /\ \A X : Top \subseteq X /\ Folders!Children(X) \subseteq X => Folders!Reachable \subseteq X
<1> DEFINE k == Folders!Cardinality(Folder)
           G == [X \in SUBSET Folder |-> X \cup Folders!Children(X)]
           Is(h) == h = [n \in 0..k |-> IF n = 0 THEN Top ELSE h[n - 1] \cup Folders!Children(h[n - 1])]
           b == CHOOSE h : Is(h)
<1>1. Folders!Reachable = b[k]
  BY DEF Folders!Reachable, Top
<1>2. k = Cardinality(Folder) /\ k \in Nat /\ IsFiniteSet(Folder)
  BY FolderCounts, FolderConstants, FS_CardinalityType
<1>3. Top \in SUBSET Folder /\ Cardinality(Top) \in Nat
  BY <1>2, FS_Subset, FS_CardinalityType DEF Top
<1>4. \A X : Folders!Children(X) \in SUBSET Folder
  BY DEF Folders!Children
<1>5. \A X \in SUBSET Folder : X \subseteq G[X] /\ G[X] = X \cup Folders!Children(X)
  OBVIOUS
<1>6. Growing(Folder, Top, G)
  BY <1>2, <1>3, <1>4, <1>5 DEF Growing
<1> HIDE DEF k, G
<1>7. Is(b)
  <2>1. PICK c : Made(Folder, Top, G, k, c)
    BY <1>2, <1>6, StepsExist
  <2>2. ASSUME NEW n \in 0..k, n # 0 PROVE c[n] = c[n - 1] \cup Folders!Children(c[n - 1])
    <3>1. n \in 1..k /\ n - 1 \in 0..k
      BY <1>2, <2>2
    <3> QED
      BY <1>5, <2>1, <3>1 DEF Made
  <2>3. Is(c)
    BY <2>1, <2>2 DEF Made
  <2> HIDE DEF Is
  <2> QED
    BY <2>3
<1> HIDE DEF b
<1>8. b[0] = Top /\ \A n \in 1..k : b[n] = b[n - 1] \cup Folders!Children(b[n - 1])
  <2>1. \A n \in 0..k : b[n] = IF n = 0 THEN Top ELSE b[n - 1] \cup Folders!Children(b[n - 1])
    BY <1>7, Zenon
  <2>2. 0 \in 0..k /\ \A n \in 1..k : n \in 0..k /\ n # 0
    BY <1>2
  <2> QED
    BY <2>1, <2>2, Zenon
<1>9. PICK c : Made(Folder, Top, G, k, c) /\ b[k] = c[k]
  <2>1. \A n \in 1..k : b[n - 1] \in SUBSET Folder => b[n] = G[b[n - 1]]
    BY <1>5, <1>8
  <2> QED
    BY <1>2, <1>6, <1>8, <2>1, StepsAreMade
<1>10. Cardinality(Folder) <= k + Cardinality(Top)
  BY <1>2, <1>3
<1>11. Top \subseteq c[k] /\ c[k] \in SUBSET Folder /\ G[c[k]] = c[k]
  BY <1>2, <1>6, <1>9, <1>10, StepsStop
<1>12. Folders!Children(c[k]) \subseteq c[k]
  BY <1>5, <1>11
<1>13. ASSUME NEW X, Top \subseteq X, Folders!Children(X) \subseteq X PROVE c[k] \subseteq X
  <2>1. \A Y : Y \subseteq X => Folders!Children(Y) \subseteq Folders!Children(X)
    BY DEF Folders!Children
  <2>2. Kept(Folder, Top, G, X)
    BY <1>5, <1>13, <2>1 DEF Kept
  <2> QED
    BY <1>2, <1>9, <2>2, StepsWithin
<1> QED
  BY <1>1, <1>9, <1>11, <1>12, <1>13

\* The folders around a folder: the least set that has it and the parents of all in it.
LEMMA AncestorsAre ==
  ASSUME folders \in [Folder -> Folders!Live], NEW f \in Folder
  PROVE  /\ f \in Folders!Ancestors(f) /\ Folders!Ancestors(f) \subseteq Folder
         /\ \A g \in Folders!Ancestors(f) : folders[g].parent \in Folders!Ancestors(f) \cup {Root}
         /\ \A X : f \in X /\ (\A g \in X \cap Folder : folders[g].parent \in X \cup {Root}) => Folders!Ancestors(f) \subseteq X
<1> DEFINE k == Folders!Cardinality(Folder)
           T == Folder \cup {Root}
           A == {f}
           Up(X) == {folders[g].parent : g \in X \ {Root}}
           G == [X \in SUBSET T |-> X \cup Up(X)]
           Is(h) == h = [n \in 0..k |-> IF n = 0 THEN A ELSE h[n - 1] \cup Up(h[n - 1])]
           b == CHOOSE h : Is(h)
<1>1. Folders!Ancestors(f) = b[k] \ {Root}
  BY DEF Folders!Ancestors
<1>2. k = Cardinality(Folder) /\ k \in Nat /\ IsFiniteSet(Folder) /\ Root \notin Folder
  BY FolderCounts, FolderConstants, FS_CardinalityType
<1>3. IsFiniteSet(T) /\ Cardinality(T) = k + 1
  BY <1>2, FS_AddElement
<1>4. A \in SUBSET T /\ Cardinality(A) = 1
  BY FS_Singleton
<1>5. \A g \in Folder : folders[g].parent \in T
  BY DEF Folders!Live
<1>6. \A X \in SUBSET T : Up(X) \in SUBSET T
  BY <1>5
<1>7. \A X \in SUBSET T : X \subseteq G[X] /\ G[X] = X \cup Up(X)
  OBVIOUS
<1>8. Growing(T, A, G)
  BY <1>3, <1>4, <1>6, <1>7 DEF Growing
<1> HIDE DEF k, G, T, A
<1>9. Is(b)
  <2>1. PICK c : Made(T, A, G, k, c)
    BY <1>2, <1>8, StepsExist
  <2>2. ASSUME NEW n \in 0..k, n # 0 PROVE c[n] = c[n - 1] \cup Up(c[n - 1])
    <3>1. n \in 1..k /\ n - 1 \in 0..k
      BY <1>2, <2>2
    <3> HIDE DEF Up
    <3> QED
      BY <1>7, <2>1, <3>1 DEF Made
  <2>3. Is(c)
    BY <2>1, <2>2 DEF Made
  <2> HIDE DEF Is
  <2> QED
    BY <2>3
<1> HIDE DEF b
<1>10. b[0] = A /\ \A n \in 1..k : b[n] = b[n - 1] \cup Up(b[n - 1])
  <2>1. \A n \in 0..k : b[n] = IF n = 0 THEN A ELSE b[n - 1] \cup Up(b[n - 1])
    BY <1>9, Zenon
  <2>2. 0 \in 0..k /\ \A n \in 1..k : n \in 0..k /\ n # 0
    BY <1>2
  <2> QED
    BY <2>1, <2>2, Zenon
<1>11. PICK c : Made(T, A, G, k, c) /\ b[k] = c[k]
  <2> HIDE DEF Up
  <2>1. \A n \in 1..k : b[n - 1] \in SUBSET T => b[n] = G[b[n - 1]]
    BY <1>7, <1>10
  <2> QED
    BY <1>2, <1>8, <1>10, <2>1, StepsAreMade
<1>12. A \subseteq c[k] /\ c[k] \in SUBSET T /\ G[c[k]] = c[k]
  <2>1. Cardinality(T) <= k + Cardinality(A)
    BY <1>2, <1>3, <1>4
  <2> QED
    BY <1>2, <1>8, <1>11, <2>1, StepsStop
<1>13. Up(c[k]) \subseteq c[k]
  <2> HIDE DEF Up
  <2> QED
    BY <1>7, <1>12
<1>14. ASSUME NEW X, f \in X, \A g \in X \cap Folder : folders[g].parent \in X \cup {Root}
       PROVE  c[k] \subseteq X \cup {Root}
  <2>1. ASSUME NEW Y \in SUBSET T, Y \subseteq X \cup {Root} PROVE G[Y] \subseteq X \cup {Root}
    <3>1. Y \ {Root} \subseteq X \cap Folder
      BY <2>1 DEF T
    <3>2. Up(Y) \subseteq X \cup {Root}
      BY <1>14, <3>1
    <3> HIDE DEF Up
    <3> QED
      BY <1>7, <2>1, <3>2
  <2>2. Kept(T, A, G, X \cup {Root})
    BY <1>14, <2>1 DEF Kept, A
  <2> QED
    BY <1>2, <1>11, <2>2, StepsWithin
<1>15. f # Root /\ c[k] \ {Root} \subseteq Folder
  BY <1>2, <1>12 DEF T, A
<1>16. \A g \in c[k] \ {Root} : folders[g].parent \in c[k]
  BY <1>13
<1> HIDE DEF Up
<1> QED
  BY <1>1, <1>11, <1>12, <1>14, <1>15, <1>16 DEF A

LEMMA SeqOfSet ==
  ASSUME NEW S, IsFiniteSet(S)
  PROVE  /\ Folders!SetToSeq(S) \in Seq(S) /\ Len(Folders!SetToSeq(S)) = Cardinality(S)
         /\ Folders!ToSet(Folders!SetToSeq(S)) = S
<1> DEFINE k == Folders!Cardinality(S)
           s == Folders!SetToSeq(S)
<1>1. k = Cardinality(S) /\ k \in Nat
  BY FolderCounts, FS_CardinalityType
<1>2. PICK h \in Bijection(1..k, S) : TRUE
  BY <1>1, FS_CardinalityType DEF ExistsBijection
<1>3. h \in [1..k -> S] /\ Folders!IsInjective(h)
  BY <1>2 DEF Bijection, Injection, IsInjective, Folders!IsInjective
<1>4. s \in [1..k -> S] /\ Folders!IsInjective(s)
  BY <1>3 DEF Folders!SetToSeq
<1> HIDE DEF k, s
<1>5. s \in Injection(1..k, S)
  BY <1>4 DEF Injection, IsInjective, Folders!IsInjective
<1>6. IsFiniteSet(1..k) /\ Cardinality(1..k) = k
  BY <1>1, FS_Interval
<1>7. s \in Surjection(1..k, S)
  BY <1>1, <1>5, <1>6, FS_Injection
<1>8. s \in Seq(S) /\ Len(s) = k /\ DOMAIN s = 1..k
  BY <1>1, <1>4
<1>9. Folders!ToSet(s) = S
  BY <1>4, <1>7, <1>8 DEF Surjection, Folders!ToSet
<1> QED
  BY <1>1, <1>8, <1>9 DEF s

\* More folders, none of them listed before.
LEMMA MoreFolders ==
  ASSUME NEW s \in Seq(Folder), Folders!Cardinality(Folders!ToSet(s)) = Len(s),
         NEW more \in SUBSET Folder, more \cap Folders!ToSet(s) = {}
  PROVE  /\ s \o Folders!SetToSeq(more) \in Seq(Folder)
         /\ Folders!ToSet(s \o Folders!SetToSeq(more)) = Folders!ToSet(s) \cup more
         /\ Folders!Cardinality(Folders!ToSet(s) \cup more) = Len(s \o Folders!SetToSeq(more))
<1> DEFINE t == Folders!SetToSeq(more)
<1>1. IsFiniteSet(more)
  BY FolderConstants, FS_Subset
<1>2. t \in Seq(Folder) /\ Len(t) = Cardinality(more) /\ Folders!ToSet(t) = more
  BY <1>1, SeqOfSet
<1> HIDE DEF t
<1>3. Folders!ToSet(s \o t) = Folders!ToSet(s) \cup Folders!ToSet(t)
  <2>1. s \o t \in Seq(Folder) /\ Len(s \o t) = Len(s) + Len(t) /\ DOMAIN (s \o t) = 1..(Len(s) + Len(t))
    BY <1>2
  <2>2. \A i \in 1..(Len(s) + Len(t)) : (s \o t)[i] = IF i <= Len(s) THEN s[i] ELSE t[i - Len(s)]
    BY <1>2
  <2>3. DOMAIN s = 1..Len(s) /\ DOMAIN t = 1..Len(t) /\ Len(s) \in Nat /\ Len(t) \in Nat
    BY <1>2
  <2>4. ASSUME NEW f \in Folders!ToSet(s \o t) PROVE f \in Folders!ToSet(s) \cup Folders!ToSet(t)
    <3>1. PICK i \in 1..(Len(s) + Len(t)) : f = (s \o t)[i]
      BY <2>1 DEF Folders!ToSet
    <3>2. CASE i <= Len(s)
      <4>1. i \in 1..Len(s) /\ f = s[i]
        BY <2>2, <2>3, <3>1, <3>2
      <4> QED
        BY <2>3, <4>1 DEF Folders!ToSet
    <3>3. CASE i > Len(s)
      <4>1. i - Len(s) \in 1..Len(t) /\ f = t[i - Len(s)]
        BY <2>2, <2>3, <3>1, <3>3
      <4> QED
        BY <2>3, <4>1 DEF Folders!ToSet
    <3> QED
      BY <2>3, <3>2, <3>3
  <2>5. ASSUME NEW f \in Folders!ToSet(s) PROVE f \in Folders!ToSet(s \o t)
    <3>1. PICK i \in 1..Len(s) : f = s[i]
      BY <2>3 DEF Folders!ToSet
    <3>2. i \in 1..(Len(s) + Len(t)) /\ f = (s \o t)[i]
      BY <2>2, <2>3, <3>1
    <3> QED
      BY <2>1, <3>2 DEF Folders!ToSet
  <2>6. ASSUME NEW f \in Folders!ToSet(t) PROVE f \in Folders!ToSet(s \o t)
    <3>1. PICK i \in 1..Len(t) : f = t[i]
      BY <2>3 DEF Folders!ToSet
    <3>2. i + Len(s) \in 1..(Len(s) + Len(t)) /\ ~(i + Len(s) <= Len(s)) /\ (i + Len(s)) - Len(s) = i
      BY <2>3
    <3>3. f = (s \o t)[i + Len(s)]
      BY <2>2, <3>1, <3>2
    <3> QED
      BY <2>1, <3>2, <3>3 DEF Folders!ToSet
  <2> QED
    BY <2>4, <2>5, <2>6
<1>4. IsFiniteSet(Folders!ToSet(s)) /\ Folders!ToSet(s) \subseteq Folder
  <2>1. Folders!ToSet(s) \subseteq Folder
    BY DEF Folders!ToSet
  <2> QED
    BY <2>1, FolderConstants, FS_Subset
<1>5. Cardinality(Folders!ToSet(s) \cup more) = Cardinality(Folders!ToSet(s)) + Cardinality(more)
  <2>1. Cardinality(Folders!ToSet(s) \cap more) = 0
    BY FS_EmptySet
  <2>2. Cardinality(Folders!ToSet(s)) \in Nat /\ Cardinality(more) \in Nat
    BY <1>1, <1>4, FS_CardinalityType
  <2> QED
    BY <1>1, <1>4, <2>1, <2>2, FS_Union
<1>6. Len(s \o t) = Len(s) + Len(t) /\ s \o t \in Seq(Folder)
  BY <1>2
<1> QED
  BY <1>2, <1>3, <1>5, <1>6, FolderCounts DEF t

\* A request as it reads.  What it has found so far, unless somebody changed something meanwhile.
ListingOK ==
  /\ listing \in [at : {"idle", "shares", "shared", "level", "reports", "done"}, found : Seq(Folder),
                  named : SUBSET Folder, next : SUBSET Folder, reports : SUBSET Report, calm : BOOLEAN]
  /\ Folders!Cardinality(Folders!Listed) = Len(listing.found)
  /\ listing.at # "done" => listing.reports = {}
OwnFolders == {f \in Folder : Folders!Here(f) /\ folders[f].owner = Reader}
FoundSoFar ==
  LET L == Folders!Listed
      R == Folders!Reachable
      N == listing.next
  IN  /\ listing.at \in {"shares", "shared"} => L = OwnFolders
      /\ listing.at = "shared" => listing.named = {f \in Folder : shares[f] # "none"}
      /\ listing.at \in {"level", "reports"} => Top \subseteq L /\ L \subseteq R
      /\ listing.at = "level" => N \subseteq L /\ Folders!Children(L \ N) \subseteq L
      /\ listing.at = "reports" => Folders!Children(L) \subseteq L
      /\ listing.at = "done" => L = R /\ listing.reports = {r \in Report : reports[r] \in R}
FoldersInv == Folders!TypeOK /\ ListingOK /\ (listing.calm => FoundSoFar)

LEMMA ListingIsListed ==
  ASSUME Folders!Init
  PROVE  FoldersInv
<1>1. Folders!TypeOK
  BY ReadingAssumption DEF Folders!Init, Folders!TypeOK, Folders!FolderAssumption, Folders!Idle, Folders!Live
<1>2. ListingOK
  <2>1. Folders!Listed = {}
    BY DEF Folders!Init, Folders!Idle, Folders!Listed, Folders!ToSet
  <2> QED
    BY <2>1, FolderCounts, FS_EmptySet DEF Folders!Init, Folders!Idle, ListingOK
<1> QED
  BY <1>1, <1>2 DEF Folders!Init, Folders!Idle, FoldersInv, FoundSoFar

\* What is below more folders.
LEMMA ChildrenOf ==
  /\ \A A, B : Folders!Children(A \cup B) = Folders!Children(A) \cup Folders!Children(B)
  /\ \A A : Folders!Children(A) \subseteq Folder
  /\ Folders!Children({}) = {}
BY DEF Folders!Children

LEMMA ReadersRead ==
  ASSUME FoldersInv, Folders!ReadMine \/ Folders!ReadShares \/ Folders!ReadShared \/ Folders!ReadLevel
                     \/ Folders!ReadReports \/ Folders!Close
  PROVE  FoldersInv'
<1> USE DEF FoldersInv, ListingOK
<1>0. Folders!Listed \subseteq Folder
  BY DEF Folders!Listed, Folders!ToSet
<1>1. CASE Folders!ReadMine
  <2> DEFINE s == Folders!SetToSeq(OwnFolders)
  <2>1. OwnFolders \subseteq Folder
    BY DEF OwnFolders
  <2>2. IsFiniteSet(OwnFolders)
    BY <2>1, FolderConstants, FS_Subset
  <2>3. s \in Seq(Folder) /\ Len(s) = Cardinality(OwnFolders) /\ Folders!ToSet(s) = OwnFolders
    BY <2>1, <2>2, SeqOfSet
  <2>4. /\ UNCHANGED <<folders, shares, reports, folderChanges>>
        /\ listing' = [Folders!Idle EXCEPT !.at = "shares", !.found = s]
    BY <1>1 DEF Folders!ReadMine, Folders!data, OwnFolders
  <2> HIDE DEF s
  <2>5. /\ listing' = [at |-> "shares", found |-> s, named |-> {}, next |-> {}, reports |-> {}, calm |-> TRUE]
        /\ Folders!Listed' = OwnFolders
    BY <2>3, <2>4 DEF Folders!Idle, Folders!Listed
  <2>6. OwnFolders' = OwnFolders
    BY <2>4 DEF OwnFolders, Folders!Here
  <2>7. Folders!TypeOK'
    <3>1. UNCHANGED <<folders, shares, reports, folderChanges>>
      BY <2>4
    <3>2. listing'.at = "shares" /\ listing'.found \in Seq(Folder) /\ listing'.named = {} /\ listing'.next = {}
      BY <2>3, <2>5
    <3> QED
      BY <3>1, <3>2 DEF Folders!TypeOK
  <2>8. ListingOK'
    BY <2>3, <2>5, FolderCounts
  <2>9. FoundSoFar'
    BY <2>5, <2>6 DEF FoundSoFar
  <2> QED
    BY <2>7, <2>8, <2>9
<1>2. CASE Folders!ReadShares
  <2>1. /\ listing' = [listing EXCEPT !.at = "shared", !.named = {f \in Folder : shares[f] # "none"}]
        /\ listing.at = "shares" /\ UNCHANGED <<folders, shares, reports, folderChanges>>
    BY <1>2 DEF Folders!ReadShares, Folders!data
  <2>2. Folders!Listed' = Folders!Listed /\ OwnFolders' = OwnFolders
    BY <2>1 DEF Folders!Listed, OwnFolders, Folders!Here
  <2>3. Folders!TypeOK' /\ ListingOK'
    BY <2>1, <2>2 DEF Folders!TypeOK
  <2>4. listing'.calm = listing.calm /\ (FoundSoFar => FoundSoFar')
    BY <2>1, <2>2 DEF FoundSoFar
  <2> QED
    BY <2>3, <2>4
<1>3. CASE Folders!ReadShared
  <2> DEFINE more == {f \in listing.named : Folders!Here(f)} \ Folders!Listed
             s == listing.found \o Folders!SetToSeq(more)
             L == Folders!Listed \cup more
  <2>1. /\ listing' = [listing EXCEPT !.at = IF L = {} THEN "done" ELSE "level", !.found = s, !.next = L]
        /\ listing.at = "shared" /\ UNCHANGED <<folders, shares, reports, folderChanges>>
    BY <1>3 DEF Folders!ReadShared, Folders!data
  <2>2. more \in SUBSET Folder /\ more \cap Folders!ToSet(listing.found) = {}
    BY DEF Folders!Listed
  <2>3. FoundSoFar /\ listing.calm => L = Top
    BY <2>1 DEF FoundSoFar, OwnFolders, Top
  <2> HIDE DEF more
  <2>4. /\ s \in Seq(Folder) /\ Folders!ToSet(s) = L
        /\ Folders!Cardinality(L) = Len(s)
    BY <2>2, MoreFolders DEF Folders!Listed
  <2>5. L \subseteq Folder
    BY <1>0, <2>2
  <2> HIDE DEF s, L
  <2>6. Folders!Listed' = L
    BY <2>1, <2>4 DEF Folders!Listed
  <2>7. Folders!TypeOK' /\ ListingOK'
    BY <2>1, <2>4, <2>5, <2>6 DEF Folders!TypeOK
  <2>8. Folders!Reachable' = Folders!Reachable /\ Top' = Top /\ \A S : Folders!Children(S)' = Folders!Children(S)
    BY <2>1 DEF Folders!Reachable, Top, Folders!Children, Folders!Here
  <2>9. ASSUME listing'.calm PROVE FoundSoFar'
    <3>1. L = Top
      BY <2>1, <2>3, <2>9
    <3>2. listing'.next = L /\ listing'.at = (IF L = {} THEN "done" ELSE "level") /\ listing'.reports = {}
      BY <2>1
    <3>3. CASE L = {}
      <4>1. Folders!Reachable = {}
        BY <3>1, <3>3, ReachableIs, ChildrenOf
      <4> QED
        BY <2>6, <2>8, <3>2, <3>3, <4>1 DEF FoundSoFar
    <3>4. CASE L # {}
      <4>1. Top \subseteq L /\ L \subseteq Folders!Reachable /\ Folders!Children(L \ L) = {}
        BY <3>1, ReachableIs, ChildrenOf
      <4> QED
        BY <2>6, <2>8, <3>2, <3>4, <4>1 DEF FoundSoFar
    <3> QED
      BY <3>3, <3>4
  <2> QED
    BY <2>7, <2>9
<1>4. CASE Folders!ReadLevel
  <2> DEFINE more == Folders!Children(listing.next) \ Folders!Listed
             s == listing.found \o Folders!SetToSeq(more)
             L == Folders!Listed \cup more
  <2>1. /\ listing' = [listing EXCEPT !.at = IF more = {} THEN "reports" ELSE "level", !.found = s, !.next = more]
        /\ listing.at = "level" /\ UNCHANGED <<folders, shares, reports, folderChanges>>
    BY <1>4 DEF Folders!ReadLevel, Folders!data
  <2>2. more \in SUBSET Folder /\ more \cap Folders!ToSet(listing.found) = {}
    BY ChildrenOf DEF Folders!Listed
  <2>3. more = Folders!Children(listing.next) \ Folders!Listed
    OBVIOUS
  <2> HIDE DEF more
  <2>4. /\ s \in Seq(Folder) /\ Folders!ToSet(s) = L
        /\ Folders!Cardinality(L) = Len(s)
    BY <2>2, MoreFolders DEF Folders!Listed
  <2>5. L \subseteq Folder
    BY <1>0, <2>2
  <2>6. Folders!Listed' = L
    BY <2>1, <2>4 DEF Folders!Listed
  <2> HIDE DEF s
  <2>7. Folders!TypeOK' /\ ListingOK'
    BY <2>1, <2>2, <2>4, <2>5, <2>6 DEF Folders!TypeOK
  <2>8. Folders!Reachable' = Folders!Reachable /\ Top' = Top /\ \A S : Folders!Children(S)' = Folders!Children(S)
    BY <2>1 DEF Folders!Reachable, Top, Folders!Children, Folders!Here
  <2>9. ASSUME listing'.calm PROVE FoundSoFar'
    <3>1. /\ Top \subseteq Folders!Listed /\ Folders!Listed \subseteq Folders!Reachable
          /\ listing.next \subseteq Folders!Listed
          /\ Folders!Children(Folders!Listed \ listing.next) \subseteq Folders!Listed
      BY <2>1, <2>9 DEF FoundSoFar
    <3>2. listing'.next = more /\ listing'.at = (IF more = {} THEN "reports" ELSE "level")
      BY <2>1
    <3>3. Folders!Listed = (Folders!Listed \ listing.next) \cup listing.next
      BY <3>1
    <3>4. Folders!Children(Folders!Listed) \subseteq L
      BY <2>3, <3>1, <3>3, ChildrenOf
    <3>5. Folders!Reachable = Folders!Reachable \cup listing.next
      BY <3>1
    <3>6. more \subseteq Folders!Reachable
      BY <2>3, <3>5, ReachableIs, ChildrenOf
    <3>7. L \ more = Folders!Listed
      BY <2>3
    <3>8. Top \subseteq L /\ L \subseteq Folders!Reachable
      BY <3>1, <3>6
    <3>9. CASE more = {}
      <4>1. L = Folders!Listed
        BY <3>9
      <4> QED
        BY <2>6, <2>8, <3>2, <3>4, <3>8, <3>9, <4>1 DEF FoundSoFar
    <3>10. CASE more # {}
      BY <2>6, <2>8, <3>2, <3>4, <3>7, <3>8, <3>10 DEF FoundSoFar
    <3> QED
      BY <3>9, <3>10
  <2> QED
    BY <2>7, <2>9
<1>5. CASE Folders!ReadReports
  <2>1. /\ listing' = [listing EXCEPT !.at = "done", !.reports = {r \in Report : reports[r] \in Folders!Listed}]
        /\ listing.at = "reports" /\ UNCHANGED <<folders, shares, reports, folderChanges>>
    BY <1>5 DEF Folders!ReadReports, Folders!data
  <2>2. Folders!Listed' = Folders!Listed
    BY <2>1 DEF Folders!Listed
  <2>3. Folders!TypeOK' /\ ListingOK'
    BY <2>1, <2>2 DEF Folders!TypeOK
  <2>4. Folders!Reachable' = Folders!Reachable
    BY <2>1 DEF Folders!Reachable, Top, Folders!Children, Folders!Here
  <2>5. ASSUME listing'.calm PROVE FoundSoFar'
    <3>1. /\ Top \subseteq Folders!Listed /\ Folders!Listed \subseteq Folders!Reachable
          /\ Folders!Children(Folders!Listed) \subseteq Folders!Listed
      BY <2>1, <2>5 DEF FoundSoFar
    <3>2. \A X : Top \subseteq X /\ Folders!Children(X) \subseteq X => Folders!Reachable \subseteq X
      BY ReachableIs
    <3>3. Folders!Reachable \subseteq Folders!Listed
      BY <3>1, <3>2
    <3> QED
      BY <2>1, <2>2, <2>4, <3>1, <3>3 DEF FoundSoFar
  <2> QED
    BY <2>3, <2>5
<1>6. CASE Folders!Close
  <2>1. listing' = Folders!Idle /\ UNCHANGED <<folders, shares, reports, folderChanges>>
    BY <1>6 DEF Folders!Close, Folders!data
  <2>2. Folders!Listed' = {}
    BY <2>1 DEF Folders!Idle, Folders!Listed, Folders!ToSet
  <2>3. ListingOK'
    BY <2>1, <2>2, FolderCounts, FS_EmptySet DEF Folders!Idle
  <2>4. Folders!TypeOK'
    BY <2>1 DEF Folders!TypeOK, Folders!Idle
  <2>5. FoundSoFar'
    BY <2>1, <2>2 DEF FoundSoFar, Folders!Idle
  <2> QED
    BY <2>3, <2>4, <2>5
<1> QED
  BY <1>1, <1>2, <1>3, <1>4, <1>5, <1>6

LEMMA OthersChange ==
  ASSUME FoldersInv, Folders!Changed, Folders!TypeOK'
  PROVE  FoldersInv'
<1>1. listing' = [listing EXCEPT !.calm = FALSE] /\ listing \in [at : {"idle", "shares", "shared", "level", "reports", "done"}, found : Seq(Folder),
                  named : SUBSET Folder, next : SUBSET Folder, reports : SUBSET Report, calm : BOOLEAN]
  BY DEF Folders!Changed, FoldersInv, ListingOK
<1>2. Folders!Listed' = Folders!Listed
  BY <1>1 DEF Folders!Listed
<1>3. ListingOK' /\ ~listing'.calm
  BY <1>1, <1>2 DEF ListingOK, FoldersInv
<1> QED
  BY <1>3 DEF FoldersInv

LEMMA FoldersStay ==
  ASSUME FoldersInv, Folders!Next
  PROVE  FoldersInv'
<1> USE DEF FoldersInv
<1>1. Folders!Changed => listing'.at = listing.at /\ listing'.found = listing.found
         /\ listing'.named = listing.named /\ listing'.next = listing.next
  BY DEF Folders!Changed, ListingOK
<1>2. Folders!Changed => folderChanges' \in 0..MaxMoves
  BY FolderConstants DEF Folders!Changed, Folders!TypeOK
<1>3. ASSUME NEW f \in Folder, Folders!Share(f) \/ Folders!Withdraw(f) PROVE FoldersInv'
  <2>1. Folders!Changed /\ UNCHANGED <<folders, reports>>
    BY <1>3 DEF Folders!Share, Folders!Withdraw
  <2>2. shares' \in [Folder -> {"none", "shared", "withdrawn"}]
    BY <1>3 DEF Folders!Share, Folders!Withdraw, Folders!TypeOK
  <2>3. Folders!TypeOK'
    BY <1>1, <1>2, <2>1, <2>2 DEF Folders!TypeOK
  <2> QED
    BY <2>1, <2>3, OthersChange
<1>4. ASSUME NEW f \in Folder, Folders!DeleteFolder(f) \/ \E p \in Folder \cup {Root} : Folders!Move(f, p) PROVE FoldersInv'
  <2>1. Folders!Changed /\ UNCHANGED <<shares, reports>>
    BY <1>4 DEF Folders!DeleteFolder, Folders!Move
  <2>2. folders' \in [Folder -> Folders!Live]
    <3>1. PICK v \in Folders!Live : folders' = [folders EXCEPT ![f] = v]
      <4>1. folders[f] \in Folders!Live
        BY DEF Folders!TypeOK
      <4>2. [folders[f] EXCEPT !.deleted = TRUE] \in Folders!Live
            /\ \A p \in Folder \cup {Root} : [folders[f] EXCEPT !.parent = p] \in Folders!Live
        BY <4>1 DEF Folders!Live
      <4> QED
        BY <1>4, <4>2 DEF Folders!DeleteFolder, Folders!Move
    <3> QED
      BY <3>1 DEF Folders!TypeOK
  <2>3. Folders!TypeOK'
    BY <1>1, <1>2, <2>1, <2>2 DEF Folders!TypeOK
  <2> QED
    BY <2>1, <2>3, OthersChange
<1>5. ASSUME NEW r \in Report, Folders!DeleteReport(r) \/ \E f \in Folder : Folders!MoveReport(r, f) PROVE FoldersInv'
  <2>1. Folders!Changed /\ UNCHANGED <<folders, shares>>
    BY <1>5 DEF Folders!DeleteReport, Folders!MoveReport
  <2>2. reports' \in [Report -> Folder \cup {None}]
    BY <1>5 DEF Folders!DeleteReport, Folders!MoveReport, Folders!TypeOK
  <2>3. Folders!TypeOK'
    BY <1>1, <1>2, <2>1, <2>2 DEF Folders!TypeOK
  <2> QED
    BY <2>1, <2>3, OthersChange
<1> QED
  BY <1>3, <1>4, <1>5, ReadersRead DEF Folders!Next

LEMMA FoldersUnchanged ==
  ASSUME FoldersInv, UNCHANGED folderVars
  PROVE  FoldersInv'
<1>1. UNCHANGED <<folders, shares, reports, listing, folderChanges>>
  BY DEF folderVars
<1> QED
  BY <1>1 DEF FoldersInv, ListingOK, FoundSoFar, Top, OwnFolders, Folders!TypeOK, Folders!Listed, Folders!Reachable,
         Folders!Children, Folders!Here

LEMMA ListingsWhole ==
  ASSUME FoldersInv
  PROVE  Folders!ListingsAreWhole
BY DEF FoldersInv, ListingOK, FoundSoFar, Folders!ListingsAreWhole

\* Where every folder has a parent in the same set, some folder of the ways up lies in a circle.
LEMMA CircleAbove ==
  ASSUME folders \in [Folder -> Folders!Live], NEW D \in SUBSET Folder, NEW f \in D,
         \A g \in D : folders[g].parent \in D
  PROVE  /\ Folders!Ancestors(f) \subseteq D
         /\ \E g \in Folders!Ancestors(f), h \in D :
              folders[h].parent = g /\ h \in Folders!Ancestors(g) /\ g \in Folders!Ancestors(h)
<1> DEFINE A(g) == Folders!Ancestors(g)
<1>1. \A g \in Folder : g \in A(g) /\ A(g) \subseteq Folder /\ (\A h \in A(g) : folders[h].parent \in A(g) \cup {Root})
  BY AncestorsAre
<1>2. ASSUME NEW g \in Folder, NEW X, g \in X, \A h \in X \cap Folder : folders[h].parent \in X \cup {Root}
      PROVE  A(g) \subseteq X
  <2>1. \A Y : g \in Y /\ (\A h \in Y \cap Folder : folders[h].parent \in Y \cup {Root}) => A(g) \subseteq Y
    BY AncestorsAre
  <2> QED
    BY <1>2, <2>1
<1> HIDE DEF A
<1>3. \A g \in D : A(g) \subseteq D
  BY <1>2
<1>4. \A g \in Folder : \A h \in A(g) : A(h) \subseteq A(g)
  <2> SUFFICES ASSUME NEW g \in Folder, NEW h \in A(g) PROVE A(h) \subseteq A(g)
    OBVIOUS
  <2>1. h \in Folder /\ \A e \in A(g) \cap Folder : folders[e].parent \in A(g) \cup {Root}
    BY <1>1
  <2> QED
    BY <1>2, <2>1
<1>5. \A g \in Folder : IsFiniteSet(A(g)) /\ Cardinality(A(g)) \in Nat
  BY <1>1, FolderConstants, FS_Subset, FS_CardinalityType
<1>6. PICK g \in A(f) : \A h \in A(f) : Cardinality(A(g)) <= Cardinality(A(h))
  <2> DEFINE N == {Cardinality(A(h)) : h \in A(f)}
  <2>1. N \in SUBSET Nat /\ N # {}
    BY <1>1, <1>5
  <2>2. PICK n \in N : \A m \in N : n <= m
    BY <2>1, LeastNat
  <2> QED
    BY <2>2
<1> DEFINE p == folders[g].parent
<1>7. g \in D /\ p \in D /\ p \in Folder /\ g \in Folder
  BY <1>3, <1>6
<1>8. p \in A(g) /\ p \in A(f)
  <2>1. p \in A(g)
    BY <1>1, <1>7, FolderConstants
  <2> QED
    BY <1>4, <1>6, <2>1
<1>9. A(p) = A(g)
  <2>1. A(p) \subseteq A(g)
    BY <1>4, <1>7, <1>8
  <2>2. Cardinality(A(g)) <= Cardinality(A(p))
    BY <1>6, <1>8
  <2>3. Cardinality(A(p)) <= Cardinality(A(g))
    BY <1>5, <1>7, <2>1, FS_Subset
  <2>4. Cardinality(A(p)) = Cardinality(A(g))
    BY <1>5, <1>7, <2>2, <2>3
  <2> QED
    BY <1>5, <1>7, <2>1, <2>4, FS_Subset
<1>10. \E h \in A(p) : folders[h].parent = g
  <2> SUFFICES ASSUME \A h \in A(p) : folders[h].parent # g PROVE FALSE
    OBVIOUS
  <2>1. p # g /\ g \in A(p)
    BY <1>1, <1>7, <1>9
  <2> DEFINE X == A(p) \ {g}
  <2>2. p \in X
    BY <1>1, <1>7, <2>1
  <2>3. \A h \in X \cap Folder : folders[h].parent \in X \cup {Root}
    BY <1>1, <1>7
  <2> HIDE DEF X, p
  <2>4. A(p) \subseteq X
    BY <1>2, <1>7, <2>2, <2>3
  <2> QED
    BY <2>1, <2>4 DEF X
<1>11. PICK h \in A(g) : folders[h].parent = g
  BY <1>9, <1>10
<1>12. h \in D /\ g \in A(h)
  <2>1. h \in D
    BY <1>3, <1>7
  <2>2. h \in Folder /\ h \in A(h)
    BY <1>1, <2>1
  <2> QED
    BY <1>1, <1>7, <1>11, <2>1, <2>2, FolderConstants
<1> QED
  BY <1>3, <1>6, <1>11, <1>12 DEF A

LEMMA OwnFoldersInTree ==
  ASSUME folders \in [Folder -> Folders!Live]
  PROVE  Folders!OwnFoldersAppear
<1> DEFINE S == {f \in Folder : Folders!Here(f)}
           T == Folders!build_folder_tree(S)
           InCircle(f) == \E g \in S : /\ g \in Folders!Ancestors(f) /\ Folders!Ancestors(f) \subseteq S
                                       /\ \E h \in S : folders[h].parent = g /\ h \in Folders!Ancestors(g)
                                                                            /\ g \in Folders!Ancestors(h)
<1>1. S \subseteq Folder /\ IsFiniteSet(S)
  BY FolderConstants, FS_Subset
<1> SUFFICES ASSUME NEW f \in S, folders[f].owner = Reader, ~InCircle(f)
             PROVE  f \in Folders!filter_tree_by_creator(S)
  BY DEF Folders!OwnFoldersAppear
<1> HIDE DEF S
<1>2. f \in T
  <2> SUFFICES ASSUME f \notin T PROVE FALSE
    OBVIOUS
  <2> DEFINE D == S \ T
  <2>1. \A g \in D : folders[g].parent \in D
    BY <1>1, TreeIs
  <2>2. D \in SUBSET Folder /\ f \in D
    BY <1>1
  <2> HIDE DEF D
  <2>3. PICK g \in Folders!Ancestors(f), h \in D :
           folders[h].parent = g /\ h \in Folders!Ancestors(g) /\ g \in Folders!Ancestors(h)
    BY <2>1, <2>2, CircleAbove
  <2>4. Folders!Ancestors(f) \subseteq D
    BY <2>1, <2>2, CircleAbove
  <2>5. Folders!Ancestors(f) \subseteq S /\ g \in S /\ h \in S
    BY <2>3, <2>4 DEF D
  <2> QED
    BY <2>3, <2>5
<1>3. f \in Folders!Ancestors(f)
  BY <1>1, AncestorsAre
<1> QED
  BY <1>2, <1>3 DEF Folders!filter_tree_by_creator

-----------------------------------------------------------------------------
\* Pinned views

LEMMA PinCounts ==
  /\ \A S : Pins!Cardinality(S) = Cardinality(S)
  /\ \A S : Pins!IsFiniteSet(S) <=> IsFiniteSet(S)
BY DEF Pins!Cardinality, Cardinality, Pins!IsFiniteSet, IsFiniteSet

LEMMA PinConstants ==
  /\ IsFiniteSet(Owner) /\ IsFiniteSet(ViewName) /\ MaxPins \in Nat /\ MaxDays \in Nat
  /\ FirstDay \subseteq Pins!Days
BY ReadingAssumption, PinCounts DEF Pins!PinsAssumption

\* Views are told apart by id, owner and name, and a new one has an id that none has.
ViewsOK(R) ==
  /\ IsFiniteSet(R) /\ R \subseteq Pins!Row
  /\ \A v \in R : v.id <= Cardinality(R)
  /\ \A v, w \in R : v.id = w.id /\ v.owner = w.owner /\ v.name = w.name => v = w

LEMMA ViewsKept ==
  ASSUME NEW R, ViewsOK(R), NEW F \in [R -> Pins!Row],
         \A v \in R : F[v].id = v.id /\ F[v].owner = v.owner /\ F[v].name = v.name
  PROVE  ViewsOK({F[v] : v \in R})
<1> DEFINE Q == {F[v] : v \in R}
<1>1. F \in Bijection(R, Q)
  <2>1. \A v, w \in R : F[v] = F[w] => v = w
    BY DEF ViewsOK
  <2>2. F \in [R -> Q]
    OBVIOUS
  <2> QED
    BY <2>1, <2>2 DEF Bijection, Injection, Surjection, IsInjective
<1>2. IsFiniteSet(Q) /\ Cardinality(Q) = Cardinality(R)
  BY <1>1, FS_Bijection DEF ViewsOK, ExistsBijection
<1>3. \A u \in Q : \E v \in R : u = F[v]
  OBVIOUS
<1> HIDE DEF Q
<1>4. Q \subseteq Pins!Row
  BY <1>3
<1>5. \A v \in Q : v.id <= Cardinality(Q)
  BY <1>2, <1>3 DEF ViewsOK
<1>6. \A v, w \in Q : v.id = w.id /\ v.owner = w.owner /\ v.name = w.name => v = w
  <2> SUFFICES ASSUME NEW v \in Q, NEW w \in Q, v.id = w.id /\ v.owner = w.owner /\ v.name = w.name
               PROVE  v = w
    OBVIOUS
  <2>1. PICK x \in R : v = F[x]
    BY <1>3
  <2>2. PICK y \in R : w = F[y]
    BY <1>3
  <2>3. x = y
    BY <2>1, <2>2 DEF ViewsOK
  <2> QED
    BY <2>1, <2>2, <2>3
<1>7. ViewsOK(Q)
  BY <1>2, <1>4, <1>5, <1>6 DEF ViewsOK
<1> QED
  BY <1>7 DEF Q

LEMMA ViewAdded ==
  ASSUME NEW R, ViewsOK(R), NEW u \in Pins!Row, u.id = Cardinality(R) + 1
  PROVE  ViewsOK(R \cup {u})
<1>1. Cardinality(R) \in Nat
  BY FS_CardinalityType DEF ViewsOK
<1>2. \A v \in R : v.id \in Nat /\ v.id <= Cardinality(R) /\ v.id # u.id
  BY <1>1 DEF ViewsOK, Pins!Row
<1>3. u \notin R
  BY <1>2
<1>4. IsFiniteSet(R \cup {u}) /\ Cardinality(R \cup {u}) = Cardinality(R) + 1
  BY <1>3, FS_AddElement DEF ViewsOK
<1>5. \A v \in R \cup {u} : v.id <= Cardinality(R \cup {u})
  BY <1>1, <1>2, <1>4
<1>6. \A v, w \in R \cup {u} : v.id = w.id /\ v.owner = w.owner /\ v.name = w.name => v = w
  BY <1>2 DEF ViewsOK
<1> QED
  BY <1>4, <1>5, <1>6 DEF ViewsOK

\* What requests do; one that no other of its owner's ran with is the only one, and once it has
\* taken the pin from the owner's views none has it.
Doing == [at : {"idle", "unpin", "pin"}, owner : Owner \cup {None}, name : ViewName \cup {None}, id : Nat \cup {None},
          alone : BOOLEAN]
Busy(r) == pinning[r].at # "idle"
PinnedOf(R, o) == {v \in R : v.owner = o /\ v.pinned}
PinnedAlone ==
  \A r \in Request : Busy(r) /\ pinning[r].alone =>
    /\ \A q \in Request : Busy(q) /\ pinning[q].owner = pinning[r].owner => q = r
    /\ pinning[r].at = "pin" => PinnedOf(viewRows, pinning[r].owner) = {}
OnePinned == \A o \in Owner \ pinsOverlapped : \A v, w \in PinnedOf(viewRows, o) : v = w
PinsInv ==
  /\ {today, begin} \subseteq Pins!Days /\ pinsBegun \in 0..MaxPins
  /\ ViewsOK(viewRows)
  /\ pinning \in [Request -> Doing]
  /\ \A r \in Request : Busy(r) => pinning[r].owner \in Owner /\ pinning[r].name \in ViewName
  /\ PinnedAlone
  /\ OnePinned
  /\ Pins!StaleOnlyWherePinned

LEMMA PinsAtFirst ==
  ASSUME Pins!Init
  PROVE  PinsInv
<1> DEFINE View(o, n) == [id |-> 0, owner |-> o, name |-> n, day |-> None, pinned |-> FALSE]
           N == ViewName \ Pins!Dynamic
           All == {View(o, n) : o \in Owner, n \in N}
<1>1. /\ begin \in FirstDay /\ today = begin /\ pinsBegun = 0 /\ pinsShown = None
      /\ viewRows \in {{}, All} /\ pinning = [r \in Request |-> Pins!Idle]
  BY DEF Pins!Init
<1>0. \A u \in All : \E o \in Owner, n \in N : u = View(o, n)
  OBVIOUS
<1>9. \A o \in Owner, n \in N : View(o, n) \in All
  <2> HIDE DEF N, View
  <2> QED OBVIOUS
<1> HIDE DEF All
<1>2. IsFiniteSet(All)
  <2>1. IsFiniteSet(N)
    BY PinConstants, FS_Subset
  <2>2. IsFiniteSet(Owner \X N)
    BY <2>1, PinConstants, FS_Product
  <2> DEFINE F == [p \in Owner \X N |-> View(p[1], p[2])]
  <2> HIDE DEF N, View
  <2>3. \A o \in Owner, n \in N : <<o, n>> \in Owner \X N /\ F[<<o, n>>] = View(o, n)
    OBVIOUS
  <2>4. F \in [Owner \X N -> All]
    BY <1>9
  <2> HIDE DEF F
  <2>5. \A u \in All : \E p \in Owner \X N : F[p] = u
    BY <1>0, <2>3
  <2>6. F \in Surjection(Owner \X N, All)
    BY <2>4, <2>5 DEF Surjection
  <2> QED
    BY <2>2, <2>6, FS_Surjection
<1>3. \A v \in All : v \in Pins!Row /\ v.id = 0 /\ v.pinned = FALSE
  <2>1. \A o \in Owner, n \in N : View(o, n) \in Pins!Row /\ View(o, n).id = 0 /\ View(o, n).pinned = FALSE
    BY DEF Pins!Row
  <2> HIDE DEF View
  <2> QED
    BY <1>0, <2>1
<1>4. \A v, w \in All : v.owner = w.owner /\ v.name = w.name => v = w
  <2>1. \A o \in Owner, n \in N : View(o, n).owner = o /\ View(o, n).name = n
    OBVIOUS
  <2> HIDE DEF View
  <2> QED
    BY <1>0, <2>1
<1>5. ViewsOK(viewRows)
  <2>1. IsFiniteSet(viewRows)
    BY <1>1, <1>2, FS_EmptySet
  <2>2. Cardinality(viewRows) \in Nat
    BY <2>1, FS_CardinalityType
  <2> QED
    BY <1>1, <1>3, <1>4, <2>1, <2>2 DEF ViewsOK
<1>6. \A o : PinnedOf(viewRows, o) = {}
  BY <1>1, <1>3 DEF PinnedOf
<1>7. pinning \in [Request -> Doing] /\ \A r \in Request : ~Busy(r)
  BY <1>1 DEF Doing, Busy, Pins!Idle
<1>8. {today, begin} \subseteq Pins!Days /\ pinsBegun \in 0..MaxPins
  BY <1>1, PinConstants
<1> QED
  BY <1>1, <1>5, <1>6, <1>7, <1>8 DEF PinsInv, PinnedAlone, OnePinned, Pins!StaleOnlyWherePinned

LEMMA PinsUnchanged ==
  ASSUME PinsInv, UNCHANGED pinsVars
  PROVE  PinsInv'
<1>1. UNCHANGED <<today, begin, viewRows, pinning, pinsBegun, pinsShown, pinsOverlapped>>
  BY DEF pinsVars
<1> QED
  BY <1>1 DEF PinsInv, PinnedAlone, Busy, OnePinned, Pins!StaleOnlyWherePinned

\* The views are those before, whether pinned or not.
Same(v, w) == v.id = w.id /\ v.owner = w.owner /\ v.name = w.name /\ v.day = w.day

LEMMA StaleKept ==
  ASSUME Pins!StaleOnlyWherePinned, UNCHANGED <<today, pinsShown>>,
         \A v \in viewRows : \E w \in viewRows' : w.name = v.name /\ w.day = v.day
  PROVE  Pins!StaleOnlyWherePinned'
BY DEF Pins!StaleOnlyWherePinned

LEMMA PinKeeps ==
  ASSUME PinsInv, NEW r \in Request, NEW o \in Owner, NEW n \in ViewName, Pins!Pin(r, o, n)
  PROVE  PinsInv'
<1> USE DEF PinsInv
<1>1. PICK id :
        /\ id \in Nat \cup {None}
        /\ pinning' = [q \in Request |->
                IF q = r THEN [at |-> "unpin", owner |-> o, name |-> n, id |-> id, alone |-> Pins!Running(o) = {}]
                ELSE IF q \in Pins!Running(o) THEN [pinning[q] EXCEPT !.alone = FALSE] ELSE pinning[q]]
  <2>1. \A v \in viewRows : v.id \in Nat
    BY DEF ViewsOK, Pins!Row
  <2> QED
    BY <2>1 DEF Pins!Pin
<1>2. /\ pinning[r].at = "idle" /\ pinsBegun < MaxPins /\ pinsBegun' = pinsBegun + 1 /\ pinsShown' = None
      /\ UNCHANGED <<today, begin, viewRows, pinsOverlapped>>
  BY DEF Pins!Pin
<1>3. Pins!Running(o) = {q \in Request : Busy(q) /\ pinning[q].owner = o}
  BY DEF Pins!Running, Busy
<1>4. /\ pinning'[r].at = "unpin" /\ pinning'[r].owner = o /\ pinning'[r].name = n
      /\ pinning'[r].alone = (Pins!Running(o) = {})
  BY <1>1
<1>5. ASSUME NEW q \in Request, q # r
      PROVE  /\ pinning'[q].at = pinning[q].at /\ pinning'[q].owner = pinning[q].owner
             /\ pinning'[q].name = pinning[q].name
             /\ pinning'[q].alone => pinning[q].alone /\ q \notin Pins!Running(o)
  <2>1. pinning[q] \in Doing
    OBVIOUS
  <2> QED
    BY <1>1, <1>3, <1>5, <2>1 DEF Doing, Busy
<1>6. pinning' \in [Request -> Doing]
  <2>1. ASSUME NEW q \in Request PROVE pinning'[q] \in Doing
    <3>1. pinning[q] \in Doing
      OBVIOUS
    <3>2. CASE q = r
      BY <1>1, <3>2 DEF Doing
    <3>3. CASE q # r
      BY <1>1, <3>1, <3>3 DEF Doing
    <3> QED
      BY <3>2, <3>3
  <2> QED
    BY <1>1, <2>1
<1>7. \A q \in Request : Busy(q)' => pinning'[q].owner \in Owner /\ pinning'[q].name \in ViewName
  BY <1>4, <1>5 DEF Busy
<1>8. PinnedAlone'
  <2> SUFFICES ASSUME NEW p \in Request, Busy(p)', pinning'[p].alone
               PROVE  /\ \A q \in Request : Busy(q)' /\ pinning'[q].owner = pinning'[p].owner => q = p
                      /\ pinning'[p].at = "pin" => PinnedOf(viewRows, pinning'[p].owner) = {}
    BY <1>2 DEF PinnedAlone
  <2>1. CASE p = r
    <3>1. \A q \in Request : ~(Busy(q) /\ pinning[q].owner = o)
      BY <1>3, <1>4, <2>1
    <3> QED
      BY <1>4, <1>5, <2>1, <3>1 DEF Busy
  <2>2. CASE p # r
    <3>1. pinning[p].alone /\ Busy(p) /\ pinning[p].owner # o /\ pinning'[p].owner = pinning[p].owner
      BY <1>3, <1>5, <2>2 DEF Busy
    <3> QED
      BY <1>4, <1>5, <2>2, <3>1 DEF PinnedAlone, Busy
  <2> QED
    BY <2>1, <2>2
<1>9. OnePinned'
  BY <1>2 DEF OnePinned
<1>10. Pins!StaleOnlyWherePinned'
  BY <1>2 DEF Pins!StaleOnlyWherePinned
<1>11. pinsBegun' \in 0..MaxPins
  BY <1>2, PinConstants
<1> QED
  BY <1>2, <1>6, <1>7, <1>8, <1>9, <1>10, <1>11

LEMMA UnpinKeeps ==
  ASSUME PinsInv, NEW r \in Request, Pins!Unpin(r)
  PROVE  PinsInv'
<1> USE DEF PinsInv
<1> DEFINE o == pinning[r].owner
           F == [v \in viewRows |-> IF v.owner = o THEN Pins!Unpinned(v) ELSE v]
<1>1. /\ pinning[r].at = "unpin" /\ pinning' = [pinning EXCEPT ![r].at = "pin"]
      /\ viewRows' = {F[v] : v \in viewRows}
      /\ UNCHANGED <<today, begin, pinsBegun, pinsShown, pinsOverlapped>>
  BY DEF Pins!Unpin
<1>2. \A v \in viewRows : /\ F[v] \in Pins!Row /\ Same(F[v], v) /\ (F[v].pinned => v.pinned /\ v.owner # o)
  BY DEF Pins!Row, Pins!Unpinned, Same, ViewsOK
<1>3. F \in [viewRows -> Pins!Row]
  BY <1>2
<1>4. \A w \in viewRows' : \E v \in viewRows : w = F[v]
  BY <1>1
<1>5. \A v \in viewRows : F[v] \in viewRows'
  BY <1>1
<1> HIDE DEF F
<1>6. ViewsOK(viewRows')
  BY <1>1, <1>2, <1>3, ViewsKept DEF Same
<1>7. Pins!StaleOnlyWherePinned'
  BY <1>1, <1>2, <1>5, StaleKept DEF Same
<1>8. PinnedOf(viewRows', o) = {}
  BY <1>2, <1>4 DEF PinnedOf, Same
<1>9. \A p : \A w \in PinnedOf(viewRows', p) : \E v \in PinnedOf(viewRows, p) : w = F[v]
  BY <1>2, <1>4 DEF PinnedOf, Same
<1>10. OnePinned'
  BY <1>1, <1>9 DEF OnePinned
<1>11. \A q \in Request : /\ pinning'[q].owner = pinning[q].owner /\ pinning'[q].name = pinning[q].name
                          /\ pinning'[q].alone = pinning[q].alone
                          /\ pinning'[q].at = IF q = r THEN "pin" ELSE pinning[q].at
  BY <1>1 DEF Doing
<1>12. pinning' \in [Request -> Doing]
  BY <1>1 DEF Doing
<1>13. \A q \in Request : Busy(q)' <=> Busy(q)
  BY <1>1, <1>11 DEF Busy
<1>14. \A q \in Request : Busy(q)' => pinning'[q].owner \in Owner /\ pinning'[q].name \in ViewName
  BY <1>11, <1>13
<1>15. PinnedAlone'
  <2> SUFFICES ASSUME NEW p \in Request, Busy(p)', pinning'[p].alone
               PROVE  /\ \A q \in Request : Busy(q)' /\ pinning'[q].owner = pinning'[p].owner => q = p
                      /\ pinning'[p].at = "pin" => PinnedOf(viewRows', pinning'[p].owner) = {}
    BY DEF PinnedAlone
  <2>1. \A q \in Request : Busy(q)' /\ pinning'[q].owner = pinning'[p].owner => q = p
    BY <1>11, <1>13 DEF PinnedAlone
  <2>2. CASE p = r
    BY <1>8, <1>11, <2>1, <2>2
  <2>3. CASE p # r
    BY <1>9, <1>11, <1>13, <2>1, <2>3 DEF PinnedAlone
  <2> QED
    BY <2>1, <2>2, <2>3
<1> QED
  BY <1>1, <1>6, <1>7, <1>10, <1>12, <1>14, <1>15

\* The pin is stored, or the request fails; the owner's other views are as before.
LEMMA FinishKeeps ==
  ASSUME PinsInv, NEW r \in Request, Pins!Finish(r)
  PROVE  PinsInv'
<1> USE DEF PinsInv
<1> DEFINE d == pinning[r]
           o == d.owner
<1>1. /\ d.at = "pin" /\ d \in Doing /\ Busy(r) /\ o \in Owner /\ d.name \in ViewName
      /\ UNCHANGED <<today, begin, pinsBegun, pinsShown>>
  BY DEF Pins!Finish, Busy
<1>2. pinning' = [pinning EXCEPT ![r] = Pins!Idle]
      /\ pinsOverlapped' = IF d.alone THEN pinsOverlapped \ {o} ELSE pinsOverlapped \cup {o}
  BY DEF Pins!Finish
<1>3. /\ ViewsOK(viewRows')
      /\ \A v \in viewRows : \E w \in viewRows' : w.name = v.name /\ w.day = v.day
      /\ \A p : p # o => PinnedOf(viewRows', p) = PinnedOf(viewRows, p)
      /\ PinnedOf(viewRows, o) = {} => \A v, w \in PinnedOf(viewRows', o) : v = w
  <2>1. CASE UNCHANGED viewRows
    BY <2>1
  <2>2. CASE /\ d.id # None
             /\ viewRows' = {IF v.id = d.id /\ v.name = d.name /\ v.owner = d.owner
                             THEN [v EXCEPT !.pinned = TRUE] ELSE v : v \in viewRows}
    <3> DEFINE Is(v) == v.id = d.id /\ v.name = d.name /\ v.owner = d.owner
               F == [v \in viewRows |-> IF Is(v) THEN [v EXCEPT !.pinned = TRUE] ELSE v]
    <3>1. \A v \in viewRows : /\ F[v] \in Pins!Row /\ Same(F[v], v) /\ (~Is(v) => F[v] = v)
      BY DEF Pins!Row, Same, ViewsOK
    <3>2. F \in [viewRows -> Pins!Row] /\ viewRows' = {F[v] : v \in viewRows}
      BY <2>2, <3>1
    <3>3. \A v \in viewRows : Is(v) => v.owner = o
      OBVIOUS
    <3>4. \A v, w \in viewRows : Is(v) /\ Is(w) => v = w
      BY DEF ViewsOK
    <3> HIDE DEF F, Is
    <3>5. /\ \A w \in viewRows' : \E v \in viewRows : w = F[v]
          /\ \A v \in viewRows : F[v] \in viewRows'
      BY <3>2
    <3>6. ViewsOK(viewRows')
      BY <3>1, <3>2, ViewsKept DEF Same
    <3>7. \A v \in viewRows : \E w \in viewRows' : w.name = v.name /\ w.day = v.day
      BY <3>1, <3>5 DEF Same
    <3>8. ASSUME NEW p, p # o PROVE PinnedOf(viewRows', p) = PinnedOf(viewRows, p)
      <4>1. \A w \in PinnedOf(viewRows', p) : w \in PinnedOf(viewRows, p)
        BY <3>1, <3>3, <3>5, <3>8 DEF PinnedOf, Same
      <4>2. \A v \in PinnedOf(viewRows, p) : v \in PinnedOf(viewRows', p)
        BY <3>1, <3>3, <3>5, <3>8 DEF PinnedOf, Same
      <4> QED
        BY <4>1, <4>2
    <3>9. ASSUME PinnedOf(viewRows, o) = {}, NEW v \in PinnedOf(viewRows', o), NEW w \in PinnedOf(viewRows', o)
          PROVE  v = w
      <4>1. PICK x \in viewRows : v = F[x]
        BY <3>5 DEF PinnedOf
      <4>2. PICK y \in viewRows : w = F[y]
        BY <3>5 DEF PinnedOf
      <4>3. Is(x) /\ Is(y)
        BY <3>1, <3>9, <4>1, <4>2 DEF PinnedOf, Same
      <4> QED
        BY <3>4, <4>1, <4>2, <4>3
    <3> QED
      BY <3>6, <3>7, <3>8, <3>9
  <2>3. CASE viewRows' = viewRows \cup {[id |-> Pins!Cardinality(viewRows) + 1, owner |-> d.owner, name |-> d.name,
                                         day |-> today, pinned |-> TRUE]}
    <3> DEFINE u == [id |-> Pins!Cardinality(viewRows) + 1, owner |-> d.owner, name |-> d.name,
                     day |-> today, pinned |-> TRUE]
    <3>1. Cardinality(viewRows) \in Nat
      BY FS_CardinalityType DEF ViewsOK
    <3>2. u \in Pins!Row /\ u.id = Cardinality(viewRows) + 1 /\ u.owner = o
      BY <1>1, <3>1, PinCounts DEF Pins!Row
    <3>3. viewRows' = viewRows \cup {u}
      BY <2>3
    <3> HIDE DEF u
    <3>4. ViewsOK(viewRows')
      BY <3>2, <3>3, ViewAdded
    <3> QED
      BY <3>2, <3>3, <3>4 DEF PinnedOf
  <2> QED
    BY <2>1, <2>2, <2>3 DEF Pins!Finish
<1>4. Pins!StaleOnlyWherePinned'
  BY <1>1, <1>3, StaleKept
<1>5. \A q \in Request : /\ q # r => pinning'[q] = pinning[q] /\ (Busy(q)' <=> Busy(q))
                         /\ q = r => ~Busy(q)'
  BY <1>2 DEF Busy, Pins!Idle
<1>6. pinning' \in [Request -> Doing]
  BY <1>2 DEF Doing, Pins!Idle
<1>7. d.alone => \A q \in Request : Busy(q)' => pinning[q].owner # o
  BY <1>1, <1>5 DEF PinnedAlone, Busy
<1>8. OnePinned'
  <2> SUFFICES ASSUME NEW p \in Owner \ pinsOverlapped', NEW v \in PinnedOf(viewRows', p), NEW w \in PinnedOf(viewRows', p)
               PROVE  v = w
    BY DEF OnePinned
  <2>1. CASE p = o
    <3>1. d.alone
      BY <1>2, <2>1
    <3>2. PinnedOf(viewRows, o) = {}
      BY <1>1, <3>1 DEF PinnedAlone
    <3> QED
      BY <1>3, <2>1, <3>2
  <2>2. CASE p # o
    <3>1. p \in Owner \ pinsOverlapped /\ PinnedOf(viewRows', p) = PinnedOf(viewRows, p)
      BY <1>2, <1>3, <2>2
    <3> QED
      BY <3>1 DEF OnePinned
  <2> QED
    BY <2>1, <2>2
<1>9. PinnedAlone'
  <2> SUFFICES ASSUME NEW p \in Request, Busy(p)', pinning'[p].alone
               PROVE  /\ \A q \in Request : Busy(q)' /\ pinning'[q].owner = pinning'[p].owner => q = p
                      /\ pinning'[p].at = "pin" => PinnedOf(viewRows', pinning'[p].owner) = {}
    BY DEF PinnedAlone
  <2>1. p # r /\ pinning'[p] = pinning[p] /\ Busy(p) /\ pinning[p].alone
    BY <1>5 DEF Busy
  <2>2. pinning[p].owner # o
    BY <1>1, <2>1 DEF PinnedAlone
  <2>3. \A q \in Request : Busy(q)' /\ pinning'[q].owner = pinning'[p].owner => q = p
    BY <1>5, <2>1 DEF PinnedAlone, Busy
  <2>4. pinning'[p].at = "pin" => PinnedOf(viewRows', pinning'[p].owner) = {}
    BY <1>3, <2>1, <2>2 DEF PinnedAlone
  <2> QED
    BY <2>3, <2>4
<1>10. \A q \in Request : Busy(q)' => pinning'[q].owner \in Owner /\ pinning'[q].name \in ViewName
  BY <1>5 DEF Busy
<1> HIDE DEF o, d
<1> QED
  BY <1>1, <1>3, <1>4, <1>6, <1>8, <1>9, <1>10

\* The days and what is shown.
LEMMA ShowKeeps ==
  ASSUME PinsInv, Pins!Midnight \/ \E o \in Owner : Pins!Show(o)
  PROVE  PinsInv'
<1> USE DEF PinsInv
<1>1. UNCHANGED <<begin, viewRows, pinning, pinsBegun, pinsOverlapped>>
  BY DEF Pins!Midnight, Pins!Show
<1>2. PinnedAlone' /\ OnePinned' /\ \A r \in Request : Busy(r)' = Busy(r)
  BY <1>1 DEF PinnedAlone, OnePinned, Busy
<1>3. CASE Pins!Midnight
  <2>1. pinsShown' = None /\ today' \in Pins!Days
    BY <1>3 DEF Pins!Midnight, Pins!NextDay
  <2>2. Pins!StaleOnlyWherePinned'
    BY <2>1 DEF Pins!StaleOnlyWherePinned
  <2> QED
    BY <1>1, <1>2, <2>1, <2>2
<1>4. CASE \E o \in Owner : Pins!Show(o)
  <2>1. UNCHANGED today
    BY <1>4 DEF Pins!Show
  <2>2. ASSUME NEW n, NEW e \in Pins!get_listview_for_object(n), pinsShown' = [name |-> n, day |-> e]
        PROVE  Pins!StaleOnlyWherePinned'
    <3>1. e = today \/ \E v \in viewRows : v.name = n /\ v.day = e
      BY <2>2 DEF Pins!get_listview_for_object
    <3> QED
      BY <1>1, <2>1, <2>2, <3>1 DEF Pins!StaleOnlyWherePinned
  <2>3. ASSUME pinsShown' = [name |-> "all", day |-> None] PROVE Pins!StaleOnlyWherePinned'
    <3>1. "all" \notin Pins!Dynamic
      BY DEF Pins!Dynamic
    <3> QED
      BY <2>3, <3>1 DEF Pins!StaleOnlyWherePinned
  <2>4. Pins!StaleOnlyWherePinned'
    BY <1>4, <2>2, <2>3 DEF Pins!Show
  <2> QED
    BY <1>1, <1>2, <2>1, <2>4
<1> QED
  BY <1>3, <1>4

LEMMA PinsStay ==
  ASSUME PinsInv, Pins!Next
  PROVE  PinsInv'
BY PinKeeps, UnpinKeeps, FinishKeeps, ShowKeeps DEF Pins!Next

LEMMA PinsHold ==
  ASSUME PinsInv
  PROVE  Pins!TypeOK /\ Pins!OnePinnedView /\ Pins!StaleOnlyWherePinned
<1> USE DEF PinsInv
<1>1. Pins!TypeOK
  BY DEF Pins!TypeOK, ViewsOK, Doing
<1>2. ASSUME NEW o \in Owner \ pinsOverlapped
      PROVE  Pins!Cardinality({v \in viewRows : v.owner = o /\ v.pinned}) <= 1
  <2> DEFINE P == PinnedOf(viewRows, o)
  <2>1. P = {} \/ \E v : P = {v}
    BY DEF OnePinned
  <2>2. Cardinality(P) = 0 \/ Cardinality(P) = 1
    BY <2>1, FS_EmptySet, FS_Singleton
  <2> QED
    BY <2>2, PinCounts DEF PinnedOf
<1> QED
  BY <1>1, <1>2 DEF Pins!OnePinnedView

-----------------------------------------------------------------------------
\* Days and periods

LEMMA CalendarConstants == {FirstYear, LastYear} \subseteq Nat \ {0} /\ FirstYear + 1 < LastYear
BY ReadingAssumption DEF Pins!PinsAssumption

LEMMA YearsAdjoin ==
  ASSUME NEW y \in Nat \ {0}
  PROVE  /\ Pins!NewYear(y) \in Int
         /\ Pins!NewYear(y + 1) = Pins!NewYear(y) + IF Pins!Leap(y) THEN 366 ELSE 365
  BY DEF Pins!NewYear, Pins!Leap

LEMMA YearsGrow ==
  ASSUME NEW y \in Nat \ {0}, NEW z \in Nat \ {0}, y < z
  PROVE  Pins!NewYear(y + 1) <= Pins!NewYear(z)
  BY DEF Pins!NewYear

\* How many days of a year are before each month: a recursive sum.
Added(y) == IF Pins!Leap(y) THEN 1 ELSE 0

LEMMA MonthsBefore ==
  ASSUME NEW y
  PROVE  LET B == Pins!DaysBefore(y)
             l == Added(y)
         IN  /\ B[1] = 0 /\ B[2] = 31 /\ B[3] = 59 + l /\ B[4] = 90 + l /\ B[5] = 120 + l /\ B[6] = 151 + l
             /\ B[7] = 181 + l /\ B[8] = 212 + l /\ B[9] = 243 + l /\ B[10] = 273 + l /\ B[11] = 304 + l
             /\ B[12] = 334 + l
<1> DEFINE l == Added(y)
           t == <<31, 59 + l, 90 + l, 120 + l, 151 + l, 181 + l, 212 + l, 243 + l, 273 + l, 304 + l, 334 + l, 365 + l>>
           Is(h) == h = [k \in 0..12 |-> IF k = 0 THEN 0 ELSE h[k - 1] + Pins!Length(y, k)]
           b == CHOOSE h : Is(h)
           c == [k \in 0..12 |-> IF k = 0 THEN 0 ELSE t[k]]
<1>0. l \in {0, 1}
  BY DEF Added
<1>1. /\ Pins!Length(y, 1) = 31 /\ Pins!Length(y, 2) = 28 + l /\ Pins!Length(y, 3) = 31 /\ Pins!Length(y, 4) = 30
      /\ Pins!Length(y, 5) = 31 /\ Pins!Length(y, 6) = 30 /\ Pins!Length(y, 7) = 31 /\ Pins!Length(y, 8) = 31
      /\ Pins!Length(y, 9) = 30 /\ Pins!Length(y, 10) = 31 /\ Pins!Length(y, 11) = 30 /\ Pins!Length(y, 12) = 31
  BY DEF Pins!Length, Added
<1>2. Pins!DaysBefore(y) = [m \in 1..12 |-> b[m - 1]]
  BY DEF Pins!DaysBefore
<1> HIDE DEF l
<1>3. Is(b)
  <2>1. /\ c[0] = 0 /\ c[1] = 31 /\ c[2] = 59 + l /\ c[3] = 90 + l /\ c[4] = 120 + l /\ c[5] = 151 + l /\ c[6] = 181 + l
        /\ c[7] = 212 + l /\ c[8] = 243 + l /\ c[9] = 273 + l /\ c[10] = 304 + l /\ c[11] = 334 + l /\ c[12] = 365 + l
    OBVIOUS
  <2>2. c = [k \in 0..12 |-> c[k]]
    OBVIOUS
  <2> HIDE DEF c
  <2>3. ASSUME NEW k \in 1..12 PROVE c[k] = c[k - 1] + Pins!Length(y, k)
    <3>1. k \in {1, 2, 3, 4, 5, 6, 7, 8, 9, 10, 11, 12}
      OBVIOUS
    <3> QED
      BY <1>0, <1>1, <2>1, <3>1
  <2>4. \A k \in 0..12 : c[k] = IF k = 0 THEN 0 ELSE c[k - 1] + Pins!Length(y, k)
    BY <2>1, <2>3
  <2>5. Is(c)
    BY <2>2, <2>4
  <2> HIDE DEF Is
  <2> QED
    BY <2>5
<1> HIDE DEF b
<1>4. \A k \in 0..12 : b[k] = IF k = 0 THEN 0 ELSE b[k - 1] + Pins!Length(y, k)
  BY <1>3, Zenon
<1>5. b[0] = 0 /\ \A k \in 1..12 : b[k] = b[k - 1] + Pins!Length(y, k)
  BY <1>4
<1>6. /\ b[1] = 31 /\ b[2] = 59 + l /\ b[3] = 90 + l /\ b[4] = 120 + l /\ b[5] = 151 + l /\ b[6] = 181 + l
      /\ b[7] = 212 + l /\ b[8] = 243 + l /\ b[9] = 273 + l /\ b[10] = 304 + l /\ b[11] = 334 + l
  BY <1>0, <1>1, <1>5
<1> QED
  BY <1>2, <1>5, <1>6 DEF l

LEMMA MonthsAdjoin ==
  ASSUME NEW y
  PROVE  /\ Added(y) \in {0, 1}
         /\ \A m \in 1..12 : Pins!DaysBefore(y)[m] \in Nat /\ Pins!Length(y, m) \in 28..31
         /\ \A m \in 1..11 : Pins!DaysBefore(y)[m + 1] = Pins!DaysBefore(y)[m] + Pins!Length(y, m)
         /\ Pins!DaysBefore(y)[1] = 0 /\ Pins!DaysBefore(y)[12] = 334 + Added(y) /\ Pins!Length(y, 12) = 31
         /\ \A m, k \in 1..12 : m < k => Pins!DaysBefore(y)[m] + Pins!Length(y, m) <= Pins!DaysBefore(y)[k]
<1> DEFINE B == Pins!DaysBefore(y)
           l == Added(y)
           L(m) == Pins!Length(y, m)
<1>0. l \in {0, 1}
  BY DEF Added
<1>1. /\ L(1) = 31 /\ L(2) = 28 + l /\ L(3) = 31 /\ L(4) = 30 /\ L(5) = 31 /\ L(6) = 30
      /\ L(7) = 31 /\ L(8) = 31 /\ L(9) = 30 /\ L(10) = 31 /\ L(11) = 30 /\ L(12) = 31
  BY DEF Pins!Length, Added
<1>2. /\ B[1] = 0 /\ B[2] = 31 /\ B[3] = 59 + l /\ B[4] = 90 + l /\ B[5] = 120 + l /\ B[6] = 151 + l
      /\ B[7] = 181 + l /\ B[8] = 212 + l /\ B[9] = 243 + l /\ B[10] = 273 + l /\ B[11] = 304 + l /\ B[12] = 334 + l
  BY MonthsBefore
<1> HIDE DEF B, l, L
<1>3. \A m \in 1..12 : m \in {1, 2, 3, 4, 5, 6, 7, 8, 9, 10, 11, 12}
  OBVIOUS
<1>4. \A m \in 1..12 : B[m] \in Nat /\ L(m) \in 28..31
  BY <1>0, <1>1, <1>2, <1>3
<1>5. \A m \in 1..11 : B[m + 1] = B[m] + L(m)
  BY <1>0, <1>1, <1>2, <1>3
<1>6. ASSUME NEW m \in 1..12, NEW k \in 1..12, m < k PROVE B[m] + L(m) <= B[k]
  <2> DEFINE N == {k2 \in 1..12 : m < k2 /\ ~(B[m] + L(m) <= B[k2])}
  <2> SUFFICES ASSUME N # {} PROVE FALSE
    BY <1>6
  <2>1. N \in SUBSET Nat
    OBVIOUS
  <2>2. \E n \in N : \A j \in N : n <= j
    BY <2>1, LeastNat
  <2>3. PICK n \in N : \A j \in N : n <= j
    BY <2>2
  <2>4. n # m + 1
    BY <1>4, <1>5
  <2>5. n - 1 \in 1..12 /\ m < n - 1 /\ n - 1 \notin N /\ n - 1 \in 1..11
    BY <2>3, <2>4
  <2>6. B[m] + L(m) <= B[n - 1] /\ B[n] = B[n - 1] + L(n - 1)
    BY <1>5, <2>5
  <2>7. B[n] \in Nat /\ B[m] \in Nat /\ L(m) \in Nat /\ B[n - 1] \in Nat /\ L(n - 1) \in Nat
    BY <1>4, <2>5
  <2>8. B[m] + L(m) <= B[n]
    BY <2>6, <2>7
  <2> QED
    BY <2>8
<1> QED
  BY <1>0, <1>2, <1>4, <1>5, <1>6, <1>1 DEF B, l, L

\* A day of a year.
DayIn(y, m, d) == y \in Nat \ {0} /\ m \in 1..12 /\ d \in 1..Pins!Length(y, m)

LEMMA DaysAre ==
  ASSUME NEW y, NEW m, NEW d, DayIn(y, m, d)
  PROVE  /\ Pins!Day(y, m, 1) \in Int /\ Pins!Day(y, m, d) = Pins!Day(y, m, 1) + d - 1
         /\ Pins!NewYear(y) <= Pins!Day(y, m, d) /\ Pins!Day(y, m, d) < Pins!NewYear(y + 1)
         /\ Pins!Day(y, m, 1) <= Pins!Day(y, m, d) /\ Pins!Day(y, m, d) < Pins!Day(y, m, 1) + Pins!Length(y, m)
<1> DEFINE B == Pins!DaysBefore(y)
           L == Pins!Length(y, m)
           N == Pins!NewYear(y)
<1>1. /\ y \in Nat \ {0} /\ m \in 1..12 /\ d \in 1..L /\ L \in 28..31 /\ B[m] \in Nat /\ N \in Int
  BY YearsAdjoin, MonthsAdjoin DEF DayIn
<1>2. Pins!Day(y, m, 1) = N + B[m] + 1 - 1 /\ Pins!Day(y, m, d) = N + B[m] + d - 1
  BY DEF Pins!Day
<1>3. Pins!NewYear(y + 1) = N + 365 + Added(y) /\ Added(y) \in {0, 1}
  BY <1>1, YearsAdjoin DEF Added
<1>4. B[m] + L <= 365 + Added(y)
  <2>1. B[12] = 334 + Added(y) /\ Pins!Length(y, 12) = 31
    BY MonthsAdjoin
  <2>2. CASE m = 12
    BY <1>3, <2>1, <2>2
  <2>3. CASE m # 12
    <3>1. B[m] + L <= B[12]
      BY <1>1, <2>3, MonthsAdjoin
    <3> HIDE DEF B, L
    <3> QED
      BY <1>1, <1>3, <2>1, <3>1
  <2> QED
    BY <2>2, <2>3
<1> HIDE DEF B, L, N
<1>5. N <= N + B[m] + d - 1 /\ N + B[m] + d - 1 < N + 365 + Added(y)
  BY <1>1, <1>3, <1>4
<1> QED
  BY <1>1, <1>2, <1>3, <1>5 DEF L, N

\* The year and the month of a day are its own.
LEMMA PartsAre ==
  ASSUME NEW y \in Pins!Year, NEW m, NEW d, DayIn(y, m, d)
  PROVE  /\ Pins!YearOf(Pins!Day(y, m, d)) = y /\ Pins!MonthOf(Pins!Day(y, m, d)) = m
         /\ \A e : Pins!replace(Pins!Day(y, m, d), e) = Pins!Day(y, m, e)
<1> DEFINE n == Pins!Day(y, m, d)
<1>1. n \in Int /\ Pins!NewYear(y) <= n /\ n < Pins!NewYear(y + 1)
  BY DaysAre DEF DayIn, Pins!Length
<1>2. \A z \in Pins!Year : z \in Nat \ {0}
  BY CalendarConstants DEF Pins!Year
<1> HIDE DEF n
<1>3. ASSUME NEW z \in Pins!Year, Pins!NewYear(z) <= n, n < Pins!NewYear(z + 1) PROVE z = y
  <2>1. y \in Nat \ {0} /\ z \in Nat \ {0}
    BY <1>2
  <2>2. /\ Pins!NewYear(z) \in Int /\ Pins!NewYear(z + 1) \in Int /\ Pins!NewYear(y) \in Int /\ Pins!NewYear(y + 1) \in Int
    BY <2>1, YearsAdjoin
  <2>3. ~(y < z)
    BY <1>1, <1>3, <2>1, <2>2, YearsGrow
  <2>4. ~(z < y)
    BY <1>1, <1>3, <2>1, <2>2, YearsGrow
  <2> QED
    BY <2>1, <2>3, <2>4
<1>4. Pins!YearOf(n) = y
  BY <1>1, <1>3 DEF Pins!YearOf
<1>5. Pins!Day(y, m, 1) <= n /\ n < Pins!Day(y, m, 1) + Pins!Length(y, m) /\ m \in 1..12
  BY DaysAre DEF DayIn, n
<1>6. ASSUME NEW k \in 1..12, Pins!Day(y, k, 1) <= n, n < Pins!Day(y, k, 1) + Pins!Length(y, k) PROVE k = m
  <2> DEFINE B == Pins!DaysBefore(y)
             N == Pins!NewYear(y)
  <2>1. /\ B[m] \in Nat /\ B[k] \in Nat /\ Pins!Length(y, m) \in 28..31 /\ Pins!Length(y, k) \in 28..31
        /\ m < k => B[m] + Pins!Length(y, m) <= B[k]
        /\ k < m => B[k] + Pins!Length(y, k) <= B[m]
    BY <1>5, MonthsAdjoin
  <2>2. N \in Int
    BY <1>2, YearsAdjoin
  <2>3. N + B[k] + 1 - 1 <= n /\ n < N + B[k] + 1 - 1 + Pins!Length(y, k)
        /\ N + B[m] + 1 - 1 <= n /\ n < N + B[m] + 1 - 1 + Pins!Length(y, m)
    BY <1>5, <1>6 DEF Pins!Day
  <2> HIDE DEF B, N
  <2> QED
    BY <1>1, <1>5, <2>1, <2>2, <2>3
<1>7. Pins!MonthOf(n) = m
  BY <1>4, <1>5, <1>6 DEF Pins!MonthOf
<1> QED
  BY <1>4, <1>7 DEF Pins!replace, n

\* Every day has them.
LEMMA EveryDay ==
  ASSUME NEW n \in Pins!Days
  PROVE  \E y \in (FirstYear + 1)..(LastYear - 1), m \in 1..12, d \in 1..31 : DayIn(y, m, d) /\ n = Pins!Day(y, m, d)
<1>0. FirstYear \in Nat \ {0} /\ LastYear \in Nat \ {0} /\ FirstYear + 1 < LastYear
  BY CalendarConstants
<1>1. /\ n \in Int /\ Pins!NewYear(FirstYear + 1) <= n /\ n < Pins!NewYear(LastYear)
  <2>1. Pins!Day(FirstYear + 1, 1, 1) = Pins!NewYear(FirstYear + 1) /\ Pins!Day(LastYear, 1, 1) = Pins!NewYear(LastYear)
    <3>1. \A y : Pins!DaysBefore(y)[1] = 0
      BY MonthsAdjoin
    <3>2. Pins!NewYear(FirstYear + 1) \in Int /\ Pins!NewYear(LastYear) \in Int
      BY <1>0, YearsAdjoin
    <3> QED
      BY <3>1, <3>2 DEF Pins!Day
  <2>2. Pins!NewYear(FirstYear + 1) \in Int /\ Pins!NewYear(LastYear) \in Int
    BY <1>0, YearsAdjoin
  <2> QED
    BY <2>1, <2>2 DEF Pins!Days
<1> DEFINE S == {y \in Nat : FirstYear + 1 <= y /\ n < Pins!NewYear(y + 1)}
<1>2. LastYear - 1 \in S
  BY <1>0, <1>1
<1>3. PICK y \in S : \A z \in S : y <= z
  <2>1. S \in SUBSET Nat /\ S # {}
    BY <1>2
  <2> HIDE DEF S
  <2> QED
    BY <2>1, LeastNat
<1>4. /\ y \in (FirstYear + 1)..(LastYear - 1) /\ y \in Nat \ {0} /\ Pins!NewYear(y) <= n /\ n < Pins!NewYear(y + 1)
  <2>1. y \in (FirstYear + 1)..(LastYear - 1)
    BY <1>0, <1>2, <1>3
  <2>2. CASE y = FirstYear + 1
    BY <1>0, <1>1, <1>3, <2>1, <2>2
  <2>3. CASE y # FirstYear + 1
    <3>1. y - 1 \in Nat /\ FirstYear + 1 <= y - 1 /\ y - 1 \notin S /\ (y - 1) + 1 = y
      BY <1>0, <1>3, <2>1, <2>3
    <3>2. Pins!NewYear(y) \in Int
      BY <1>0, <2>1, YearsAdjoin
    <3>3. ~(n < Pins!NewYear(y))
      BY <3>1
    <3> QED
      BY <1>0, <1>1, <1>3, <2>1, <3>2, <3>3
  <2> QED
    BY <2>2, <2>3
<1> DEFINE B == Pins!DaysBefore(y)
           N == Pins!NewYear(y)
           M == {m \in 1..12 : n < N + B[m] + Pins!Length(y, m)}
<1>5. N \in Int /\ Pins!NewYear(y + 1) = N + 365 + Added(y) /\ Added(y) \in {0, 1}
  BY <1>4, YearsAdjoin DEF Added
<1>6. /\ \A m \in 1..12 : B[m] \in Nat /\ Pins!Length(y, m) \in 28..31
      /\ \A m \in 1..11 : B[m + 1] = B[m] + Pins!Length(y, m)
      /\ B[1] = 0 /\ B[12] = 334 + Added(y) /\ Pins!Length(y, 12) = 31
  BY MonthsAdjoin
<1> HIDE DEF B, N
<1>7. n < N + B[12] + Pins!Length(y, 12)
  BY <1>1, <1>4, <1>5, <1>6 DEF N
<1>8. N <= n
  BY <1>4 DEF N
<1>9. PICK m \in M : \A k \in M : m <= k
  <2>1. M \in SUBSET Nat /\ M # {}
    BY <1>7
  <2> HIDE DEF M
  <2> QED
    BY <2>1, LeastNat
<1>10. m \in 1..12 /\ n < N + B[m] + Pins!Length(y, m) /\ N + B[m] <= n
  <2>1. CASE m = 1
    BY <1>1, <1>5, <1>6, <1>8, <1>9, <2>1
  <2>2. CASE m # 1
    <3>1. m - 1 \in 1..11 /\ m - 1 \notin M /\ (m - 1) + 1 = m /\ m - 1 \in 1..12
      BY <1>9, <2>2
    <3>2. B[m] = B[m - 1] + Pins!Length(y, m - 1)
      BY <1>6, <3>1
    <3>3. ~(n < N + B[m - 1] + Pins!Length(y, m - 1))
      BY <3>1
    <3> HIDE DEF M
    <3>4. B[m - 1] \in Nat /\ Pins!Length(y, m - 1) \in 28..31
      BY <1>6, <3>1
    <3> QED
      BY <1>1, <1>5, <1>9, <3>2, <3>3, <3>4 DEF M
  <2> QED
    BY <2>1, <2>2
<1> DEFINE d == n - (N + B[m]) + 1
<1>11. B[m] \in Nat /\ Pins!Length(y, m) \in 28..31
  BY <1>6, <1>10
<1>12. d \in 1..Pins!Length(y, m) /\ n = N + B[m] + d - 1 /\ d \in 1..31
  BY <1>1, <1>5, <1>10, <1>11
<1> HIDE DEF d
<1>13. DayIn(y, m, d) /\ n = Pins!Day(y, m, d)
  BY <1>4, <1>10, <1>12 DEF DayIn, Pins!Day, N, B
<1> QED
  BY <1>4, <1>10, <1>12, <1>13

\* The month after another.
MonthAfter(z, k, y, m) == (m # 12 /\ z = y /\ k = m + 1) \/ (m = 12 /\ z = y + 1 /\ k = 1)

\* The first day of the next month.
LEMMA NextMonths ==
  ASSUME NEW y \in Pins!Year, NEW m, NEW d, DayIn(y, m, d), NEW z \in Pins!Year, NEW k,
         \/ m # 12 /\ z = y /\ k = m + 1
         \/ m = 12 /\ z = y + 1 /\ k = 1
  PROVE  /\ DayIn(z, k, 1) /\ Pins!Day(z, k, 1) = Pins!Day(y, m, 1) + Pins!Length(y, m)
         /\ Pins!NextMonth(Pins!Day(y, m, d)) = Pins!Day(z, k, 1)
<1>0. y \in Nat \ {0} /\ z \in Nat \ {0} /\ m \in 1..12 /\ k \in 1..12
  BY CalendarConstants DEF Pins!Year, DayIn
<1>1. /\ Pins!Length(y, m) \in 28..31 /\ Pins!Length(z, k) \in 28..31
      /\ Pins!DaysBefore(y)[m] \in Nat /\ Pins!NewYear(y) \in Int
  BY <1>0, MonthsAdjoin, YearsAdjoin
<1>2. DayIn(z, k, 1) /\ DayIn(z, k, 32 - Pins!Length(y, m)) /\ DayIn(y, m, 28)
  BY <1>0, <1>1 DEF DayIn
<1>3. Pins!Day(z, k, 1) = Pins!Day(y, m, 1) + Pins!Length(y, m)
  <2>1. CASE m # 12
    <3>1. m \in 1..11 /\ k = m + 1 /\ z = y
      BY <1>0, <2>1
    <3>2. Pins!DaysBefore(y)[m + 1] = Pins!DaysBefore(y)[m] + Pins!Length(y, m)
      BY <3>1, MonthsAdjoin
    <3> QED
      BY <1>1, <3>1, <3>2 DEF Pins!Day
  <2>2. CASE m = 12
    <3>1. /\ Pins!DaysBefore(z)[1] = 0 /\ Pins!DaysBefore(y)[12] = 334 + Added(y) /\ Pins!Length(y, 12) = 31
          /\ Added(y) \in {0, 1}
      BY MonthsAdjoin
    <3>2. Pins!NewYear(z) = Pins!NewYear(y) + 365 + Added(y)
      BY <1>0, <2>2, YearsAdjoin DEF Added
    <3> QED
      BY <1>1, <2>2, <3>1, <3>2 DEF Pins!Day
  <2> QED
    BY <2>1, <2>2
<1>4. Pins!replace(Pins!Day(y, m, d), 28) = Pins!Day(y, m, 28)
  BY PartsAre
<1>5. Pins!Day(y, m, 28) + 4 = Pins!Day(z, k, 32 - Pins!Length(y, m))
  <2>1. Pins!Day(y, m, 28) = Pins!Day(y, m, 1) + 28 - 1 /\ Pins!Day(y, m, 1) \in Int
    BY <1>2, DaysAre
  <2>2. Pins!Day(z, k, 32 - Pins!Length(y, m)) = Pins!Day(z, k, 1) + (32 - Pins!Length(y, m)) - 1
    BY <1>2, DaysAre
  <2> QED
    BY <1>1, <1>3, <2>1, <2>2
<1>6. Pins!replace(Pins!Day(z, k, 32 - Pins!Length(y, m)), 1) = Pins!Day(z, k, 1)
  BY <1>2, PartsAre
<1> QED
  BY <1>2, <1>3, <1>4, <1>5, <1>6 DEF Pins!NextMonth

\* Periods one after the other, today in the second.
Span(a, b) == [first |-> a, last |-> b]
Adjoin(a, b, c) ==
  /\ b.first <= today /\ today <= b.last
  /\ a.first <= a.last /\ a.last + 1 = b.first
  /\ b.last + 1 = c.first /\ c.first <= c.last

LEMMA PeriodsAre ==
  LET R(p) == Pins!_resolve_relative_date(p)
      first == Pins!replace(today, 1)
      next == Pins!NextMonth(today)
      monday == today - Pins!weekday(today)
      y == Pins!YearOf(today)
      q == Pins!QuarterStart(today)
      after == Pins!this_quarter(today).last + 1
  IN  /\ R("today") = Span(today, today) /\ R("yesterday") = Span(today - 1, today - 1)
      /\ R("tomorrow") = Span(today + 1, today + 1)
      /\ R("this_week") = Span(monday, monday + 6) /\ R("last_week") = Span(monday - 7, monday - 1)
      /\ R("next_week") = Span(monday + 7, monday + 13)
      /\ R("this_month") = Span(first, next - 1) /\ R("last_month") = Span(Pins!replace(first - 1, 1), first - 1)
      /\ R("next_month") = Span(next, Pins!NextMonth(next) - 1)
      /\ R("this_quarter") = Pins!this_quarter(today)
      /\ R("last_quarter") = Span(IF Pins!MonthOf(today) > 3 THEN Pins!Day(y, q - 3, 1) ELSE Pins!Day(y - 1, 10, 1),
                                  Pins!Day(y, q, 1) - 1)
      /\ R("next_quarter") = Span(after, Pins!replace(Pins!Day(Pins!YearOf(after), Pins!MonthOf(after) + 2, 28) + 4, 1) - 1)
      /\ R("this_year") = Span(Pins!Day(y, 1, 1), Pins!Day(y, 12, 31))
      /\ R("last_year") = Span(Pins!Day(y - 1, 1, 1), Pins!Day(y - 1, 12, 31))
      /\ R("next_year") = Span(Pins!Day(y + 1, 1, 1), Pins!Day(y + 1, 12, 31))
  BY DEF Pins!_resolve_relative_date, Span

\* The first of a month and its last day.
LEMMA MonthSpans ==
  ASSUME NEW y \in Pins!Year, NEW m \in 1..12
  PROVE  /\ DayIn(y, m, 1) /\ DayIn(y, m, Pins!Length(y, m)) /\ Pins!Day(y, m, 1) \in Int /\ Pins!Length(y, m) \in 28..31
         /\ Pins!Day(y, m, Pins!Length(y, m)) = Pins!Day(y, m, 1) + Pins!Length(y, m) - 1
<1>1. DayIn(y, m, 1) /\ DayIn(y, m, Pins!Length(y, m)) /\ Pins!Length(y, m) \in 28..31
  BY CalendarConstants, MonthsAdjoin DEF DayIn, Pins!Year
<1> QED
  BY <1>1, DaysAre

\* The last of the month before.
LEMMA LastMonths ==
  ASSUME NEW y \in Pins!Year, y - 1 \in Pins!Year, NEW m \in 1..12
  PROVE  \E z \in Pins!Year, k \in 1..12 :
           /\ Pins!Day(y, m, 1) - 1 = Pins!Day(z, k, Pins!Length(z, k))
           /\ Pins!replace(Pins!Day(y, m, 1) - 1, 1) = Pins!Day(z, k, 1)
           /\ Pins!Day(z, k, 1) <= Pins!Day(y, m, 1) - 1
<1>1. \E z \in Pins!Year, k \in 1..12 : MonthAfter(y, m, z, k)
  <2>1. CASE m = 1
    <3>1. (y - 1) + 1 = y
      BY CalendarConstants DEF Pins!Year
    <3>2. MonthAfter(y, m, y - 1, 12)
      BY <2>1, <3>1 DEF MonthAfter
    <3> QED
      BY <3>2
  <2>2. CASE m # 1
    <3>1. m - 1 \in 1..12 /\ m - 1 # 12 /\ m = (m - 1) + 1
      BY <2>2
    <3>2. MonthAfter(y, m, y, m - 1)
      BY <3>1, Zenon DEF MonthAfter
    <3> QED
      BY <3>1, <3>2
  <2> QED
    BY <2>1, <2>2
<1>10. PICK z \in Pins!Year, k \in 1..12 : MonthAfter(y, m, z, k)
  BY <1>1
<1>2. /\ DayIn(z, k, 1) /\ DayIn(z, k, Pins!Length(z, k)) /\ Pins!Day(z, k, 1) \in Int /\ Pins!Length(z, k) \in 28..31
      /\ Pins!Day(z, k, Pins!Length(z, k)) = Pins!Day(z, k, 1) + Pins!Length(z, k) - 1
  BY MonthSpans
<1>3. Pins!Day(y, m, 1) = Pins!Day(z, k, 1) + Pins!Length(z, k)
  BY <1>10, <1>2, NextMonths DEF MonthAfter
<1>4. Pins!Day(y, m, 1) - 1 = Pins!Day(z, k, Pins!Length(z, k))
  BY <1>2, <1>3
<1>5. Pins!replace(Pins!Day(z, k, Pins!Length(z, k)), 1) = Pins!Day(z, k, 1)
  BY <1>2, PartsAre
<1>6. Pins!Day(z, k, 1) <= Pins!Day(y, m, 1) - 1
  BY <1>2, <1>3
<1> QED
  BY <1>4, <1>5, <1>6

LEMMA Around ==
  ASSUME NEW y \in (FirstYear + 1)..(LastYear - 1)
  PROVE  y - 1 \in Pins!Year /\ y \in Pins!Year /\ y + 1 \in Pins!Year /\ y \in Nat \ {0} /\ y - 1 \in Nat \ {0}
BY CalendarConstants DEF Pins!Year

LEMMA DaysAndWeeks ==
  ASSUME today \in Int
  PROVE  LET R(p) == Pins!_resolve_relative_date(p)
         IN  /\ Adjoin(R("yesterday"), R("today"), R("tomorrow"))
             /\ Adjoin(R("last_week"), R("this_week"), R("next_week"))
<1>1. Pins!weekday(today) \in 0..6
  BY DEF Pins!weekday
<1> QED
  BY <1>1, PeriodsAre DEF Adjoin, Span

LEMMA MonthPeriods ==
  ASSUME NEW y \in (FirstYear + 1)..(LastYear - 1), NEW m, NEW d, DayIn(y, m, d), today = Pins!Day(y, m, d)
  PROVE  LET R(p) == Pins!_resolve_relative_date(p)
         IN  /\ Adjoin(R("last_month"), R("this_month"), R("next_month"))
             /\ Pins!replace(today, 1) \in Int /\ Pins!NextMonth(today) \in Int
             /\ Pins!replace(Pins!replace(today, 1) - 1, 1) \in Int
<1>1. y \in Pins!Year /\ y - 1 \in Pins!Year /\ y + 1 \in Pins!Year /\ m \in 1..12
  BY Around DEF DayIn
<1> DEFINE first == Pins!Day(y, m, 1)
           next == Pins!NextMonth(today)
<1>2. /\ first \in Int /\ first <= today /\ today < first + Pins!Length(y, m) /\ Pins!replace(today, 1) = first
      /\ Pins!Length(y, m) \in 28..31 /\ today \in Int
  <2>1. first \in Int /\ today = first + d - 1 /\ first <= today /\ today < first + Pins!Length(y, m)
    BY DaysAre
  <2>2. d \in 1..Pins!Length(y, m) /\ Pins!Length(y, m) \in 28..31
    BY <1>1, MonthsAdjoin DEF DayIn
  <2>3. Pins!replace(today, 1) = first
    BY <1>1, PartsAre
  <2> HIDE DEF first
  <2> QED
    BY <2>1, <2>2, <2>3
<1>3. \A v \in Pins!Year, j \in 1..12 : (j = 12 => v + 1 \in Pins!Year)
        => \E z \in Pins!Year, k \in 1..12 : MonthAfter(z, k, v, j)
  <2> SUFFICES ASSUME NEW v \in Pins!Year, NEW j \in 1..12, j = 12 => v + 1 \in Pins!Year
               PROVE  \E z \in Pins!Year, k \in 1..12 : MonthAfter(z, k, v, j)
    OBVIOUS
  <2>1. CASE j = 12
    BY <2>1 DEF MonthAfter
  <2>2. CASE j # 12
    <3>1. j + 1 \in 1..12
      BY <2>2
    <3>2. MonthAfter(v, j + 1, v, j)
      BY <2>2, Zenon DEF MonthAfter
    <3> QED
      BY <3>1, <3>2
  <2> QED
    BY <2>1, <2>2
<1>11. PICK z \in Pins!Year, k \in 1..12 : MonthAfter(z, k, y, m)
  BY <1>1, <1>3
<1>4. DayIn(z, k, 1) /\ next = Pins!Day(z, k, 1) /\ next = first + Pins!Length(y, m)
  BY <1>1, <1>11, NextMonths DEF MonthAfter
<1>5. PICK zz \in Pins!Year, kk \in 1..12 : MonthAfter(zz, kk, z, k)
  <2>1. k = 12 => z = y
    BY <1>1, <1>11 DEF MonthAfter
  <2> QED
    BY <1>1, <1>3, <2>1
<1>6. Pins!NextMonth(next) = next + Pins!Length(z, k)
  BY <1>4, <1>5, NextMonths DEF MonthAfter
<1>7. Pins!Length(z, k) \in 28..31
  BY MonthSpans
<1>8. Pins!replace(first - 1, 1) \in Int /\ Pins!replace(first - 1, 1) <= first - 1
  <2>1. PICK v \in Pins!Year, j \in 1..12 : Pins!replace(first - 1, 1) = Pins!Day(v, j, 1) /\ Pins!Day(v, j, 1) <= first - 1
    BY <1>1, LastMonths
  <2> QED
    BY <2>1, MonthSpans
<1> HIDE DEF first, next
<1>9. next \in Int
  BY <1>2, <1>4
<1>10. /\ Pins!_resolve_relative_date("this_month") = Span(first, next - 1)
       /\ Pins!_resolve_relative_date("last_month") = Span(Pins!replace(first - 1, 1), first - 1)
       /\ Pins!_resolve_relative_date("next_month") = Span(next, Pins!NextMonth(next) - 1)
  <2> DEFINE f == Pins!replace(today, 1)
  <2>1. /\ Pins!_resolve_relative_date("this_month") = Span(f, next - 1)
        /\ Pins!_resolve_relative_date("last_month") = Span(Pins!replace(f - 1, 1), f - 1)
        /\ Pins!_resolve_relative_date("next_month") = Span(next, Pins!NextMonth(next) - 1)
    BY PeriodsAre DEF next
  <2> QED
    BY <1>2, <2>1
<1> DEFINE before == Pins!replace(first - 1, 1)
           after == Pins!NextMonth(next)
<1>12. /\ Span(first, next - 1).first = first /\ Span(first, next - 1).last = next - 1
       /\ Span(before, first - 1).first = before /\ Span(before, first - 1).last = first - 1
       /\ Span(next, after - 1).first = next /\ Span(next, after - 1).last = after - 1
  BY DEF Span
<1> HIDE DEF before, after
<1>13. /\ first <= today /\ today <= next - 1 /\ before <= first - 1 /\ (first - 1) + 1 = first
       /\ (next - 1) + 1 = next /\ next <= after - 1
  BY <1>2, <1>4, <1>6, <1>7, <1>8, <1>9 DEF before, after
<1>14. Adjoin(Span(before, first - 1), Span(first, next - 1), Span(next, after - 1))
  BY <1>12, <1>13 DEF Adjoin
<1> QED
  BY <1>2, <1>8, <1>9, <1>10, <1>14 DEF before, after, next

LEMMA DaysAtFirst ==
  ASSUME FirstOfDays
  PROVE  today \in Pins!Days
<1>0. FirstYear + 1 \in Nat \ {0} /\ LastYear \in Nat \ {0} /\ FirstYear + 1 < LastYear
  BY CalendarConstants
<1>1. /\ Pins!NewYear(FirstYear + 1) \in Int /\ Pins!NewYear(LastYear) \in Int
      /\ Pins!NewYear((FirstYear + 1) + 1) \in Int
      /\ Pins!NewYear((FirstYear + 1) + 1) > Pins!NewYear(FirstYear + 1)
  BY <1>0, YearsAdjoin
<1>2. Pins!NewYear((FirstYear + 1) + 1) <= Pins!NewYear(LastYear)
  BY <1>0, YearsGrow
<1>3. \A y : Pins!DaysBefore(y)[1] = 0
  BY MonthsAdjoin
<1>4. Pins!Day(FirstYear + 1, 1, 1) = Pins!NewYear(FirstYear + 1) /\ Pins!Day(LastYear, 1, 1) = Pins!NewYear(LastYear)
  BY <1>1, <1>3 DEF Pins!Day
<1> QED
  BY <1>1, <1>2, <1>4 DEF Pins!Days, FirstOfDays

LEMMA MonthsInOrder ==
  ASSUME NEW y \in Pins!Year, NEW j \in 1..12, NEW k \in 1..12, j < k
  PROVE  Pins!Day(y, j, 1) + Pins!Length(y, j) <= Pins!Day(y, k, 1)
<1> DEFINE B == Pins!DaysBefore(y)
           N == Pins!NewYear(y)
<1>1. B[j] + Pins!Length(y, j) <= B[k] /\ B[j] \in Nat /\ B[k] \in Nat /\ Pins!Length(y, j) \in 28..31
  BY MonthsAdjoin
<1>2. N \in Int
  BY CalendarConstants, YearsAdjoin DEF Pins!Year
<1>3. Pins!Day(y, j, 1) = N + B[j] + 1 - 1 /\ Pins!Day(y, k, 1) = N + B[k] + 1 - 1
  BY DEF Pins!Day
<1> HIDE DEF B, N
<1> QED
  BY <1>1, <1>2, <1>3

\* The day after a quarter that ends with a month.
LEMMA QuarterEnds ==
  ASSUME NEW y \in Pins!Year, NEW m \in 1..12, NEW z \in Pins!Year, NEW k, MonthAfter(z, k, y, m)
  PROVE  /\ Pins!replace(Pins!Day(y, m, 28) + 4, 1) = Pins!Day(z, k, 1)
         /\ Pins!Day(z, k, 1) = Pins!Day(y, m, 1) + Pins!Length(y, m)
<1>1. DayIn(y, m, 28)
  <2>1. Pins!Length(y, m) \in 28..31 /\ DayIn(y, m, 1)
    BY MonthSpans
  <2> QED
    BY <2>1 DEF DayIn
<1>2. Pins!replace(Pins!Day(y, m, 28), 28) = Pins!Day(y, m, 28)
  BY <1>1, PartsAre
<1>3. Pins!NextMonth(Pins!Day(y, m, 28)) = Pins!Day(z, k, 1) /\ Pins!Day(z, k, 1) = Pins!Day(y, m, 1) + Pins!Length(y, m)
  BY <1>1, NextMonths DEF MonthAfter
<1> QED
  BY <1>2, <1>3 DEF Pins!NextMonth

LEMMA QuarterPeriods ==
  ASSUME NEW y \in (FirstYear + 1)..(LastYear - 1), NEW m, NEW d, DayIn(y, m, d), today = Pins!Day(y, m, d)
  PROVE  LET R(p) == Pins!_resolve_relative_date(p)
         IN  Adjoin(R("last_quarter"), R("this_quarter"), R("next_quarter"))
<1>1. y \in Pins!Year /\ y - 1 \in Pins!Year /\ y + 1 \in Pins!Year /\ m \in 1..12 /\ y \in Nat
  BY Around DEF DayIn
<1> DEFINE q == Pins!QuarterStart(today)
           D(z, k) == Pins!Day(z, k, 1)
           L(z, k) == Pins!Length(z, k)
<1>2. Pins!YearOf(today) = y /\ Pins!MonthOf(today) = m
  BY <1>1, PartsAre
<1>3. q \in {1, 4, 7, 10} /\ q <= m /\ m <= q + 2 /\ (m > 3 <=> q # 1)
  <2>1. q = ((m - 1) \div 3) * 3 + 1
    BY <1>2 DEF Pins!QuarterStart
  <2> HIDE DEF q
  <2>2. m \in {1, 2, 3, 4, 5, 6, 7, 8, 9, 10, 11, 12}
    BY <1>1
  <2> QED
    BY <2>1, <2>2
<1>4. Pins!this_quarter(today) = Span(D(y, q), Pins!replace(Pins!Day(y, q + 2, 28) + 4, 1) - 1)
  BY <1>2 DEF Pins!this_quarter, Span
<1> HIDE DEF q
<1>5. PICK z \in {y, y + 1}, k \in {1, 4, 7, 10} : MonthAfter(z, k, y, q + 2) /\ (z = y + 1 => k = 1) /\ (k = 1 => z = y + 1)
  <2>1. CASE q = 10
    BY <2>1 DEF MonthAfter
  <2>2. CASE q \in {1, 4, 7}
    <3>1. q + 3 \in {1, 4, 7, 10} /\ q + 3 # 1 /\ q + 2 # 12 /\ q + 3 = (q + 2) + 1 /\ y # y + 1
      BY <1>1, <2>2
    <3>2. MonthAfter(y, q + 3, y, q + 2)
      BY <3>1 DEF MonthAfter
    <3> QED
      BY <3>1, <3>2
  <2> QED
    BY <1>3, <2>1, <2>2
<1>6. z \in Pins!Year /\ k + 2 \in 1..12 /\ k \in 1..12 /\ q + 2 \in 1..12 /\ q \in 1..12
  BY <1>1, <1>3, <1>5
<1>7. Pins!replace(Pins!Day(y, q + 2, 28) + 4, 1) = D(z, k) /\ D(z, k) = D(y, q + 2) + L(y, q + 2)
  BY <1>1, <1>5, <1>6, QuarterEnds
<1>8. /\ D(y, q) \in Int /\ D(z, k) \in Int /\ D(y, q + 2) \in Int /\ D(y, m) \in Int /\ D(z, k + 2) \in Int
      /\ L(y, q) \in 28..31 /\ L(y, m) \in 28..31 /\ L(y, q + 2) \in 28..31 /\ L(z, k) \in 28..31 /\ L(z, k + 2) \in 28..31
  BY <1>1, <1>6, MonthSpans
<1>9. D(y, q) <= D(y, m)
  <2>1. CASE q = m
    BY <1>8, <2>1
  <2>2. CASE q # m
    <3>1. D(y, q) + L(y, q) <= D(y, m)
      BY <1>1, <1>3, <1>6, <2>2, MonthsInOrder
    <3> HIDE DEF D, L
    <3> QED
      BY <1>8, <3>1
  <2> QED
    BY <2>1, <2>2
<1>10. D(y, m) + L(y, m) <= D(y, q + 2) + L(y, q + 2)
  <2>1. CASE q + 2 = m
    BY <1>8, <2>1
  <2>2. CASE q + 2 # m
    <3>1. D(y, m) + L(y, m) <= D(y, q + 2)
      BY <1>1, <1>3, <1>6, <2>2, MonthsInOrder
    <3> HIDE DEF D, L
    <3> QED
      BY <1>8, <3>1
  <2> QED
    BY <2>1, <2>2
<1>11. today \in Int /\ D(y, m) <= today /\ today < D(y, m) + L(y, m)
  <2>1. today = D(y, m) + d - 1 /\ D(y, m) <= today /\ today < D(y, m) + L(y, m)
    BY DaysAre
  <2>2. d \in Int
    BY <1>8 DEF DayIn
  <2> HIDE DEF D, L
  <2> QED
    BY <1>8, <2>1, <2>2
<1> DEFINE after == Pins!this_quarter(today).last + 1
           end == Pins!replace(Pins!Day(z, k + 2, 28) + 4, 1)
<1>12. after = D(z, k)
  <2> HIDE DEF D
  <2> QED
    BY <1>4, <1>7, <1>8 DEF Span
<1>13. Pins!YearOf(after) = z /\ Pins!MonthOf(after) = k
  <2>1. DayIn(z, k, 1)
    BY <1>6, MonthSpans
  <2> HIDE DEF after
  <2> QED
    BY <1>6, <1>12, <2>1, PartsAre
<1>14. end = D(z, k + 2) + L(z, k + 2)
  <2>1. PICK zz \in Pins!Year, kk \in 1..12 : MonthAfter(zz, kk, z, k + 2)
    <3>1. CASE k = 10
      <4>1. z = y /\ k + 2 = 12 /\ MonthAfter(y + 1, 1, y, 12)
        BY <1>5, <3>1 DEF MonthAfter
      <4> QED
        BY <1>1, <3>1, <4>1
    <3>2. CASE k # 10
      <4>1. k + 3 \in 1..12 /\ k + 2 # 12 /\ k + 3 = (k + 2) + 1
        BY <1>5, <3>2
      <4>2. MonthAfter(z, k + 3, z, k + 2)
        BY <4>1 DEF MonthAfter
      <4> QED
        BY <1>6, <4>1, <4>2
    <3> QED
      BY <3>1, <3>2
  <2> QED
    BY <1>6, <2>1, QuarterEnds
<1>15. D(z, k) <= D(z, k + 2)
  <2>1. D(z, k) + L(z, k) <= D(z, k + 2)
    BY <1>5, <1>6, MonthsInOrder
  <2> HIDE DEF D, L
  <2> QED
    BY <1>8, <2>1
<1> DEFINE begins == IF m > 3 THEN Pins!Day(y, q - 3, 1) ELSE Pins!Day(y - 1, 10, 1)
<1>16. begins \in Int /\ begins <= D(y, q) - 1
  <2>1. CASE m > 3
    <3>1. q - 3 \in 1..12 /\ q - 3 < q
      BY <1>3, <2>1
    <3>2. D(y, q - 3) + L(y, q - 3) <= D(y, q) /\ D(y, q - 3) \in Int /\ L(y, q - 3) \in 28..31
      BY <1>1, <1>6, <3>1, MonthsInOrder, MonthSpans
    <3>3. begins = D(y, q - 3)
      BY <2>1
    <3> HIDE DEF D, L, begins
    <3> QED
      BY <1>8, <3>2, <3>3
  <2>2. CASE ~(m > 3)
    <3>1. q = 1 /\ begins = D(y - 1, 10) /\ MonthAfter(y, 1, y - 1, 12)
      BY <1>1, <1>3, <2>2 DEF MonthAfter
    <3>2. D(y, 1) = D(y - 1, 12) + L(y - 1, 12)
      BY <1>1, <3>1, QuarterEnds
    <3>3. D(y - 1, 10) + L(y - 1, 10) <= D(y - 1, 12)
      BY <1>1, MonthsInOrder
    <3>4. /\ D(y - 1, 10) \in Int /\ D(y - 1, 12) \in Int
          /\ L(y - 1, 10) \in 28..31 /\ L(y - 1, 12) \in 28..31
      BY <1>1, MonthSpans
    <3> HIDE DEF D, L, begins
    <3> QED
      BY <3>1, <3>2, <3>3, <3>4
  <2> QED
    BY <2>1, <2>2
<1>17. /\ Pins!_resolve_relative_date("this_quarter") = Span(D(y, q), D(z, k) - 1)
       /\ Pins!_resolve_relative_date("last_quarter") = Span(begins, D(y, q) - 1)
       /\ Pins!_resolve_relative_date("next_quarter") = Span(D(z, k), end - 1)
  <2>1. Pins!_resolve_relative_date("this_quarter") = Pins!this_quarter(today)
    BY PeriodsAre
  <2>2. Pins!_resolve_relative_date("last_quarter") = Span(begins, D(y, q) - 1)
    BY <1>2, PeriodsAre DEF q
  <2>3. Pins!_resolve_relative_date("next_quarter")
          = Span(after, Pins!replace(Pins!Day(Pins!YearOf(after), Pins!MonthOf(after) + 2, 28) + 4, 1) - 1)
    BY PeriodsAre
  <2> HIDE DEF after
  <2> QED
    BY <1>4, <1>7, <1>12, <1>13, <2>1, <2>2, <2>3
<1> HIDE DEF D, L, begins, after, end
<1>18. /\ D(y, q) <= today /\ today <= D(z, k) - 1 /\ begins <= D(y, q) - 1 /\ (D(y, q) - 1) + 1 = D(y, q)
       /\ (D(z, k) - 1) + 1 = D(z, k) /\ D(z, k) <= end - 1
  BY <1>7, <1>8, <1>9, <1>10, <1>11, <1>14, <1>15, <1>16
<1>19. \A a, b : Span(a, b).first = a /\ Span(a, b).last = b
  BY DEF Span
<1> QED
  BY <1>17, <1>18, <1>19 DEF Adjoin

LEMMA YearPeriods ==
  ASSUME NEW y \in (FirstYear + 1)..(LastYear - 1), NEW m, NEW d, DayIn(y, m, d), today = Pins!Day(y, m, d)
  PROVE  LET R(p) == Pins!_resolve_relative_date(p)
         IN  Adjoin(R("last_year"), R("this_year"), R("next_year"))
<1>1. y \in Pins!Year /\ y - 1 \in Pins!Year /\ y + 1 \in Pins!Year /\ m \in 1..12 /\ y \in Nat /\ y - 1 \in Nat \ {0}
  BY Around DEF DayIn
<1>2. Pins!YearOf(today) = y
  BY <1>1, PartsAre
<1>3. ASSUME NEW v \in Pins!Year
      PROVE  /\ Pins!Day(v, 1, 1) = Pins!NewYear(v) /\ Pins!Day(v, 12, 31) + 1 = Pins!NewYear(v + 1)
             /\ Pins!NewYear(v) \in Int /\ Pins!Day(v, 12, 31) \in Int /\ Pins!NewYear(v) < Pins!Day(v, 12, 31)
  <2>1. /\ v \in Nat \ {0} /\ Pins!NewYear(v) \in Int
        /\ Pins!NewYear(v + 1) = Pins!NewYear(v) + 365 + Added(v) /\ Added(v) \in {0, 1}
    BY CalendarConstants, YearsAdjoin DEF Pins!Year, Added
  <2>2. Pins!DaysBefore(v)[1] = 0 /\ Pins!DaysBefore(v)[12] = 334 + Added(v)
    BY MonthsAdjoin
  <2>3. Pins!Day(v, 1, 1) = Pins!NewYear(v) + 0 + 1 - 1 /\ Pins!Day(v, 12, 31) = Pins!NewYear(v) + (334 + Added(v)) + 31 - 1
    BY <2>2 DEF Pins!Day
  <2> QED
    BY <2>1, <2>3
<1>4. (y - 1) + 1 = y
  BY <1>1
<1>5. /\ Pins!NewYear(y) <= today /\ today < Pins!NewYear(y + 1)
  BY DaysAre
<1>6. today \in Int
  <2>1. d \in Int
    BY <1>1, MonthSpans DEF DayIn
  <2> QED
    BY <2>1, DaysAre
<1>7. /\ Pins!_resolve_relative_date("this_year") = Span(Pins!Day(y, 1, 1), Pins!Day(y, 12, 31))
      /\ Pins!_resolve_relative_date("last_year") = Span(Pins!Day(y - 1, 1, 1), Pins!Day(y - 1, 12, 31))
      /\ Pins!_resolve_relative_date("next_year") = Span(Pins!Day(y + 1, 1, 1), Pins!Day(y + 1, 12, 31))
  BY <1>2, PeriodsAre
<1>8. \A a, b : Span(a, b).first = a /\ Span(a, b).last = b
  BY DEF Span
<1>9. /\ Pins!Day(y, 1, 1) <= today /\ today <= Pins!Day(y, 12, 31)
      /\ Pins!Day(y - 1, 1, 1) <= Pins!Day(y - 1, 12, 31) /\ Pins!Day(y - 1, 12, 31) + 1 = Pins!Day(y, 1, 1)
      /\ Pins!Day(y, 12, 31) + 1 = Pins!Day(y + 1, 1, 1) /\ Pins!Day(y + 1, 1, 1) <= Pins!Day(y + 1, 12, 31)
  BY <1>1, <1>3, <1>4, <1>5, <1>6
<1> QED
  BY <1>7, <1>8, <1>9 DEF Adjoin

LEMMA PeriodsHold ==
  ASSUME today \in Pins!Days
  PROVE  Pins!PeriodsAdjoin
<1> DEFINE R(p) == Pins!_resolve_relative_date(p)
<1>1. PICK y \in (FirstYear + 1)..(LastYear - 1), m \in 1..12, d \in 1..31 : DayIn(y, m, d) /\ today = Pins!Day(y, m, d)
  BY EveryDay
<1>2. today \in Int
  BY <1>1, DaysAre
<1>3. /\ Adjoin(R("yesterday"), R("today"), R("tomorrow")) /\ Adjoin(R("last_week"), R("this_week"), R("next_week"))
      /\ Adjoin(R("last_month"), R("this_month"), R("next_month"))
      /\ Adjoin(R("last_quarter"), R("this_quarter"), R("next_quarter"))
      /\ Adjoin(R("last_year"), R("this_year"), R("next_year"))
  BY <1>1, <1>2, DaysAndWeeks, MonthPeriods, QuarterPeriods, YearPeriods
<1> HIDE DEF R
<1>4. \A p \in Pins!Neighbours : Adjoin(R(p[1]), R(p[2]), R(p[3]))
  BY <1>3 DEF Pins!Neighbours
<1> QED
  BY <1>4 DEF Pins!PeriodsAdjoin, Adjoin, R

\* A list from the midnight of a day until before that of another.
Until(a, b) == [from |-> a, to |-> b, upto |-> FALSE]

LEMMA ListsAre ==
  LET G(n) == Pins!get_dynamic_listview(n)
      first == Pins!replace(today, 1)
      monday == today - Pins!weekday(today)
  IN  /\ G("today") = Until(today, today + 1) /\ G("yesterday") = Until(today - 1, today)
      /\ G("this_week") = Until(monday, today + 1) /\ G("last_week") = Until(monday - 7, monday)
      /\ G("this_month") = Until(first, today + 1)
      /\ G("last_month") = [from |-> Pins!replace(first - 1, 1), to |-> first - 1, upto |-> TRUE]
BY DEF Pins!get_dynamic_listview, Until

LEMMA ListsHeld ==
  ASSUME today \in Pins!Days
  PROVE  Pins!ListsAgreeWithPeriods
<1> DEFINE R(p) == Pins!_resolve_relative_date(p)
           G(n) == Pins!get_dynamic_listview(n)
           first == Pins!replace(today, 1)
           next == Pins!NextMonth(today)
           w == Pins!weekday(today)
           before == Pins!replace(first - 1, 1)
           Agree(n) == \A e \in Int, midnight \in BOOLEAN :
             Pins!Lists(G(n), [day |-> e, midnight |-> midnight])
               <=> /\ R(n).first <= e /\ e <= R(n).last /\ e <= today
                   /\ n = "last_month" /\ e = R(n).last => midnight
<1>1. PICK y \in (FirstYear + 1)..(LastYear - 1), m \in 1..12, d \in 1..31 : DayIn(y, m, d) /\ today = Pins!Day(y, m, d)
  BY EveryDay
<1>2. today \in Int /\ w \in 0..6
  BY <1>1, DaysAre DEF Pins!weekday
<1>3. /\ R("today") = Span(today, today) /\ R("yesterday") = Span(today - 1, today - 1)
      /\ R("this_week") = Span(today - w, today - w + 6) /\ R("last_week") = Span(today - w - 7, today - w - 1)
      /\ R("this_month") = Span(first, next - 1) /\ R("last_month") = Span(before, first - 1)
  BY PeriodsAre
<1>4. /\ G("today") = Until(today, today + 1) /\ G("yesterday") = Until(today - 1, today)
      /\ G("this_week") = Until(today - w, today + 1) /\ G("last_week") = Until(today - w - 7, today - w)
      /\ G("this_month") = Until(first, today + 1)
      /\ G("last_month") = [from |-> before, to |-> first - 1, upto |-> TRUE]
  BY ListsAre
<1>5. /\ first \in Int /\ first <= today /\ today <= next - 1 /\ before <= first - 1
      /\ next \in Int /\ before \in Int
  <2>1. /\ Adjoin(R("last_month"), R("this_month"), R("next_month"))
        /\ first \in Int /\ next \in Int /\ before \in Int
    BY <1>1, MonthPeriods
  <2> HIDE DEF R, first, next, before
  <2> QED
    BY <1>3, <2>1 DEF Adjoin, Span
<1> HIDE DEF R, G, first, next, w, before
<1>6. \A a, b : Span(a, b).first = a /\ Span(a, b).last = b
  BY DEF Span
<1>7. \A a, b, e, midnight : Pins!Lists(Until(a, b), [day |-> e, midnight |-> midnight]) <=> a <= e /\ e < b
  BY DEF Until, Pins!Lists
<1>8. Agree("today") /\ Agree("yesterday")
  BY <1>2, <1>3, <1>4, <1>6, <1>7
<1>9. Agree("this_week") /\ Agree("last_week")
  BY <1>2, <1>3, <1>4, <1>6, <1>7
<1>10. Agree("this_month")
  <2> SUFFICES ASSUME NEW e \in Int, NEW midnight \in BOOLEAN
               PROVE  Pins!Lists(G("this_month"), [day |-> e, midnight |-> midnight])
                        <=> R("this_month").first <= e /\ e <= R("this_month").last /\ e <= today
    OBVIOUS
  <2>1. R("this_month").first = first /\ R("this_month").last = next - 1
    BY <1>3, <1>6
  <2>2. Pins!Lists(G("this_month"), [day |-> e, midnight |-> midnight]) <=> first <= e /\ e < today + 1
    BY <1>4, <1>7
  <2>3. first <= e /\ e < today + 1 <=> first <= e /\ e <= next - 1 /\ e <= today
    BY <1>2, <1>5
  <2> QED
    BY <2>1, <2>2, <2>3
<1>11. Agree("last_month")
  BY <1>2, <1>3, <1>4, <1>5, <1>6 DEF Pins!Lists
<1>12. \A n \in Pins!Dynamic : Agree(n) /\ R(n).first \in Int /\ R(n).last \in Int
  <2> HIDE DEF Agree
  <2> QED
    BY <1>2, <1>3, <1>5, <1>6, <1>8, <1>9, <1>10, <1>11 DEF Pins!Dynamic
<1>13. ASSUME NEW n \in Pins!Dynamic, NEW e, NEW midnight \in BOOLEAN,
              e \in {R(n).first - 1, R(n).first, R(n).last, R(n).last + 1, today, today + 1}
       PROVE  Pins!Lists(G(n), [day |-> e, midnight |-> midnight])
                <=> /\ R(n).first <= e /\ e <= R(n).last /\ e <= today
                    /\ n = "last_month" /\ e = R(n).last => midnight
  <2>1. e \in Int
    BY <1>2, <1>12, <1>13
  <2> QED
    BY <1>12, <2>1
<1> QED
  BY <1>13 DEF Pins!ListsAgreeWithPeriods, R, G

-----------------------------------------------------------------------------
\* List views

LEMMA ListConstants ==
  /\ Depth \in Nat /\ 4 <= Depth
  /\ "id" \notin Formula /\ "owner_id" \notin Formula /\ "is_deleted" \notin Formula
BY ReadingAssumption DEF List!ListViewsAssumption

\* The trees within a tree: it, its parts and theirs.
LevelsOf(tree, k, f) ==
  f = [n \in 0..k |-> IF n = 0 THEN {tree} ELSE UNION {List!Parts(t) : t \in f[n - 1]}]

LEMMA LevelsExist ==
  ASSUME NEW tree, NEW k \in Nat
  PROVE  \E f : LevelsOf(tree, k, f)
<1> DEFINE S == {n \in Nat : \E f : LevelsOf(tree, n, f)}
<1>1. 0 \in S
  <2>1. LevelsOf(tree, 0, [n \in 0..0 |-> {tree}])
    BY DEF LevelsOf
  <2> QED
    BY <2>1
<1>2. ASSUME NEW n \in Nat, n \in S PROVE n + 1 \in S
  <2>1. PICK f : LevelsOf(tree, n, f)
    BY <1>2
  <2> DEFINE g == [m \in 0..(n + 1) |-> IF m = n + 1 THEN UNION {List!Parts(t) : t \in f[n]} ELSE f[m]]
             h == [m \in 0..(n + 1) |-> IF m = 0 THEN {tree} ELSE UNION {List!Parts(t) : t \in g[m - 1]}]
  <2>2. ASSUME NEW m \in 0..(n + 1) PROVE g[m] = h[m]
    <3>1. CASE m = n + 1
      <4>1. m # 0 /\ m - 1 = n /\ n \in 0..(n + 1) /\ n # n + 1 /\ g[m - 1] = f[n]
        BY <3>1
      <4> QED
        BY <3>1, <4>1
    <3>2. CASE m = 0
      <4>1. 0 \in 0..n /\ f[0] = {tree} /\ m # n + 1
        BY <2>1, <3>2 DEF LevelsOf
      <4> QED
        BY <3>2, <4>1
    <3>3. CASE m # n + 1 /\ m # 0
      <4>1. m \in 0..n /\ m - 1 \in 0..(n + 1) /\ m - 1 # n + 1 /\ g[m - 1] = f[m - 1] /\ g[m] = f[m]
        BY <3>3
      <4>2. f[m] = UNION {List!Parts(t) : t \in f[m - 1]}
        BY <2>1, <3>3, <4>1 DEF LevelsOf
      <4> QED
        BY <3>3, <4>1, <4>2
    <3> QED
      BY <3>1, <3>2, <3>3
  <2>3. g = h
    BY <2>2
  <2>4. LevelsOf(tree, n + 1, g)
    BY <2>3 DEF LevelsOf
  <2> QED
    BY <2>4
<1> HIDE DEF S
<1>3. k \in S
  BY <1>1, <1>2, ByInduction
<1> QED
  BY <1>3 DEF S

LEMMA SubtreesAre ==
  ASSUME NEW tree
  PROVE  /\ tree \in List!Subtrees(tree)
         /\ List!Parts(tree) \subseteq List!Subtrees(tree)
         /\ \A p \in List!Parts(tree) : List!Parts(p) \subseteq List!Subtrees(tree)
<1> DEFINE f == CHOOSE g : LevelsOf(tree, Depth, g)
<1>1. LevelsOf(tree, Depth, f)
  BY LevelsExist, ListConstants
<1>2. List!Subtrees(tree) = UNION {f[n] : n \in 0..Depth}
  BY DEF List!Subtrees, LevelsOf
<1> HIDE DEF f
<1>3. 0 \in 0..Depth /\ 1 \in 0..Depth /\ 2 \in 0..Depth /\ 1 - 1 = 0 /\ 2 - 1 = 1 /\ 1 # 0 /\ 2 # 0
  BY ListConstants
<1>4. f[0] = {tree} /\ f[1] = UNION {List!Parts(t) : t \in f[0]} /\ f[2] = UNION {List!Parts(t) : t \in f[1]}
  BY <1>1, <1>3 DEF LevelsOf
<1>5. f[0] \subseteq List!Subtrees(tree) /\ f[1] \subseteq List!Subtrees(tree) /\ f[2] \subseteq List!Subtrees(tree)
  BY <1>2, <1>3
<1>6. \A p \in List!Parts(tree) : p \in f[1]
  BY <1>4
<1>7. \A p \in List!Parts(tree) : List!Parts(p) \subseteq f[2]
  BY <1>4, <1>6
<1> QED
  BY <1>4, <1>5, <1>6, <1>7

\* What the trees are worth for a row, those not deeper than n, from what those less deep are.
Valued(trees, row, n, less) ==
  [t \in trees |->
     LET below(p) == IF n = 0 THEN "N" ELSE less[p]
     IN  CASE t[1] = "is"  -> List!parse_condition(t[2], row)
           [] t[1] = "not" -> List!Not3(below(t[2]))
           [] t[1] = "or"  -> IF t[2] = {} THEN "T" ELSE List!Or3({below(p) : p \in t[2]})
           [] t[1] \in {"and", "list"} -> List!And3({below(p) : p \in t[2]})]
ValuesOf(trees, row, k, f) == f = [n \in 0..k |-> Valued(trees, row, n, f[n - 1])]

LEMMA ValuesExist ==
  ASSUME NEW trees, NEW row, NEW k \in Nat
  PROVE  \E f : ValuesOf(trees, row, k, f)
<1> DEFINE S == {n \in Nat : \E f : ValuesOf(trees, row, n, f)}
<1>0. \A x, y : Valued(trees, row, 0, x) = Valued(trees, row, 0, y)
  BY DEF Valued
<1>1. 0 \in S
  <2> DEFINE g == [n \in 0..0 |-> Valued(trees, row, 0, {})]
             h == [n \in 0..0 |-> Valued(trees, row, n, g[n - 1])]
  <2>1. \A n \in 0..0 : n = 0 /\ g[n] = h[n]
    BY <1>0
  <2>2. g = h
    BY <2>1
  <2>3. ValuesOf(trees, row, 0, g)
    BY <2>2 DEF ValuesOf
  <2> QED
    BY <2>3
<1>2. ASSUME NEW n \in Nat, n \in S PROVE n + 1 \in S
  <2>1. PICK f : ValuesOf(trees, row, n, f)
    BY <1>2
  <2> DEFINE g == [m \in 0..(n + 1) |-> IF m = n + 1 THEN Valued(trees, row, n + 1, f[n]) ELSE f[m]]
             h == [m \in 0..(n + 1) |-> Valued(trees, row, m, g[m - 1])]
  <2>2. ASSUME NEW m \in 0..(n + 1) PROVE g[m] = h[m]
    <3>1. CASE m = n + 1
      <4>1. m - 1 = n /\ n \in 0..(n + 1) /\ n # n + 1 /\ g[m - 1] = f[n]
        BY <3>1
      <4> QED
        BY <3>1, <4>1
    <3>2. CASE m = 0
      <4>1. 0 \in 0..n /\ m # n + 1 /\ g[m] = f[0]
        BY <3>2
      <4>2. f[0] = Valued(trees, row, 0, f[0 - 1])
        BY <2>1, <4>1 DEF ValuesOf
      <4> QED
        BY <1>0, <3>2, <4>1, <4>2
    <3>3. CASE m # n + 1 /\ m # 0
      <4>1. m \in 0..n /\ m - 1 \in 0..(n + 1) /\ m - 1 # n + 1 /\ g[m - 1] = f[m - 1] /\ g[m] = f[m]
        BY <3>3
      <4>2. f[m] = Valued(trees, row, m, f[m - 1])
        BY <2>1, <4>1 DEF ValuesOf
      <4> QED
        BY <4>1, <4>2
    <3> QED
      BY <3>1, <3>2, <3>3
  <2>3. g = h
    BY <2>2
  <2>4. ValuesOf(trees, row, n + 1, g)
    BY <2>3 DEF ValuesOf
  <2> QED
    BY <2>4
<1> HIDE DEF S
<1>3. k \in S
  BY <1>1, <1>2, ByInduction
<1> QED
  BY <1>3 DEF S

Worths(trees, row, v) == \A n \in 0..Depth : v[n] = Valued(trees, row, n, v[n - 1])

\* A value for each number up to Depth, the tree's own at the end.
LEMMA WorthIs ==
  ASSUME NEW tree, NEW row
  PROVE  \E v : List!build_nested_criteria(tree, row) = v[Depth][tree] /\ Worths(List!Subtrees(tree), row, v)
<1> DEFINE v == CHOOSE f : ValuesOf(List!Subtrees(tree), row, Depth, f)
<1>1. ValuesOf(List!Subtrees(tree), row, Depth, v)
  BY ValuesExist, ListConstants
<1>2. List!build_nested_criteria(tree, row) = v[Depth][tree]
  BY DEF List!build_nested_criteria, ValuesOf, Valued
<1> HIDE DEF v
<1>3. Worths(List!Subtrees(tree), row, v)
  BY <1>1 DEF ValuesOf, Worths
<1> QED
  BY <1>2, <1>3

\* What is kept of the trees for the database.
KeptOf(trees, n, less) ==
  [t \in trees |->
     IF n > 0 /\ t[1] \in {"and", "or", "list"}
     THEN LET parts == {less[p] : p \in t[2]} \ {<<>>}
              alone == {p \in parts : t[1] # "list" /\ parts = {p}}
          IN  IF parts = {} THEN <<>> ELSE IF alone # {} THEN CHOOSE p \in alone : TRUE ELSE <<t[1], parts>>
     ELSE IF List!IsComputed(t) THEN <<>> ELSE t]
KeptsOf(trees, k, f) == f = [n \in 0..k |-> KeptOf(trees, n, f[n - 1])]

LEMMA KeptsExist ==
  ASSUME NEW trees, NEW k \in Nat
  PROVE  \E f : KeptsOf(trees, k, f)
<1> DEFINE S == {n \in Nat : \E f : KeptsOf(trees, n, f)}
<1>0. \A x, y : KeptOf(trees, 0, x) = KeptOf(trees, 0, y)
  BY DEF KeptOf
<1>1. 0 \in S
  <2> DEFINE g == [n \in 0..0 |-> KeptOf(trees, 0, {})]
             h == [n \in 0..0 |-> KeptOf(trees, n, g[n - 1])]
  <2>1. \A n \in 0..0 : n = 0 /\ g[n] = h[n]
    BY <1>0
  <2>2. g = h
    BY <2>1
  <2>3. KeptsOf(trees, 0, g)
    BY <2>2 DEF KeptsOf
  <2> QED
    BY <2>3
<1>2. ASSUME NEW n \in Nat, n \in S PROVE n + 1 \in S
  <2>1. PICK f : KeptsOf(trees, n, f)
    BY <1>2
  <2> DEFINE g == [m \in 0..(n + 1) |-> IF m = n + 1 THEN KeptOf(trees, n + 1, f[n]) ELSE f[m]]
             h == [m \in 0..(n + 1) |-> KeptOf(trees, m, g[m - 1])]
  <2>2. ASSUME NEW m \in 0..(n + 1) PROVE g[m] = h[m]
    <3>1. CASE m = n + 1
      <4>1. m - 1 = n /\ n \in 0..(n + 1) /\ n # n + 1 /\ g[m - 1] = f[n]
        BY <3>1
      <4> QED
        BY <3>1, <4>1
    <3>2. CASE m = 0
      <4>1. 0 \in 0..n /\ m # n + 1 /\ g[m] = f[0]
        BY <3>2
      <4>2. f[0] = KeptOf(trees, 0, f[0 - 1])
        BY <2>1, <4>1 DEF KeptsOf
      <4> QED
        BY <1>0, <3>2, <4>1, <4>2
    <3>3. CASE m # n + 1 /\ m # 0
      <4>1. m \in 0..n /\ m - 1 \in 0..(n + 1) /\ m - 1 # n + 1 /\ g[m - 1] = f[m - 1] /\ g[m] = f[m]
        BY <3>3
      <4>2. f[m] = KeptOf(trees, m, f[m - 1])
        BY <2>1, <4>1 DEF KeptsOf
      <4> QED
        BY <4>1, <4>2
    <3> QED
      BY <3>1, <3>2, <3>3
  <2>3. g = h
    BY <2>2
  <2>4. KeptsOf(trees, n + 1, g)
    BY <2>3 DEF KeptsOf
  <2> QED
    BY <2>4
<1> HIDE DEF S
<1>3. k \in S
  BY <1>1, <1>2, ByInduction
<1> QED
  BY <1>3 DEF S

Keeps(trees, f) == \A n \in 0..Depth : f[n] = KeptOf(trees, n, f[n - 1])

LEMMA PhysicalIs ==
  ASSUME NEW tree
  PROVE  \E f : List!Physical(tree) = f[Depth][tree] /\ Keeps(List!Subtrees(tree), f)
<1> DEFINE v == CHOOSE f : KeptsOf(List!Subtrees(tree), Depth, f)
<1>1. KeptsOf(List!Subtrees(tree), Depth, v)
  BY KeptsExist, ListConstants
<1>2. List!Physical(tree) = v[Depth][tree]
  BY DEF List!Physical, KeptsOf, KeptOf
<1> HIDE DEF v
<1>3. Keeps(List!Subtrees(tree), v)
  BY <1>1 DEF KeptsOf, Keeps
<1> QED
  BY <1>2, <1>3

\* A tree that has a condition as it is, or among others of which all must hold; and one that
\* is one of some conditions, or of which one must hold.
Demands(tree, c) == tree = <<"is", c>> \/ \E P : tree = <<"and", P>> /\ <<"is", c>> \in P
Offers(tree, C) ==
  \/ \E c \in C : tree = <<"is", c>>
  \/ \E D \in SUBSET C : D # {} /\ tree = <<"or", {<<"is", c>> : c \in D}>>

LEMMA JoinedWorth ==
  ASSUME NEW trees, NEW row, NEW n, n # 0, NEW less, NEW t \in trees,
         Valued(trees, row, n, less)[t] \notin {"F", "N"}
  PROVE  /\ t[1] = "and" => \A p \in t[2] : less[p] \notin {"F", "N"}
         /\ t[1] = "or" /\ t[2] # {} => \E p \in t[2] : less[p] = "T"
<1> DEFINE below(p) == IF n = 0 THEN "N" ELSE less[p]
           A == List!And3({below(p) : p \in t[2]})
           O == List!Or3({below(p) : p \in t[2]})
           X == List!parse_condition(t[2], row)
           Y == List!Not3(below(t[2]))
<1>1. {below(p) : p \in t[2]} = {less[p] : p \in t[2]}
  OBVIOUS
<1>2. A = List!And3({less[p] : p \in t[2]}) /\ O = List!Or3({less[p] : p \in t[2]})
  BY <1>1
<1>3. Valued(trees, row, n, less)[t] =
        CASE t[1] = "is"  -> X
          [] t[1] = "not" -> Y
          [] t[1] = "or"  -> IF t[2] = {} THEN "T" ELSE O
          [] t[1] \in {"and", "list"} -> A
  BY DEF Valued
<1> HIDE DEF A, O, X, Y
<1>4. /\ t[1] = "and" => Valued(trees, row, n, less)[t] = A
      /\ t[1] = "or" /\ t[2] # {} => Valued(trees, row, n, less)[t] = O
  BY <1>3
<1>5. A \notin {"F", "N"} => \A p \in t[2] : less[p] \notin {"F", "N"}
  BY <1>2 DEF List!And3
<1>6. O \notin {"F", "N"} => \E p \in t[2] : less[p] = "T"
  BY <1>2 DEF List!Or3
<1> QED
  BY <1>4, <1>5, <1>6

LEMMA LeafWorth ==
  ASSUME NEW trees, NEW row, NEW v, Worths(trees, row, v), NEW n \in 0..Depth, NEW c, <<"is", c>> \in trees
  PROVE  v[n][<<"is", c>>] = List!parse_condition(c, row)
<1> DEFINE t == <<"is", c>>
           X == List!parse_condition(c, row)
<1>1. t[1] = "is" /\ t[2] = c
  OBVIOUS
<1>2. v[n] = Valued(trees, row, n, v[n - 1])
  BY DEF Worths
<1>3. t \in trees
  OBVIOUS
<1> HIDE DEF t
<1>4. Valued(trees, row, n, v[n - 1])[t] = List!parse_condition(t[2], row)
  BY <1>1, <1>3 DEF Valued
<1>5. v[n][t] = X
  BY <1>1, <1>2, <1>4
<1> QED
  BY <1>5 DEF t

LEMMA PartsWorth ==
  ASSUME NEW trees, NEW row, NEW v, Worths(trees, row, v), NEW n \in 1..Depth, NEW t \in trees,
         v[n][t] \notin {"F", "N"}
  PROVE  /\ t[1] = "and" => \A p \in t[2] : v[n - 1][p] \notin {"F", "N"}
         /\ t[1] = "or" /\ t[2] # {} => \E p \in t[2] : v[n - 1][p] \notin {"F", "N"}
<1> DEFINE less == v[n - 1]
<1>1. n \in 0..Depth /\ n # 0
  BY ListConstants
<1>2. Valued(trees, row, n, less)[t] \notin {"F", "N"}
  BY <1>1 DEF Worths
<1> HIDE DEF less
<1>3. ASSUME t[1] = "and" PROVE \A p \in t[2] : less[p] \notin {"F", "N"}
  BY <1>1, <1>2, <1>3, JoinedWorth
<1>6. ASSUME t[1] = "or", t[2] # {} PROVE \E p \in t[2] : less[p] = "T"
  BY <1>1, <1>2, <1>6, JoinedWorth
<1>4. \A p : less[p] = "T" => less[p] \notin {"F", "N"}
  OBVIOUS
<1>5. t[1] = "or" /\ t[2] # {} => \E p \in t[2] : less[p] \notin {"F", "N"}
  BY <1>4, <1>6
<1> QED
  BY <1>3, <1>5 DEF less

\* What such a tree is worth.
LEMMA DemandedHolds ==
  ASSUME NEW trees, NEW row, NEW v, NEW n \in 1..Depth,
         Worths(trees, row, v),
         NEW t \in trees, List!Parts(t) \subseteq trees, NEW c, Demands(t, c), v[n][t] \notin {"F", "N"}
  PROVE  List!parse_condition(c, row) \notin {"F", "N"}
<1>1. n \in 0..Depth /\ n - 1 \in 0..Depth /\ n # 0
  BY ListConstants
<1>3. CASE t = <<"is", c>>
  <2>1. v[n][t] = List!parse_condition(c, row)
    BY <1>1, <1>3, LeafWorth
  <2> QED
    BY <2>1
<1>4. CASE \E P : t = <<"and", P>> /\ <<"is", c>> \in P
  <2>1. PICK P : t = <<"and", P>> /\ <<"is", c>> \in P
    BY <1>4
  <2>2. t[1] = "and" /\ t[2] = P /\ t # <<>>
    BY <2>1
  <2>3. <<"is", c>> \in trees
    BY <2>1, <2>2 DEF List!Parts
  <2>4. v[n - 1][<<"is", c>>] = List!parse_condition(c, row)
    BY <1>1, <2>3, LeafWorth
  <2>5. \A p \in t[2] : v[n - 1][p] \notin {"F", "N"}
    BY <2>2, PartsWorth
  <2> QED
    BY <2>1, <2>2, <2>4, <2>5
<1> QED
  BY <1>3, <1>4 DEF Demands

LEMMA OfferedHolds ==
  ASSUME NEW trees, NEW row, NEW v, NEW n \in 1..Depth,
         Worths(trees, row, v),
         NEW t \in trees, List!Parts(t) \subseteq trees, NEW C, Offers(t, C), v[n][t] \notin {"F", "N"}
  PROVE  \E c \in C : List!parse_condition(c, row) \notin {"F", "N"}
<1>1. n \in 0..Depth /\ n - 1 \in 0..Depth /\ n # 0
  BY ListConstants
<1>3. CASE \E c \in C : t = <<"is", c>>
  <2>1. PICK c \in C : t = <<"is", c>>
    BY <1>3
  <2>2. v[n][t] = List!parse_condition(c, row)
    BY <1>1, <2>1, LeafWorth
  <2> QED
    BY <2>2
<1>4. CASE \E D \in SUBSET C : D # {} /\ t = <<"or", {<<"is", c>> : c \in D}>>
  <2>1. PICK D \in SUBSET C : D # {} /\ t = <<"or", {<<"is", c>> : c \in D}>>
    BY <1>4
  <2> DEFINE P == {<<"is", c>> : c \in D}
  <2>2. t[1] = "or" /\ t[2] = P /\ t # <<>> /\ P # {}
    BY <2>1
  <2>3. P \subseteq trees
    BY <2>2 DEF List!Parts
  <2>4. ASSUME NEW c \in D PROVE v[n - 1][<<"is", c>>] = List!parse_condition(c, row)
    <3>1. <<"is", c>> \in trees
      BY <2>3
    <3> QED
      BY <1>1, <3>1, LeafWorth
  <2>6. \A p \in P : \E c \in D : v[n - 1][p] = List!parse_condition(c, row)
    BY <2>4
  <2> HIDE DEF P
  <2>7. PICK p \in t[2] : v[n - 1][p] \notin {"F", "N"}
    BY <2>2, PartsWorth
  <2>8. PICK c \in D : v[n - 1][p] = List!parse_condition(c, row)
    BY <2>2, <2>6
  <2> QED
    BY <2>7, <2>8
<1> QED
  BY <1>3, <1>4 DEF Offers

\* What is left of such a tree when computed fields are taken out.
Among(x, op, y) == x = y \/ \E P : x = <<op, P>> /\ y \in P
MadeOf(x, t, less) ==
  \/ x = <<>>
  \/ \E p \in t[2] : x = less[p] /\ x # <<>>
  \/ \E P : x = <<t[1], P>> /\ P # {} /\ \A y \in P : \E p \in t[2] : y = less[p]

LEMMA JoinedKept ==
  ASSUME NEW trees, NEW n \in Nat \ {0}, NEW less, NEW t \in trees, t[1] \in {"and", "or"},
         NEW x, x = KeptOf(trees, n, less)[t]
  PROVE  (\A p \in t[2] : less[p] # <<>> => Among(x, t[1], less[p])) /\ MadeOf(x, t, less)
<1> DEFINE parts == {less[p] : p \in t[2]} \ {<<>>}
           alone == {p \in parts : t[1] # "list" /\ parts = {p}}
           made == IF parts = {} THEN <<>> ELSE IF alone # {} THEN CHOOSE p \in alone : TRUE ELSE <<t[1], parts>>
           left == IF List!IsComputed(t) THEN <<>> ELSE t
<1>0. KeptOf(trees, n, less)[t] = IF n > 0 /\ t[1] \in {"and", "or", "list"} THEN made ELSE left
  BY DEF KeptOf
<1>1. x = made
  <2> HIDE DEF made, left
  <2> QED
    BY <1>0
<1>2. \A p \in t[2] : less[p] # <<>> => less[p] \in parts
  OBVIOUS
<1>3. \A y \in parts : y # <<>> /\ \E p \in t[2] : y = less[p]
  OBVIOUS
<1>4. \A p \in alone : p \in parts /\ parts = {p}
  OBVIOUS
<1> HIDE DEF parts, alone
<1>5. CASE parts = {}
  BY <1>1, <1>2, <1>5 DEF MadeOf
<1>6. CASE parts # {} /\ alone # {}
  <2>1. x \in alone
    BY <1>1, <1>6
  <2>2. x \in parts /\ parts = {x}
    BY <1>4, <2>1
  <2> QED
    BY <1>2, <1>3, <2>2 DEF Among, MadeOf
<1>7. CASE parts # {} /\ alone = {}
  <2>1. x = <<t[1], parts>>
    BY <1>1, <1>7
  <2> QED
    BY <1>2, <1>3, <1>7, <2>1 DEF Among, MadeOf
<1> QED
  BY <1>5, <1>6, <1>7

LEMMA LeafKept ==
  ASSUME NEW trees, NEW f, Keeps(trees, f), NEW n \in 0..Depth, NEW c, <<"is", c>> \in trees, c.field \notin Formula
  PROVE  f[n][<<"is", c>>] = <<"is", c>>
<1>1. f[n] = KeptOf(trees, n, f[n - 1])
  BY DEF Keeps
<1> DEFINE t == <<"is", c>>
<1>2. t[1] = "is" /\ t[2] = c /\ ~List!IsComputed(t)
  BY DEF List!IsComputed
<1> HIDE DEF t
<1>3. t \in trees
  BY DEF t
<1>4. f[n][t] = t
  BY <1>1, <1>2, <1>3 DEF KeptOf
<1> QED
  BY <1>4 DEF t

LEMMA DemandKept ==
  ASSUME NEW trees, NEW f, Keeps(trees, f), NEW n \in 1..Depth, NEW t \in trees, List!Parts(t) \subseteq trees,
         NEW c, c.field \notin Formula, Demands(t, c)
  PROVE  Demands(f[n][t], c)
<1>1. n \in 0..Depth /\ n - 1 \in 0..Depth /\ n \in Nat \ {0}
  BY ListConstants
<1>3. CASE t = <<"is", c>>
  BY <1>1, <1>3, LeafKept DEF Demands
<1>4. CASE \E P : t = <<"and", P>> /\ <<"is", c>> \in P
  <2>1. PICK P : t = <<"and", P>> /\ <<"is", c>> \in P
    BY <1>4
  <2>2. t[1] = "and" /\ t[2] = P /\ t # <<>>
    BY <2>1
  <2>3. <<"is", c>> \in trees
    BY <2>1, <2>2 DEF List!Parts
  <2> DEFINE less == f[n - 1]
             p == <<"is", c>>
  <2>4. less[p] = p /\ p # <<>> /\ p \in t[2]
    BY <1>1, <2>1, <2>2, <2>3, LeafKept
  <2>5. f[n][t] = KeptOf(trees, n, less)[t]
    BY <1>1 DEF Keeps
  <2> HIDE DEF less, p
  <2>6. Among(f[n][t], t[1], less[p])
    <3>1. t[1] \in {"and", "or"} /\ less[p] # <<>> /\ p \in t[2]
      BY <2>2, <2>4
    <3> QED
      BY <1>1, <2>5, <3>1, JoinedKept
  <2> QED
    BY <2>2, <2>4, <2>6 DEF Among, Demands, p
<1> QED
  BY <1>3, <1>4 DEF Demands

LEMMA OfferKept ==
  ASSUME NEW trees, NEW f, Keeps(trees, f), NEW n \in 1..Depth, NEW t \in trees, List!Parts(t) \subseteq trees,
         NEW C, \A c \in C : c.field \notin Formula, Offers(t, C)
  PROVE  Offers(f[n][t], C)
<1>1. n \in 0..Depth /\ n - 1 \in 0..Depth /\ n \in Nat \ {0}
  BY ListConstants
<1>3. CASE \E c \in C : t = <<"is", c>>
  <2>1. PICK c \in C : t = <<"is", c>>
    BY <1>3
  <2>2. f[n][t] = t
    BY <1>1, <2>1, LeafKept
  <2> QED
    BY <2>1, <2>2 DEF Offers
<1>4. CASE \E D \in SUBSET C : D # {} /\ t = <<"or", {<<"is", c>> : c \in D}>>
  <2>1. PICK D \in SUBSET C : D # {} /\ t = <<"or", {<<"is", c>> : c \in D}>>
    BY <1>4
  <2> DEFINE P == {<<"is", c>> : c \in D}
             less == f[n - 1]
  <2>2. t[1] = "or" /\ t[2] = P /\ t # <<>> /\ P # {}
    BY <2>1
  <2>3. P \subseteq trees
    BY <2>2 DEF List!Parts
  <2>4. \A p \in P : \E c \in D : p = <<"is", c>>
    OBVIOUS
  <2>5. ASSUME NEW p \in P PROVE less[p] = p /\ p # <<>>
    <3>1. PICK c \in D : p = <<"is", c>>
      BY <2>4
    <3> QED
      BY <1>1, <2>3, <3>1, LeafKept
  <2>6. f[n][t] = KeptOf(trees, n, less)[t]
    BY <1>1 DEF Keeps
  <2> DEFINE x == f[n][t]
  <2>7. \A E \in SUBSET P : E # {} => Offers(<<"or", E>>, C)
    <3> TAKE E \in SUBSET P
    <3> DEFINE B == {c \in D : <<"is", c>> \in E}
    <3>1. E = {<<"is", c>> : c \in B}
      OBVIOUS
    <3>2. E # {} => B # {}
      OBVIOUS
    <3>3. B \in SUBSET C
      OBVIOUS
    <3> QED
      BY <3>1, <3>2, <3>3 DEF Offers
  <2>8. \A c \in D : Offers(<<"is", c>>, C)
    BY DEF Offers
  <2> HIDE DEF P, less, x
  <2>9. (\A p \in t[2] : less[p] # <<>> => Among(x, t[1], less[p])) /\ MadeOf(x, t, less)
    <3>1. t[1] \in {"and", "or"}
      BY <2>2
    <3>2. x = KeptOf(trees, n, less)[t]
      BY <2>6 DEF x
    <3> QED
      BY <1>1, <3>1, <3>2, JoinedKept
  <2>10. x # <<>>
    <3>1. PICK p \in P : TRUE
      BY <2>2
    <3>2. Among(x, t[1], p) /\ p # <<>>
      BY <2>2, <2>5, <2>9, <3>1
    <3> QED
      BY <3>2 DEF Among
  <2>11. (\E p \in P : x = p) \/ \E Q \in SUBSET P : x = <<"or", Q>> /\ Q # {}
    <3>1. CASE \E p \in t[2] : x = less[p]
      BY <2>2, <2>5, <3>1
    <3>2. CASE \E Q : x = <<t[1], Q>> /\ Q # {} /\ \A y \in Q : \E p \in t[2] : y = less[p]
      <4>1. PICK Q : x = <<t[1], Q>> /\ Q # {} /\ \A y \in Q : \E p \in t[2] : y = less[p]
        BY <3>2
      <4>2. Q \in SUBSET P
        BY <2>2, <2>5, <4>1
      <4> QED
        BY <2>2, <4>1, <4>2
    <3> QED
      BY <2>9, <2>10, <3>1, <3>2 DEF MadeOf
  <2>12. Offers(x, C)
    BY <2>4, <2>7, <2>8, <2>11
  <2> QED
    BY <2>12 DEF x
<1> QED
  BY <1>3, <1>4 DEF Offers

\* A tree that demands a condition and offers others, by itself or by what it joins.
Guarded(tree, c, C) ==
  \/ Demands(tree, c) /\ Offers(tree, C)
  \/ \E P : /\ tree = <<"and", P>>
            /\ \E p \in P : Demands(p, c)
            /\ \E p \in P : Offers(p, C)

LEMMA GuardKept ==
  ASSUME NEW a, NEW b, NEW C, \A c \in C : c.field \notin Formula, Offers(a, C),
         NEW c, c.field \notin Formula, Demands(b, c)
  PROVE  Guarded(List!Physical(<<"and", {a, b}>>), c, C)
<1> DEFINE t == <<"and", {a, b}>>
           trees == List!Subtrees(t)
<1>1. PICK f : List!Physical(t) = f[Depth][t] /\ Keeps(trees, f)
  BY PhysicalIs
<1>2. Depth \in 0..Depth /\ Depth - 1 \in 1..Depth /\ Depth \in Nat \ {0}
  BY ListConstants
<1>3. t[1] = "and" /\ t[2] = {a, b} /\ t # <<>>
  OBVIOUS
<1>4. List!Parts(t) = {a, b}
  BY <1>3 DEF List!Parts
<1>5. t \in trees /\ a \in trees /\ b \in trees /\ List!Parts(a) \subseteq trees /\ List!Parts(b) \subseteq trees
  BY <1>4, SubtreesAre
<1> DEFINE less == f[Depth - 1]
           x == f[Depth][t]
<1>6. Offers(less[a], C) /\ Demands(less[b], c)
  BY <1>1, <1>2, <1>5, OfferKept, DemandKept
<1>7. x = KeptOf(trees, Depth, less)[t]
  BY <1>1, <1>2 DEF Keeps
<1>8. less[a] # <<>> /\ less[b] # <<>>
  BY <1>6 DEF Offers, Demands
<1> HIDE DEF t, trees, less, x
<1>9. Among(x, "and", less[a]) /\ Among(x, "and", less[b])
  <2>1. t[1] \in {"and", "or"} /\ a \in t[2] /\ b \in t[2]
    BY <1>3
  <2>2. \A p \in t[2] : less[p] # <<>> => Among(x, t[1], less[p])
    BY <1>2, <1>5, <1>7, <2>1, JoinedKept
  <2> QED
    BY <1>3, <1>8, <2>1, <2>2
<1>10. Demands(<<"is", c>>, c)
  BY DEF Demands
<1>11. CASE x = less[a]
  <2>1. \A P : x # <<"and", P>>
    BY <1>6, <1>11 DEF Offers
  <2> QED
    BY <1>1, <1>6, <1>9, <1>11, <2>1 DEF Among, Guarded, x, t
<1>12. CASE \E P : x = <<"and", P>> /\ less[a] \in P
  <2>1. PICK P : x = <<"and", P>> /\ less[a] \in P
    BY <1>12
  <2>2. less[b] \in P \/ <<"is", c>> \in P
    <3>1. CASE x = less[b]
      <4>1. x[2] = P /\ x[1] = "and"
        BY <2>1
      <4> QED
        BY <1>6, <3>1, <4>1 DEF Demands
    <3>2. CASE \E Q : x = <<"and", Q>> /\ less[b] \in Q
      <4>1. PICK Q : x = <<"and", Q>> /\ less[b] \in Q
        BY <3>2
      <4>2. x[2] = P /\ x[2] = Q
        BY <2>1, <4>1
      <4> QED
        BY <4>1, <4>2
    <3> QED
      BY <1>9, <3>1, <3>2 DEF Among
  <2>3. Guarded(x, c, C)
    BY <1>6, <1>10, <2>1, <2>2 DEF Guarded
  <2> QED
    BY <1>1, <2>3 DEF x, t
<1> QED
  BY <1>9, <1>11, <1>12 DEF Among

LEMMA DemandStays ==
  ASSUME NEW t, NEW c, c.field \notin Formula, Demands(t, c)
  PROVE  Demands(List!Physical(t), c)
<1>1. PICK f : List!Physical(t) = f[Depth][t] /\ Keeps(List!Subtrees(t), f)
  BY PhysicalIs
<1>2. Depth \in 1..Depth
  BY ListConstants
<1> QED
  BY <1>1, <1>2, SubtreesAre, DemandKept

\* A row that such a tree lets through.
LEMMA DemandMet ==
  ASSUME NEW t, NEW row, NEW c, Demands(t, c), List!build_nested_criteria(t, row) = "T"
  PROVE  List!parse_condition(c, row) \notin {"F", "N"}
<1>1. PICK v : List!build_nested_criteria(t, row) = v[Depth][t] /\ Worths(List!Subtrees(t), row, v)
  BY WorthIs
<1>2. Depth \in 1..Depth
  BY ListConstants
<1>3. v[Depth][t] \notin {"F", "N"}
  BY <1>1
<1> QED
  BY <1>1, <1>2, <1>3, SubtreesAre, DemandedHolds

LEMMA GuardMet ==
  ASSUME NEW t, NEW row, NEW c, NEW C, Guarded(t, c, C), List!build_nested_criteria(t, row) = "T"
  PROVE  /\ List!parse_condition(c, row) \notin {"F", "N"}
         /\ \E d \in C : List!parse_condition(d, row) \notin {"F", "N"}
<1> DEFINE trees == List!Subtrees(t)
<1>1. PICK v : List!build_nested_criteria(t, row) = v[Depth][t] /\ Worths(trees, row, v)
  BY WorthIs
<1>2. Depth \in 0..Depth /\ Depth \in 1..Depth /\ Depth - 1 \in 1..Depth /\ Depth # 0
  BY ListConstants
<1>3. t \in trees /\ List!Parts(t) \subseteq trees /\ \A p \in List!Parts(t) : List!Parts(p) \subseteq trees
  BY SubtreesAre
<1> HIDE DEF trees
<1>4. v[Depth][t] \notin {"F", "N"}
  BY <1>1
<1>5. CASE Demands(t, c) /\ Offers(t, C)
  BY <1>1, <1>2, <1>3, <1>4, <1>5, DemandedHolds, OfferedHolds
<1>6. CASE \E P : t = <<"and", P>> /\ (\E p \in P : Demands(p, c)) /\ (\E p \in P : Offers(p, C))
  <2>1. PICK P : t = <<"and", P>> /\ (\E p \in P : Demands(p, c)) /\ (\E p \in P : Offers(p, C))
    BY <1>6
  <2>2. t[1] = "and" /\ t[2] = P /\ t # <<>>
    BY <2>1
  <2>3. List!Parts(t) = P
    BY <2>2 DEF List!Parts
  <2> DEFINE less == v[Depth - 1]
  <2>4. Valued(trees, row, Depth, less)[t] \notin {"F", "N"}
    BY <1>1, <1>2, <1>4 DEF Worths
  <2> HIDE DEF less
  <2>5. \A p \in t[2] : less[p] \notin {"F", "N"}
    BY <1>2, <1>3, <2>2, <2>4, JoinedWorth
  <2>6. \A p \in P : v[Depth - 1][p] \notin {"F", "N"} /\ p \in trees /\ List!Parts(p) \subseteq trees
    BY <1>3, <2>2, <2>3, <2>5 DEF less
  <2>7. PICK p \in P : Demands(p, c)
    BY <2>1
  <2>8. PICK q \in P : Offers(q, C)
    BY <2>1
  <2>9. List!parse_condition(c, row) \notin {"F", "N"}
    BY <1>1, <1>2, <2>6, <2>7, DemandedHolds
  <2>10. \E d \in C : List!parse_condition(d, row) \notin {"F", "N"}
    BY <1>1, <1>2, <2>6, <2>8, OfferedHolds
  <2> QED
    BY <2>9, <2>10
<1> QED
  BY <1>5, <1>6 DEF Guarded

-----------------------------------------------------------------------------

\* What a list view's tree becomes before it is evaluated.
LEMMA Appended ==
  ASSUME NEW tree, NEW c
  PROVE  Demands(List!append_and_filter(tree, c), c)
BY DEF List!append_and_filter, Demands

LEMMA Stripped ==
  ASSUME NEW t, NEW c, c.field # "owner_id", Demands(t, c)
  PROVE  Demands(List!_strip_owner_id_filters(t), c)
<1>1. CASE t = <<"is", c>>
  <2>1. t[1] = "is" /\ t[2] = c
    BY <1>1
  <2> QED
    BY <1>1, <2>1 DEF List!_strip_owner_id_filters, List!IsOwner, Demands
<1>2. CASE \E P : t = <<"and", P>> /\ <<"is", c>> \in P
  <2>1. PICK P : t = <<"and", P>> /\ <<"is", c>> \in P
    BY <1>2
  <2> DEFINE kept == {p \in P : ~List!IsOwner(p)}
  <2>2. t[1] = "and" /\ t[2] = P
    BY <2>1
  <2>3. <<"is", c>> \in kept
    BY <2>1 DEF List!IsOwner
  <2>4. List!_strip_owner_id_filters(t) = <<"and", kept>>
    BY <2>2, <2>3 DEF List!_strip_owner_id_filters
  <2> HIDE DEF kept
  <2> QED
    BY <2>3, <2>4 DEF Demands
<1> QED
  BY <1>1, <1>2 DEF Demands

LEMMA MetIn ==
  ASSUME NEW row, NEW field, NEW S, List!parse_condition(List!Is(field, S), row) \notin {"F", "N"}
  PROVE  row[field] \in S
BY DEF List!parse_condition, List!Is, List!Bool3

ListInv == List!TypeOK /\ List!NobodySeesMore

LEMMA ShowKeepsIn ==
  ASSUME ListInv, NEW reader \in User, NEW search \in Search, NEW seen, List!Show(reader, search, seen)
  PROVE  ListInv'
<1> DEFINE gone == List!Is("is_deleted", {"no"})
           present == List!append_and_filter(List!WithSearch(List!ViewTree.tree, search), gone)
           allowed == IF reader \in Admin THEN present ELSE List!add_private_owner_filter(present, List!Access(reader))
           where == List!Physical(allowed)
           own == List!Is("owner_id", {reader})
           given == List!Is("id", Shared[reader])
           C == {own} \cup IF Shared[reader] = {} THEN {} ELSE {given}
<1>1. /\ viewShown'.reader = reader /\ UNCHANGED view
      /\ \A r \in viewShown'.rows : r \in ListRow /\ (where = <<>> \/ List!build_nested_criteria(where, r) = "T")
  BY DEF List!Show
<1>2. gone.field = "is_deleted" /\ own.field = "owner_id" /\ given.field = "id"
  BY DEF List!Is
<1>3. Demands(present, gone)
  BY Appended
<1>4. gone.field \notin Formula /\ gone.field # "owner_id"
  BY <1>2, ListConstants
<1>7. \A c \in C : c = own \/ c = given
  <2> HIDE DEF own, given
  <2> QED
    BY DEF C
<1>8. \A c \in C : c.field \notin Formula
  <2> HIDE DEF C
  <2> QED
    BY <1>2, <1>7, ListConstants
<1>5. CASE reader \in Admin
  <2>1. Demands(where, gone)
    BY <1>3, <1>4, <1>5, DemandStays
  <2>2. where # <<>>
    BY <2>1 DEF Demands
  <2>3. \A r \in viewShown'.rows : r["is_deleted"] \in {"no"}
    BY <1>1, <2>1, <2>2, DemandMet, MetIn
  <2> QED
    BY <1>1, <1>5, <2>3 DEF ListInv, List!TypeOK, List!NobodySeesMore, List!MaySee
<1>6. CASE reader \notin Admin
  <2> DEFINE cleaned == List!_strip_owner_id_filters(present)
             access == <<"or", List!Access(reader)>>
  <2>1. Demands(cleaned, gone)
    BY <1>3, <1>4, Stripped
  <2>2. cleaned # <<>>
    BY <2>1 DEF Demands
  <2>3. allowed = <<"and", {access, cleaned}>>
    <3>1. {access} \cup {cleaned} = {access, cleaned}
      OBVIOUS
    <3> QED
      BY <1>6, <2>2, <3>1 DEF List!add_private_owner_filter
  <2>4. Offers(access, C)
    <3>1. List!Access(reader) = {<<"is", c>> : c \in C}
      BY DEF List!Access
    <3>2. C # {} /\ C \in SUBSET C
      OBVIOUS
    <3> HIDE DEF C
    <3> QED
      BY <3>1, <3>2 DEF Offers
  <2> HIDE DEF access, cleaned, C, gone, present
  <2>5. Guarded(where, gone, C)
    BY <1>4, <1>8, <2>1, <2>3, <2>4, GuardKept
  <2>6. where # <<>>
    BY <2>5 DEF Guarded, Demands
  <2> HIDE DEF where
  <2>7. ASSUME NEW r \in viewShown'.rows PROVE List!MaySee(reader, r)
    <3>1. List!parse_condition(gone, r) \notin {"F", "N"} /\ \E d \in C : List!parse_condition(d, r) \notin {"F", "N"}
      BY <1>1, <2>5, <2>6, GuardMet
    <3>2. r["is_deleted"] \in {"no"}
      BY <3>1, MetIn DEF gone
    <3>3. PICK d \in C : List!parse_condition(d, r) \notin {"F", "N"}
      BY <3>1
    <3>4. CASE d = own
      <4>1. r["owner_id"] \in {reader}
        BY <3>3, <3>4, MetIn
      <4> QED
        BY <3>2, <4>1 DEF List!MaySee
    <3>5. CASE d = given
      <4>1. r["id"] \in Shared[reader]
        BY <3>3, <3>5, MetIn
      <4> QED
        BY <3>2, <4>1 DEF List!MaySee
    <3> QED
      BY <1>7, <3>3, <3>4, <3>5
  <2> QED
    BY <1>1, <2>7 DEF ListInv, List!TypeOK, List!NobodySeesMore
<1> QED
  BY <1>5, <1>6

LEMMA ListAtFirst == List!Init => ListInv
BY DEF List!Init, List!Nothing, ListInv, List!TypeOK, List!NobodySeesMore

LEMMA ListKept == ASSUME ListInv, [List!Next]_listVars PROVE ListInv'
<1>1. ASSUME NEW filters \in FilterList, NEW logic \in Logic \cup {<<>>}, List!Create(filters, logic) \/ List!Patch(filters, logic)
      PROVE  ListInv'
  <2>1. view' \in List!View
    <3>1. view' = [filters |-> filters, logic |-> logic, whole |-> TRUE]
      BY <1>1 DEF List!Create, List!Patch
    <3> QED
      BY <3>1 DEF List!View
  <2>2. viewShown' = viewShown \/ viewShown' = List!Nothing
    BY <1>1 DEF List!Create, List!Patch
  <2> QED
    BY <2>1, <2>2 DEF List!Nothing, ListInv, List!TypeOK, List!NobodySeesMore, List!MaySee
<1>2. ASSUME NEW filters \in FilterList, List!PatchFilters(filters) PROVE ListInv'
  BY <1>2 DEF List!PatchFilters, List!Nothing, List!View, ListInv, List!TypeOK, List!NobodySeesMore, List!MaySee
<1>3. ASSUME List!ClearLogic PROVE ListInv'
  BY <1>3 DEF List!ClearLogic, List!Nothing, List!View, ListInv, List!TypeOK, List!NobodySeesMore, List!MaySee
<1>4. CASE UNCHANGED listVars
  BY <1>4 DEF listVars, ListInv, List!TypeOK, List!NobodySeesMore, List!MaySee
<1> QED
  BY <1>1, <1>2, <1>3, <1>4, ShowKeepsIn DEF List!Next

-----------------------------------------------------------------------------
\* What a reader opens records from

SidebarInv ==
  /\ service = "pins" => PinsInv
  /\ service = "calendar" => today \in Pins!Days
  /\ service = "folder" => FoldersInv
  /\ service = "list" => ListInv

\* Whichever days, owners and views there are, an owner whose last pins did not overlap has one
\* pinned view at most and no view is stale unless it was pinned so; on every day of every year
\* the periods adjoin and the lists of created rows agree with them; and in a forest of any
\* folders, moved and shared as it may be, no folder is listed twice, an undisturbed listing is
\* the folders in reach with their reports, and a tree shows each own folder outside of circles.
\* Whatever the filters, their logic, also one that was never checked against them, and the
\* search, a list view shows nobody a deleted row, nor a reader who is no administrator a row
\* that is neither the reader's own nor shared with the reader.
THEOREM SidebarTheorem == Spec => []SidebarHolds
<1>1. Init => SidebarInv
  BY OneServiceAtFirst, PinsAtFirst, ListingIsListed, DaysAtFirst, ListAtFirst DEF SidebarInv
<1>2. SidebarInv /\ [Next]_vars => SidebarInv'
  <2> SUFFICES ASSUME SidebarInv, [Next]_vars PROVE SidebarInv'
    OBVIOUS
  <2>1. service = "pins" => PinsInv'
    BY OneService, PinsStay, PinsUnchanged DEF SidebarInv
  <2>2. service = "calendar" => today' \in Pins!Days
    BY OneService DEF SidebarInv, Pins!NextDay
  <2>3. service = "folder" => FoldersInv'
    BY OneService, FoldersStay, FoldersUnchanged DEF SidebarInv
  <2>4. service = "list" => ListInv'
    BY OneService, ListKept DEF SidebarInv
  <2> QED
    BY <2>1, <2>2, <2>3, <2>4, OneService DEF SidebarInv
<1>3. SidebarInv => SidebarHolds
  <2>1. FoldersInv => Folders!TypeOK /\ Folders!OwnFoldersAppear
    BY OwnFoldersInTree DEF FoldersInv, Folders!TypeOK
  <2> QED
    BY <2>1, PinsHold, PeriodsHold, ListsHeld, ListingsWhole DEF SidebarInv, SidebarHolds, ListInv
<1> QED
  BY <1>1, <1>2, <1>3, PTL DEF Spec
=============================================================================
