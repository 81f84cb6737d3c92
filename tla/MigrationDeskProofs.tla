------------------------ MODULE MigrationDeskProofs ------------------------
(* Theorems about MigrationDesk for every set of runners and of settings and  *)
(* any number of runs: what the data steps make of a row, and what a run      *)
(* leaves of the schema.  The chain itself is a constant: its revisions are   *)
(* compared once, name by name, and afterwards told apart only by the kind of *)
(* step.  The invariant MigrationInv relates the row and the schema to the    *)
(* stamp; each step of an upgrade or a rollback keeps it, and so, step by     *)
(* step, does a whole run.                                                    *)
EXTENDS MigrationDesk, SequenceTheorems, WellFoundedInduction, TLAPS
-----------------------------------------------------------------------------
(* The revisions by kind: most create objects and drop the same ones; these   *)
(* facts are all that the proofs use of the chain.                            *)
LEMMA ChainIs ==
  /\ Latest = 32
  /\ Chain[1] = V01 /\ Chain[2] = V02 /\ Chain[3] = V03 /\ Chain[4] = V04
  /\ Chain[5] = V05 /\ Chain[6] = V06 /\ Chain[7] = V07 /\ Chain[8] = V08
  /\ Chain[9] = V09 /\ Chain[10] = V10 /\ Chain[11] = V11 /\ Chain[12] = V12
  /\ Chain[13] = V13 /\ Chain[14] = V14 /\ Chain[15] = V15 /\ Chain[16] = V16
  /\ Chain[17] = V17 /\ Chain[18] = V18 /\ Chain[19] = V19 /\ Chain[20] = V20
  /\ Chain[21] = V21 /\ Chain[22] = V22 /\ Chain[23] = V23 /\ Chain[24] = V24
  /\ Chain[25] = V25 /\ Chain[26] = V26 /\ Chain[27] = V27 /\ Chain[28] = V28
  /\ Chain[29] = V29 /\ Chain[30] = V30 /\ Chain[31] = V31 /\ Chain[32] = V32
  BY DEF Chain, Latest

LEMMA ReversibleMeans ==
  \A S : /\ Reversible(S).adds = S /\ Reversible(S).drops = S
         /\ Reversible(S).fills = {} /\ Reversible(S).eases = {}
         /\ Reversible(S).takes = {} /\ Reversible(S).gives = {}
  BY DEF Reversible, Nothing

LEMMA NothingMeans ==
  /\ Nothing.adds = {} /\ Nothing.drops = {} /\ Nothing.fills = {}
  /\ Nothing.eases = {} /\ Nothing.takes = {} /\ Nothing.gives = {}
  BY DEF Nothing

Plain == 1..32 \ {5, 10, 12, 17, 18, 19, 20, 21, 22, 24}

LEMMA PlainSteps ==
  ASSUME NEW k \in Plain
  PROVE  Chain[k] = Reversible(Chain[k].adds)
  <1>1. V01 = Reversible(V01.adds)
    BY ReversibleMeans DEF V01
  <1>2. V02 = Reversible(V02.adds)
    BY ReversibleMeans DEF V02
  <1>3. V03 = Reversible(V03.adds)
    BY ReversibleMeans DEF V03
  <1>4. V04 = Reversible(V04.adds)
    BY ReversibleMeans DEF V04
  <1>6. V06 = Reversible(V06.adds)
    BY ReversibleMeans DEF V06
  <1>7. V07 = Reversible(V07.adds)
    BY ReversibleMeans DEF V07
  <1>8. V08 = Reversible(V08.adds)
    BY ReversibleMeans DEF V08
  <1>9. V09 = Reversible(V09.adds)
    BY ReversibleMeans DEF V09
  <1>11. V11 = Reversible(V11.adds)
    BY ReversibleMeans DEF V11
  <1>13. V13 = Reversible(V13.adds)
    BY ReversibleMeans DEF V13
  <1>14. V14 = Reversible(V14.adds)
    BY ReversibleMeans DEF V14
  <1>15. V15 = Reversible(V15.adds)
    BY ReversibleMeans DEF V15
  <1>16. V16 = Reversible(V16.adds)
    BY ReversibleMeans DEF V16
  <1>23. V23 = Reversible(V23.adds)
    BY ReversibleMeans DEF V23
  <1>25. V25 = Reversible(V25.adds)
    BY ReversibleMeans DEF V25
  <1>26. V26 = Reversible(V26.adds)
    BY ReversibleMeans DEF V26
  <1>27. V27 = Reversible(V27.adds)
    BY ReversibleMeans DEF V27
  <1>28. V28 = Reversible(V28.adds)
    BY ReversibleMeans DEF V28
  <1>29. V29 = Reversible(V29.adds)
    BY ReversibleMeans DEF V29
  <1>30. V30 = Reversible(V30.adds)
    BY ReversibleMeans DEF V30
  <1>31. V31 = Reversible(V31.adds)
    BY ReversibleMeans DEF V31
  <1>32. V32 = Reversible(V32.adds)
    BY ReversibleMeans DEF V32
  <1> QED BY ChainIs, <1>1, <1>2, <1>3, <1>4, <1>6, <1>7, <1>8, <1>9, <1>11, <1>13, <1>14, <1>15, <1>16, <1>23, <1>25, <1>26, <1>27, <1>28, <1>29, <1>30, <1>31, <1>32 DEF Plain

LEMMA StepsAre ==
  ASSUME NEW k \in 1..Latest
  PROVE  /\ Chain[k].drops = IF k = 19 THEN {} ELSE Chain[k].adds
         /\ Chain[k].fills = IF k = 5 THEN V05.fills ELSE IF k \in {17, 18} THEN ReminderColumns ELSE {}
         /\ Chain[k].eases = IF k = 17 THEN ReminderColumns ELSE {}
         /\ Chain[k].takes = IF k = 21 THEN V21.takes ELSE {}
         /\ Chain[k].gives = Chain[k].takes
         /\ k \notin Plain \cup {19} => Chain[k].adds = {}
  <1>1. CASE k \in Plain
    <2>1. Chain[k] = Reversible(Chain[k].adds) /\ k \notin {5, 17, 18, 19, 21}
      BY <1>1, PlainSteps DEF Plain
    <2> QED BY <1>1, <2>1, ReversibleMeans, Zenon
  <1>2. CASE k \in {10, 12, 20, 22, 24}
    <2>1. Chain[k] = Nothing
      BY <1>2, ChainIs DEF V10, V12, V20, V22, V24
    <2> QED BY <1>2, <2>1, NothingMeans DEF Plain
  <1>3. CASE k = 5
    BY <1>3, ChainIs DEF V05, Nothing, Plain
  <1>4. CASE k = 17
    BY <1>4, ChainIs DEF V17, Nothing, Plain
  <1>5. CASE k = 18
    BY <1>5, ChainIs DEF V18, Nothing, Plain
  <1>6. CASE k = 19
    BY <1>6, ChainIs DEF V19, Nothing, Plain
  <1>7. CASE k = 21
    BY <1>7, ChainIs DEF V21, Nothing, Plain
  <1>8. k \in 1..32
    BY ChainIs
  <1> QED BY <1>1, <1>2, <1>3, <1>4, <1>5, <1>6, <1>7, <1>8 DEF Plain

LEMMA HasLeast ==
  ASSUME NEW S \in SUBSET Nat, S # {}
  PROVE  \E u \in S : \A v \in S : u <= v
  <1>1. PICK u \in S : \A v \in S : ~ (<<v, u>> \in OpToRel(<, Nat))
    BY NatLessThanWellFounded, WFMin
  <1>2. \A v \in S : ~ (v < u)
    BY <1>1 DEF OpToRel
  <1> QED BY <1>2

(* A set of numbers that holds 0 and, with a number below n, the next one     *)
(* holds all up to n: the only induction the proofs need.                     *)
LEMMA Climbing ==
  ASSUME NEW n \in Nat, NEW S, 0 \in S, \A i \in 1..n : i - 1 \in S => i \in S
  PROVE  0..n \subseteq S
  <1> SUFFICES ASSUME ~(0..n \subseteq S) PROVE FALSE
    OBVIOUS
  <1> DEFINE B == (0..n) \ S
  <1>1. B \in SUBSET Nat /\ B # {}
    OBVIOUS
  <1>2. PICK u \in B : \A v \in B : u <= v
    BY <1>1, HasLeast
  <1>3. u \in 1..n /\ u - 1 \in 0..n
    BY <1>2
  <1>4. u - 1 \notin B
    BY <1>2, <1>3
  <1> QED BY <1>3, <1>4

(* SchemaOf is the function its definition describes.                         *)
Grown(k, s) == (s \ Chain[k].takes) \cup Chain[k].adds \cup Chain[k].fills

LEMMA SchemaOfIs ==
  /\ SchemaOf[0] = {}
  /\ \A k \in 1..Latest : SchemaOf[k] = Grown(k, SchemaOf[k - 1])
  <1> DEFINE Fits0(f, n) == f = [k \in 0..n |-> IF k = 0 THEN {} ELSE Grown(k, f[k - 1])]
             S == {n \in Nat : \E f : Fits0(f, n)}
  <1>1. Latest \in Nat
    BY ChainIs
  <1>2. 0 \in S
    <2> DEFINE f == [k \in 0..0 |-> {}]
    <2>1. f = [k \in 0..0 |-> IF k = 0 THEN {} ELSE Grown(k, f[k - 1])]
      <3>1. \A k \in 0..0 : k = 0
        OBVIOUS
      <3> QED BY <3>1, Zenon
    <2> QED BY <2>1
  <1>3. ASSUME NEW i \in 1..Latest, i - 1 \in S PROVE i \in S
    <2>1. PICK f : Fits0(f, i - 1)
      BY <1>3
    <2> DEFINE g == [k \in 0..i |-> IF k = i THEN Grown(i, f[i - 1]) ELSE f[k]]
    <2>2. i \in Nat /\ i - 1 \in 0..(i - 1) /\ i # 0
      BY <1>1
    <2>3. \A k \in 0..(i - 1) : f[k] = IF k = 0 THEN {} ELSE Grown(k, f[k - 1])
      BY <2>1
    <2>4. \A k \in 0..i : g[k] = IF k = 0 THEN {} ELSE Grown(k, g[k - 1])
      <3> SUFFICES ASSUME NEW k \in 0..i PROVE g[k] = IF k = 0 THEN {} ELSE Grown(k, g[k - 1])
        OBVIOUS
      <3>1. CASE k = i
        <4>1. g[k] = Grown(i, f[i - 1]) /\ g[k - 1] = f[i - 1]
          BY <3>1, <2>2
        <4> QED BY <3>1, <4>1, <2>2
      <3>2. CASE k = 0
        <4>1. g[0] = f[0] /\ f[0] = {}
          BY <2>2, <2>3
        <4> QED BY <3>2, <4>1
      <3>3. CASE k # i /\ k # 0
        <4>1. k \in 0..(i - 1) /\ k - 1 \in 0..i /\ k - 1 # i
          BY <3>3, <2>2
        <4>2. g[k] = f[k] /\ g[k - 1] = f[k - 1]
          BY <3>3, <4>1
        <4> QED BY <4>1, <4>2, <2>3, <3>3
      <3> QED BY <3>1, <3>2, <3>3
    <2>5. g = [k \in 0..i |-> IF k = 0 THEN {} ELSE Grown(k, g[k - 1])]
      <3> HIDE DEF Grown
      <3>1. g = [k \in 0..i |-> g[k]]
        OBVIOUS
      <3> HIDE DEF g
      <3> QED BY <2>4, <3>1
    <2> QED BY <2>2, <2>5
  <1>4. Latest \in S
    <2> HIDE DEF S
    <2>1. 0..Latest \subseteq S
      BY <1>1, <1>2, <1>3, Climbing
    <2> QED BY <1>1, <2>1
  <1>5. PICK f : Fits0(f, Latest)
    BY <1>4
  <1>6. SchemaOf = [k \in 0..Latest |-> IF k = 0 THEN {} ELSE Grown(k, SchemaOf[k - 1])]
    BY <1>5, Zenon DEF SchemaOf, Grown
  <1>7. SchemaOf[0] = {}
    BY <1>1, <1>6
  <1>8. ASSUME NEW k \in 1..Latest PROVE SchemaOf[k] = Grown(k, SchemaOf[k - 1])
    <2>1. k \in 0..Latest /\ k # 0
      BY <1>1
    <2> HIDE DEF Grown
    <2> QED BY <1>6, <2>1
  <1> QED BY <1>7, <1>8

(* SchemaOf, revision by revision, and what it tells: no revision adds what   *)
(* is there already, in SchemaOf or among the archive columns; the repairs    *)
(* fill columns of an earlier revision; the head has what the ORM maps.       *)
E00 == {}
E01 == E00 \cup V01.adds
E02 == E01 \cup V02.adds
E03 == E02 \cup V03.adds
E04 == E03 \cup V04.adds
E05 == E04
E06 == E05 \cup V06.adds
E07 == E06 \cup V07.adds
E08 == E07 \cup V08.adds
E09 == E08 \cup V09.adds
E10 == E09
E11 == E10 \cup V11.adds
E12 == E11
E13 == E12 \cup V13.adds
E14 == E13 \cup V14.adds
E15 == E14 \cup V15.adds
E16 == E15 \cup V16.adds
E17 == E16 \cup ReminderColumns
E18 == E17
E19 == E18 \cup V19.adds
E20 == E19
E21 == E20 \ V21.takes
E22 == E21
E23 == E22 \cup V23.adds
E24 == E23
E25 == E24 \cup V25.adds
E26 == E25 \cup V26.adds
E27 == E26 \cup V27.adds
E28 == E27 \cup V28.adds
E29 == E28 \cup V29.adds
E30 == E29 \cup V30.adds
E31 == E30 \cup V31.adds
E32 == E31 \cup V32.adds

LEMMA SetsOfNames ==
  /\ \A k \in Plain : Chain[k].adds \cap V19.adds = {} /\ Chain[k].adds \cap ReminderColumns = {}
  /\ \A k \in Plain \ {3} : Chain[k].adds \cap V05.fills = {}
  /\ V05.fills \subseteq V03.adds /\ V21.takes \subseteq V06.adds
  /\ V19.adds \cap V05.fills = {} /\ V19.adds \cap ReminderColumns = {} /\ V05.fills \cap ReminderColumns = {}
  <1> USE DEF V01, V02, V03, V04, V05, V06, V07, V08, V09, V10, V11, V12, V13, V14, V15, V16, V17, V18, V19, V20, V21, V22, V23, V24, V25, V26, V27, V28, V29, V30, V31, V32, Reversible, Nothing, ReminderColumns
  <1>1. V01.adds \cap V19.adds = {} /\ V01.adds \cap ReminderColumns = {} /\ V01.adds \cap V05.fills = {}
    OBVIOUS
  <1>2. V02.adds \cap V19.adds = {} /\ V02.adds \cap ReminderColumns = {} /\ V02.adds \cap V05.fills = {}
    OBVIOUS
  <1>3. V03.adds \cap V19.adds = {} /\ V03.adds \cap ReminderColumns = {}
    OBVIOUS
  <1>4. V04.adds \cap V19.adds = {} /\ V04.adds \cap ReminderColumns = {} /\ V04.adds \cap V05.fills = {}
    OBVIOUS
  <1>6. V06.adds \cap V19.adds = {} /\ V06.adds \cap ReminderColumns = {} /\ V06.adds \cap V05.fills = {}
    OBVIOUS
  <1>7. V07.adds \cap V19.adds = {} /\ V07.adds \cap ReminderColumns = {} /\ V07.adds \cap V05.fills = {}
    OBVIOUS
  <1>8. V08.adds \cap V19.adds = {} /\ V08.adds \cap ReminderColumns = {} /\ V08.adds \cap V05.fills = {}
    OBVIOUS
  <1>9. V09.adds \cap V19.adds = {} /\ V09.adds \cap ReminderColumns = {} /\ V09.adds \cap V05.fills = {}
    OBVIOUS
  <1>11. V11.adds \cap V19.adds = {} /\ V11.adds \cap ReminderColumns = {} /\ V11.adds \cap V05.fills = {}
    OBVIOUS
  <1>13. V13.adds \cap V19.adds = {} /\ V13.adds \cap ReminderColumns = {} /\ V13.adds \cap V05.fills = {}
    OBVIOUS
  <1>14. V14.adds \cap V19.adds = {} /\ V14.adds \cap ReminderColumns = {} /\ V14.adds \cap V05.fills = {}
    OBVIOUS
  <1>15. V15.adds \cap V19.adds = {} /\ V15.adds \cap ReminderColumns = {} /\ V15.adds \cap V05.fills = {}
    OBVIOUS
  <1>16. V16.adds \cap V19.adds = {} /\ V16.adds \cap ReminderColumns = {} /\ V16.adds \cap V05.fills = {}
    OBVIOUS
  <1>23. V23.adds \cap V19.adds = {} /\ V23.adds \cap ReminderColumns = {} /\ V23.adds \cap V05.fills = {}
    OBVIOUS
  <1>25. V25.adds \cap V19.adds = {} /\ V25.adds \cap ReminderColumns = {} /\ V25.adds \cap V05.fills = {}
    OBVIOUS
  <1>26. V26.adds \cap V19.adds = {} /\ V26.adds \cap ReminderColumns = {} /\ V26.adds \cap V05.fills = {}
    OBVIOUS
  <1>27. V27.adds \cap V19.adds = {} /\ V27.adds \cap ReminderColumns = {} /\ V27.adds \cap V05.fills = {}
    OBVIOUS
  <1>28. V28.adds \cap V19.adds = {} /\ V28.adds \cap ReminderColumns = {} /\ V28.adds \cap V05.fills = {}
    OBVIOUS
  <1>29. V29.adds \cap V19.adds = {} /\ V29.adds \cap ReminderColumns = {} /\ V29.adds \cap V05.fills = {}
    OBVIOUS
  <1>30. V30.adds \cap V19.adds = {} /\ V30.adds \cap ReminderColumns = {} /\ V30.adds \cap V05.fills = {}
    OBVIOUS
  <1>31. V31.adds \cap V19.adds = {} /\ V31.adds \cap ReminderColumns = {} /\ V31.adds \cap V05.fills = {}
    OBVIOUS
  <1>32. V32.adds \cap V19.adds = {} /\ V32.adds \cap ReminderColumns = {} /\ V32.adds \cap V05.fills = {}
    OBVIOUS
  <1>33. V05.fills \subseteq V03.adds /\ V21.takes \subseteq V06.adds
    OBVIOUS
  <1>34. V19.adds \cap V05.fills = {} /\ V19.adds \cap ReminderColumns = {} /\ V05.fills \cap ReminderColumns = {}
    OBVIOUS
  <1> HIDE DEF V01, V02, V03, V04, V05, V06, V07, V08, V09, V10, V11, V12, V13, V14, V15, V16, V17, V18, V19, V20, V21, V22, V23, V24, V25, V26, V27, V28, V29, V30, V31, V32, Reversible, Nothing, ReminderColumns
  <1> QED BY ChainIs, <1>1, <1>2, <1>3, <1>4, <1>6, <1>7, <1>8, <1>9, <1>11, <1>13, <1>14, <1>15, <1>16, <1>23, <1>25, <1>26, <1>27, <1>28, <1>29, <1>30, <1>31, <1>32, <1>33, <1>34 DEF Plain

LEMMA SchemaOfEach ==
  /\ SchemaOf[1] = E01 /\ SchemaOf[2] = E02 /\ SchemaOf[3] = E03 /\ SchemaOf[4] = E04
  /\ SchemaOf[5] = E05 /\ SchemaOf[6] = E06 /\ SchemaOf[7] = E07 /\ SchemaOf[8] = E08
  /\ SchemaOf[9] = E09 /\ SchemaOf[10] = E10 /\ SchemaOf[11] = E11 /\ SchemaOf[12] = E12
  /\ SchemaOf[13] = E13 /\ SchemaOf[14] = E14 /\ SchemaOf[15] = E15 /\ SchemaOf[16] = E16
  /\ SchemaOf[17] = E17 /\ SchemaOf[18] = E18 /\ SchemaOf[19] = E19 /\ SchemaOf[20] = E20
  /\ SchemaOf[21] = E21 /\ SchemaOf[22] = E22 /\ SchemaOf[23] = E23 /\ SchemaOf[24] = E24
  /\ SchemaOf[25] = E25 /\ SchemaOf[26] = E26 /\ SchemaOf[27] = E27 /\ SchemaOf[28] = E28
  /\ SchemaOf[29] = E29 /\ SchemaOf[30] = E30 /\ SchemaOf[31] = E31 /\ SchemaOf[32] = E32
  <1>0. SchemaOf[0] = E00
    BY SchemaOfIs DEF E00
  <1> DEFINE G(k) == SchemaOf[k] = (SchemaOf[k - 1] \ Chain[k].takes) \cup Chain[k].adds \cup Chain[k].fills
  <1>33. \A k \in 1..32 : G(k)
    BY SchemaOfIs, ChainIs DEF Grown
  <1>1. SchemaOf[1] = E01
    BY <1>33, <1>0, StepsAre, ChainIs DEF E01, Plain
  <1>2. SchemaOf[2] = E02
    BY <1>33, <1>1, StepsAre, ChainIs DEF E02, Plain
  <1>3. SchemaOf[3] = E03
    BY <1>33, <1>2, StepsAre, ChainIs DEF E03, Plain
  <1>4. SchemaOf[4] = E04
    BY <1>33, <1>3, StepsAre, ChainIs DEF E04, Plain
  <1>5. SchemaOf[5] = E05
    BY <1>33, <1>4, StepsAre, ChainIs, SetsOfNames, <1>3, <1>4 DEF E05, E04, E03, Plain
  <1>6. SchemaOf[6] = E06
    BY <1>33, <1>5, StepsAre, ChainIs DEF E06, Plain
  <1>7. SchemaOf[7] = E07
    BY <1>33, <1>6, StepsAre, ChainIs DEF E07, Plain
  <1>8. SchemaOf[8] = E08
    BY <1>33, <1>7, StepsAre, ChainIs DEF E08, Plain
  <1>9. SchemaOf[9] = E09
    BY <1>33, <1>8, StepsAre, ChainIs DEF E09, Plain
  <1>10. SchemaOf[10] = E10
    <2>1. Chain[10].takes = {} /\ Chain[10].adds = {} /\ Chain[10].fills = {}
      BY StepsAre, ChainIs DEF Plain
    <2>2. SchemaOf[10] = (SchemaOf[9] \ {}) \cup {} \cup {}
      <3>1. 10 \in 1..32 /\ 10 - 1 = 9
        OBVIOUS
      <3>2. G(10)
        BY <1>33, <3>1
      <3> QED BY <2>1, <3>1, <3>2
    <2> QED BY <1>9, <2>2 DEF E10
  <1>11. SchemaOf[11] = E11
    BY <1>33, <1>10, StepsAre, ChainIs DEF E11, Plain
  <1>12. SchemaOf[12] = E12
    <2>1. Chain[12].takes = {} /\ Chain[12].adds = {} /\ Chain[12].fills = {}
      BY StepsAre, ChainIs DEF Plain
    <2>2. SchemaOf[12] = (SchemaOf[11] \ {}) \cup {} \cup {}
      <3>1. 12 \in 1..32 /\ 12 - 1 = 11
        OBVIOUS
      <3>2. G(12)
        BY <1>33, <3>1
      <3> QED BY <2>1, <3>1, <3>2
    <2> QED BY <1>11, <2>2 DEF E12
  <1>13. SchemaOf[13] = E13
    BY <1>33, <1>12, StepsAre, ChainIs DEF E13, Plain
  <1>14. SchemaOf[14] = E14
    BY <1>33, <1>13, StepsAre, ChainIs DEF E14, Plain
  <1>15. SchemaOf[15] = E15
    BY <1>33, <1>14, StepsAre, ChainIs DEF E15, Plain
  <1>16. SchemaOf[16] = E16
    BY <1>33, <1>15, StepsAre, ChainIs DEF E16, Plain
  <1>17. SchemaOf[17] = E17
    BY <1>33, <1>16, StepsAre, ChainIs DEF E17, Plain
  <1>18. SchemaOf[18] = E18
    BY <1>33, <1>17, StepsAre, ChainIs, <1>17 DEF E18, E17, Plain
  <1>19. SchemaOf[19] = E19
    BY <1>33, <1>18, StepsAre, ChainIs DEF E19, Plain
  <1>20. SchemaOf[20] = E20
    <2>1. Chain[20].takes = {} /\ Chain[20].adds = {} /\ Chain[20].fills = {}
      BY StepsAre, ChainIs DEF Plain
    <2>2. SchemaOf[20] = (SchemaOf[19] \ {}) \cup {} \cup {}
      <3>1. 20 \in 1..32 /\ 20 - 1 = 19
        OBVIOUS
      <3>2. G(20)
        BY <1>33, <3>1
      <3> QED BY <2>1, <3>1, <3>2
    <2> QED BY <1>19, <2>2 DEF E20
  <1>21. SchemaOf[21] = E21
    BY <1>33, <1>20, StepsAre, ChainIs DEF E21, Plain
  <1>22. SchemaOf[22] = E22
    <2>1. Chain[22].takes = {} /\ Chain[22].adds = {} /\ Chain[22].fills = {}
      BY StepsAre, ChainIs DEF Plain
    <2>2. SchemaOf[22] = (SchemaOf[21] \ {}) \cup {} \cup {}
      <3>1. 22 \in 1..32 /\ 22 - 1 = 21
        OBVIOUS
      <3>2. G(22)
        BY <1>33, <3>1
      <3> QED BY <2>1, <3>1, <3>2
    <2> QED BY <1>21, <2>2 DEF E22
  <1>23. SchemaOf[23] = E23
    BY <1>33, <1>22, StepsAre, ChainIs DEF E23, Plain
  <1>24. SchemaOf[24] = E24
    <2>1. Chain[24].takes = {} /\ Chain[24].adds = {} /\ Chain[24].fills = {}
      BY StepsAre, ChainIs DEF Plain
    <2>2. SchemaOf[24] = (SchemaOf[23] \ {}) \cup {} \cup {}
      <3>1. 24 \in 1..32 /\ 24 - 1 = 23
        OBVIOUS
      <3>2. G(24)
        BY <1>33, <3>1
      <3> QED BY <2>1, <3>1, <3>2
    <2> QED BY <1>23, <2>2 DEF E24
  <1>25. SchemaOf[25] = E25
    BY <1>33, <1>24, StepsAre, ChainIs DEF E25, Plain
  <1>26. SchemaOf[26] = E26
    BY <1>33, <1>25, StepsAre, ChainIs DEF E26, Plain
  <1>27. SchemaOf[27] = E27
    BY <1>33, <1>26, StepsAre, ChainIs DEF E27, Plain
  <1>28. SchemaOf[28] = E28
    BY <1>33, <1>27, StepsAre, ChainIs DEF E28, Plain
  <1>29. SchemaOf[29] = E29
    BY <1>33, <1>28, StepsAre, ChainIs DEF E29, Plain
  <1>30. SchemaOf[30] = E30
    BY <1>33, <1>29, StepsAre, ChainIs DEF E30, Plain
  <1>31. SchemaOf[31] = E31
    BY <1>33, <1>30, StepsAre, ChainIs DEF E31, Plain
  <1>32. SchemaOf[32] = E32
    BY <1>33, <1>31, StepsAre, ChainIs DEF E32, Plain
  <1> QED BY <1>1, <1>2, <1>3, <1>4, <1>5, <1>6, <1>7, <1>8, <1>9, <1>10, <1>11, <1>12, <1>13, <1>14, <1>15, <1>16, <1>17, <1>18, <1>19, <1>20, <1>21, <1>22, <1>23, <1>24, <1>25, <1>26, <1>27, <1>28, <1>29, <1>30, <1>31, <1>32

LEMMA NamesDistinct ==
  /\ \A k \in 1..32 : Chain[k].adds \cap SchemaOf[k - 1] = {}
  /\ ReminderColumns \cap SchemaOf[16] = {} /\ ReminderColumns \subseteq SchemaOf[17]
  /\ V05.fills \subseteq SchemaOf[4] /\ V21.takes \subseteq SchemaOf[20]
  /\ V21.takes \cap SchemaOf[21] = {} /\ OrmNeeds \subseteq SchemaOf[32]
  <1> USE DEF V01, V02, V03, V04, V05, V06, V07, V08, V09, V10, V11, V12, V13, V14, V15, V16, V17, V18, V19, V20, V21, V22, V23, V24, V25, V26, V27, V28, V29, V30, V31, V32,
          E00, E01, E02, E03, E04, E05, E06, E07, E08, E09, E10, E11, E12, E13, E14, E15, E16, E17, E18, E19, E20, E21, E22, E23, E24, E25, E26, E27, E28, E29, E30, E31, E32,
          Reversible, Nothing, ReminderColumns
  <1>1. V01.adds \cap E00 = {}
    OBVIOUS
  <1>2. V02.adds \cap E01 = {}
    OBVIOUS
  <1>3. V03.adds \cap E02 = {}
    OBVIOUS
  <1>4. V04.adds \cap E03 = {}
    OBVIOUS
  <1>6. V06.adds \cap E05 = {}
    OBVIOUS
  <1>7. V07.adds \cap E06 = {}
    OBVIOUS
  <1>8. V08.adds \cap E07 = {}
    OBVIOUS
  <1>9. V09.adds \cap E08 = {}
    OBVIOUS
  <1>11. V11.adds \cap E10 = {}
    OBVIOUS
  <1>13. V13.adds \cap E12 = {}
    OBVIOUS
  <1>14. V14.adds \cap E13 = {}
    OBVIOUS
  <1>15. V15.adds \cap E14 = {}
    OBVIOUS
  <1>16. V16.adds \cap E15 = {}
    OBVIOUS
  <1>19. V19.adds \cap E18 = {}
    OBVIOUS
  <1>23. V23.adds \cap E22 = {}
    OBVIOUS
  <1>25. V25.adds \cap E24 = {}
    OBVIOUS
  <1>26. V26.adds \cap E25 = {}
    OBVIOUS
  <1>27. V27.adds \cap E26 = {}
    OBVIOUS
  <1>28. V28.adds \cap E27 = {}
    OBVIOUS
  <1>29. V29.adds \cap E28 = {}
    OBVIOUS
  <1>30. V30.adds \cap E29 = {}
    OBVIOUS
  <1>31. V31.adds \cap E30 = {}
    OBVIOUS
  <1>32. V32.adds \cap E31 = {}
    OBVIOUS
  <1>33. ReminderColumns \cap E16 = {} /\ ReminderColumns \subseteq E17 /\ V05.fills \subseteq E04
    OBVIOUS
  <1>34. V21.takes \subseteq E20 /\ V21.takes \cap E21 = {}
    OBVIOUS
  <1>35. OrmTables \subseteq E32
    BY DEF OrmTables
  <1>36. OrmCustomer \subseteq E32
    BY DEF OrmCustomer
  <1>37. OrmOpportunity \subseteq E32 /\ OrmMessage \subseteq E32 /\ OrmOthers \subseteq E32
    BY DEF OrmOpportunity, OrmMessage, OrmOthers
  <1> HIDE DEF V01, V02, V03, V04, V05, V06, V07, V08, V09, V10, V11, V12, V13, V14, V15, V16, V17, V18, V19, V20, V21, V22, V23, V24, V25, V26, V27, V28, V29, V30, V31, V32,
          E00, E01, E02, E03, E04, E05, E06, E07, E08, E09, E10, E11, E12, E13, E14, E15, E16, E17, E18, E19, E20, E21, E22, E23, E24, E25, E26, E27, E28, E29, E30, E31, E32,
          Reversible, Nothing, ReminderColumns
  <1>38. \A k \in Plain \cup {19} : Chain[k].adds \cap SchemaOf[k - 1] = {}
    BY SchemaOfEach, SchemaOfIs, ChainIs, <1>1, <1>2, <1>3, <1>4, <1>6, <1>7, <1>8, <1>9, <1>11, <1>13, <1>14, <1>15, <1>16, <1>19, <1>23, <1>25, <1>26, <1>27, <1>28, <1>29, <1>30, <1>31, <1>32 DEF Plain, E00
  <1>39. \A k \in 1..32 : k \notin Plain \cup {19} => Chain[k].adds = {}
    BY StepsAre, ChainIs
  <1> QED BY SchemaOfEach, <1>33, <1>34, <1>35, <1>36, <1>37, <1>38, <1>39 DEF OrmNeeds

-----------------------------------------------------------------------------
(* What a stale stamp may hide at revision k: nothing once the repair of what *)
(* was found missing is passed.                                               *)
Holes(k) ==
  IF found.whole \/ (found.rev < 5 /\ k >= 5) \/ k >= 18 THEN {}
  ELSE IF found.rev < 5 THEN V05.fills ELSE ReminderColumns

FoundOK == found.rev \in 0..32 /\ found.whole \in BOOLEAN

(* The schema is the stamp's, but for the archive columns that stay and the   *)
(* holes; and only a repair of 0005 leaves marks.                             *)
SchemaInv(d) ==
  /\ d.rev \in 0..32 /\ d.width \in {32, 100} /\ d.cascade \in BOOLEAN
  /\ d.schema \subseteq SchemaOf[d.rev] \cup V19.adds
  /\ SchemaOf[d.rev] \subseteq d.schema \cup Holes(d.rev)
  /\ d.marked \subseteq V05.fills
  /\ d.rev < 5 \/ found.whole \/ found.rev >= 5 => d.marked = {}
  /\ d.rev >= 11 => d.width = 100
  /\ d.rev >= 22 => ~d.cascade

LEMMA StepsOfSchema ==
  ASSUME NEW k \in 1..32
  PROVE  /\ SchemaOf[k] = Grown(k, SchemaOf[k - 1])
         /\ Chain[k].drops = IF k = 19 THEN {} ELSE Chain[k].adds
         /\ Chain[k].fills = IF k = 5 THEN V05.fills ELSE IF k \in {17, 18} THEN ReminderColumns ELSE {}
         /\ Chain[k].eases = IF k = 17 THEN ReminderColumns ELSE {}
         /\ Chain[k].takes = IF k = 21 THEN V21.takes ELSE {}
         /\ Chain[k].gives = Chain[k].takes
         /\ Chain[k].adds \cap SchemaOf[k - 1] = {}
         /\ k = 19 => Chain[k].adds = V19.adds
         /\ k # 19 => Chain[k].adds \cap V19.adds = {} /\ Chain[k].adds \cap ReminderColumns = {}
         /\ k # 3 => Chain[k].adds \cap V05.fills = {}
  <1>1. k \in 1..Latest
    BY ChainIs
  <1>2. /\ Chain[k].drops = IF k = 19 THEN {} ELSE Chain[k].adds
        /\ Chain[k].fills = IF k = 5 THEN V05.fills ELSE IF k \in {17, 18} THEN ReminderColumns ELSE {}
        /\ Chain[k].eases = IF k = 17 THEN ReminderColumns ELSE {}
        /\ Chain[k].takes = IF k = 21 THEN V21.takes ELSE {}
        /\ Chain[k].gives = Chain[k].takes
        /\ k \notin Plain \cup {19} => Chain[k].adds = {}
    BY <1>1, StepsAre, Zenon
  <1>3. SchemaOf[k] = Grown(k, SchemaOf[k - 1])
    BY <1>1, SchemaOfIs, Zenon
  <1>4. Chain[k].adds \cap SchemaOf[k - 1] = {}
    BY NamesDistinct, Zenon
  <1>5. k = 19 => Chain[k].adds = V19.adds
    BY ChainIs, Zenon
  <1>6. k # 19 => Chain[k].adds \cap V19.adds = {} /\ Chain[k].adds \cap ReminderColumns = {}
    <2>1. CASE k \in Plain
      BY <2>1, SetsOfNames, Zenon
    <2>2. CASE k \notin Plain
      BY <2>2, <1>2
    <2> QED BY <2>1, <2>2, Zenon
  <1>7. k # 3 => Chain[k].adds \cap V05.fills = {}
    <2>1. CASE k \in Plain
      BY <2>1, SetsOfNames
    <2>2. CASE k = 19
      BY <2>2, <1>5, SetsOfNames
    <2>3. CASE k \notin Plain \cup {19}
      BY <2>3, <1>2
    <2> QED BY <2>1, <2>2, <2>3
  <1> QED BY <1>2, <1>3, <1>4, <1>5, <1>6, <1>7, Zenon

LEMMA UpFields ==
  ASSUME NEW k, NEW d
  PROVE  /\ Up(k, d).rev = k /\ Up(k, d).width = UpWidth(k, d)
         /\ Up(k, d).schema = (d.schema \ Chain[k].takes) \cup Chain[k].adds \cup Chain[k].fills
         /\ Up(k, d).marked = IF k = 5 THEN d.marked \cup (Chain[k].fills \ d.schema) ELSE d.marked
         /\ Up(k, d).cascade = (d.cascade /\ k # 22)
         /\ Up(k, d).row = Filled(k, d)
  BY Zenon DEF Up

LEMMA HolesShrink ==
  ASSUME FoundOK, NEW k \in 1..32
  PROVE  /\ Holes(k) \subseteq Holes(k - 1)
         /\ Holes(k - 1) \subseteq Holes(k) \cup Chain[k].fills
  <1>1. Chain[k].fills = IF k = 5 THEN V05.fills ELSE IF k \in {17, 18} THEN ReminderColumns ELSE {}
    BY StepsOfSchema
  <1> QED BY <1>1 DEF Holes, FoundOK

LEMMA SchemaUp ==
  ASSUME FoundOK, NEW d, SchemaInv(d), NEW k \in 1..32, k = d.rev + 1, UpFault(k, d) = "none"
  PROVE  SchemaInv(Up(k, d))
  <1> DEFINE new == Up(k, d).schema  marks == Up(k, d).marked
             T == Chain[k].takes  A == Chain[k].adds  F == Chain[k].fills
             old == SchemaOf[k - 1]  now == SchemaOf[k]
             was == Holes(k - 1)  left == Holes(k)
  <1>1. d.rev = k - 1
    BY DEF SchemaInv
  <1>f. /\ Up(k, d).rev = k /\ Up(k, d).width = UpWidth(k, d)
        /\ new = (d.schema \ T) \cup A \cup F
        /\ marks = IF k = 5 THEN d.marked \cup (F \ d.schema) ELSE d.marked
        /\ Up(k, d).cascade = (d.cascade /\ k # 22)
    BY DEF Up
  <1>s. /\ now = (old \ T) \cup A \cup F
        /\ F = IF k = 5 THEN V05.fills ELSE IF k \in {17, 18} THEN ReminderColumns ELSE {}
        /\ T = IF k = 21 THEN V21.takes ELSE {}
    BY StepsOfSchema DEF Grown
  <1>i. /\ d.schema \subseteq old \cup V19.adds /\ old \subseteq d.schema \cup was
        /\ d.marked \subseteq V05.fills
        /\ k - 1 < 5 \/ found.whole \/ found.rev >= 5 => d.marked = {}
    BY <1>1 DEF SchemaInv
  <1>h. left \subseteq was /\ was \subseteq left \cup F
    BY HolesShrink
  <1>2. new \subseteq now \cup V19.adds
    <2> HIDE DEF new, T, A, F, old, now
    <2> QED BY <1>f, <1>s, <1>i
  <1>3. now \subseteq new \cup left
    <2> HIDE DEF new, T, A, F, old, now, was, left
    <2>1. now = (old \ T) \cup A \cup F /\ new = (d.schema \ T) \cup A \cup F
      BY <1>f, <1>s
    <2> QED BY <2>1, <1>i, <1>h
  <1>4. marks \subseteq V05.fills
    <2> HIDE DEF marks, F
    <2> QED BY <1>f, <1>s, <1>i
  <1>5. k < 5 \/ found.whole \/ found.rev >= 5 => marks = {}
    <2>1. CASE k = 5 /\ (found.whole \/ found.rev >= 5)
      <3>1. V05.fills \subseteq old
        BY <2>1, NamesDistinct
      <3>2. was \cap V05.fills = {}
        BY <2>1, SetsOfNames DEF Holes, FoundOK
      <3>3. F = V05.fills /\ marks = d.marked \cup (F \ d.schema) /\ d.marked = {}
        <4> HIDE DEF marks, F
        <4> QED BY <2>1, <1>f, <1>s, <1>i
      <3> HIDE DEF marks, F, old, was
      <3>4. F \ d.schema = {}
        BY <3>1, <3>2, <3>3, <1>i
      <3> QED BY <3>3, <3>4
    <2>2. CASE k < 5 \/ k > 5
      <3> HIDE DEF marks
      <3>1. marks = d.marked
        BY <2>2, <1>f
      <3>2. k < 5 \/ found.whole \/ found.rev >= 5 => (k - 1 < 5 \/ found.whole \/ found.rev >= 5)
        OBVIOUS
      <3> QED BY <1>i, <3>1, <3>2
    <2>3. k = 5 /\ found.rev < 5 /\ ~found.whole => TRUE
      OBVIOUS
    <2> QED BY <2>1, <2>2
  <1>6. UpWidth(k, d) \in {32, 100} /\ (k >= 11 => UpWidth(k, d) = 100)
    <2>1. k = 11 => Fits(k, UpWidth(k, d))
      BY DEF UpFault
    <2> QED BY <1>1, <2>1 DEF SchemaInv, UpWidth, Fits, LongNames
  <1>7. (d.cascade /\ k # 22) \in BOOLEAN /\ (k >= 22 => ~(d.cascade /\ k # 22))
    BY <1>1 DEF SchemaInv
  <1> DEFINE e == Up(k, d)
  <1>8. e.rev = k /\ e.width = UpWidth(k, d) /\ e.cascade = (d.cascade /\ k # 22)
    BY <1>f
  <1>9. e.schema \subseteq SchemaOf[e.rev] \cup V19.adds /\ SchemaOf[e.rev] \subseteq e.schema \cup Holes(e.rev)
    BY <1>2, <1>3, <1>8
  <1>10. e.marked \subseteq V05.fills
    BY <1>4
  <1>11. e.rev < 5 \/ found.whole \/ found.rev >= 5 => e.marked = {}
    BY <1>5, <1>8
  <1>12. e.cascade \in BOOLEAN /\ (k >= 22 => ~e.cascade)
    BY <1>7, <1>8, Zenon
  <1>13. e.rev \in 0..32 /\ e.width \in {32, 100} /\ (e.rev >= 11 => e.width = 100) /\ (e.rev >= 22 => ~e.cascade)
    <2> HIDE DEF e
    <2> QED BY <1>6, <1>8, <1>12
  <1> QED BY <1>9, <1>10, <1>11, <1>12, <1>13, Zenon DEF SchemaInv

(* With a wide version table an upgrade fails over the archive columns only.  *)
LEMMA UpFaults ==
  ASSUME FoundOK, NEW d, SchemaInv(d), NEW k \in 1..32, k = d.rev + 1, d.width = 100
  PROVE  UpFault(k, d) = "none" \/ (UpFault(k, d) = "exists" /\ k = 19)
  <1>1. d.rev = k - 1
    BY DEF SchemaInv
  <1>2. k # 19 => Chain[k].adds \cap d.schema = {}
    BY <1>1, StepsOfSchema DEF SchemaInv
  <1>3. Fits(k, UpWidth(k, d))
    BY DEF Fits, UpWidth
  <1> QED BY <1>2, <1>3 DEF UpFault

LEMMA SchemaDown ==
  ASSUME FoundOK, NEW d, SchemaInv(d), NEW k \in 1..32, k = d.rev, DownFault(k, d) = "none",
         NEW e, e.rev = k - 1, e.width = DownWidth(k, d), e.cascade = d.cascade,
         e.schema = (d.schema \ (Chain[k].drops \cup Chain[k].eases \cup (IF k = 5 THEN d.marked ELSE {})))
                      \cup Chain[k].gives,
         e.marked = IF k = 5 THEN {} ELSE d.marked
  PROVE  SchemaInv(e)
  <1> DEFINE new == e.schema  rest == d.schema  marks == d.marked
             T == Chain[k].takes  A == Chain[k].adds  F == Chain[k].fills
             D == Chain[k].drops  X == Chain[k].eases  G == Chain[k].gives
             R == IF k = 5 THEN d.marked ELSE {}
             old == SchemaOf[k - 1]  now == SchemaOf[k]
             was == Holes(k - 1)  left == Holes(k)
  <1>f. new = (rest \ (D \cup X \cup R)) \cup G
    OBVIOUS
  <1>s. /\ now = (old \ T) \cup A \cup F
        /\ D = IF k = 19 THEN {} ELSE A
        /\ F = IF k = 5 THEN V05.fills ELSE IF k \in {17, 18} THEN ReminderColumns ELSE {}
        /\ X = IF k = 17 THEN ReminderColumns ELSE {}
        /\ T = IF k = 21 THEN V21.takes ELSE {}
        /\ G = T
        /\ k = 19 => A = V19.adds
        /\ A \cap old = {}
    BY StepsOfSchema DEF Grown
  <1>i. /\ rest \subseteq now \cup V19.adds /\ now \subseteq rest \cup left
        /\ marks \subseteq V05.fills
        /\ k < 5 \/ found.whole \/ found.rev >= 5 => marks = {}
    BY DEF SchemaInv
  <1>h. left \subseteq was
    BY HolesShrink
  <1>n. /\ k = 5 => V05.fills \subseteq old
        /\ k = 18 => ReminderColumns \subseteq old
        /\ k = 17 => ReminderColumns \cap old = {}
        /\ k = 21 => V21.takes \subseteq old
    BY NamesDistinct
  <1>r. R \subseteq was
    <2>1. k = 5 /\ ~found.whole /\ ~(found.rev >= 5) => was = V05.fills
      BY DEF Holes, FoundOK
    <2> HIDE DEF was
    <2> QED BY <1>i, <2>1
  <1>2. new \subseteq old \cup V19.adds
    <2> HIDE DEF new, rest, T, A, F, D, X, G, R, old, now
    <2> QED BY <1>f, <1>s, <1>i, <1>n
  <1>3. old \subseteq new \cup was
    <2> HIDE DEF new, rest, T, A, F, D, X, G, R, old, now, was, left
    <2> SUFFICES ASSUME NEW x \in old, x \notin was PROVE x \in new
      OBVIOUS
    <2>1. CASE x \in T
      BY <2>1, <1>f, <1>s
    <2>2. CASE x \notin T
      <3>1. x \in rest
        BY <2>2, <1>s, <1>i, <1>h
      <3>2. x \notin D /\ x \notin X /\ x \notin R
        BY <1>s, <1>n, <1>r
      <3> QED BY <1>f, <3>1, <3>2
    <2> QED BY <2>1, <2>2
  <1>4. e.marked \subseteq V05.fills /\ (e.rev < 5 \/ found.whole \/ found.rev >= 5 => e.marked = {})
    <2>1. k < 5 \/ k = 5 \/ k - 1 >= 5
      OBVIOUS
    <2> QED BY <1>i, <2>1
  <1>5. e.width \in {32, 100} /\ (e.rev >= 11 => e.width = 100) /\ k # 12
    <2>1. Fits(k - 1, DownWidth(k, d))
      BY DEF DownFault
    <2>2. k # 12
      BY <2>1 DEF Fits, LongNames, DownWidth
    <2> QED BY <2>2 DEF DownWidth, SchemaInv
  <1>6. e.cascade \in BOOLEAN /\ (e.rev >= 22 => ~e.cascade)
    BY DEF SchemaInv
  <1>7. e.rev \in 0..32
    OBVIOUS
  <1>8. e.schema \subseteq SchemaOf[e.rev] \cup V19.adds /\ SchemaOf[e.rev] \subseteq e.schema \cup Holes(e.rev)
    BY <1>2, <1>3
  <1> QED BY <1>4, <1>5, <1>6, <1>7, <1>8, Zenon DEF SchemaInv

(* A rollback fails where it refuses, at 0003 over columns that were never    *)
(* there or were repaired, at 0012 and at 0021.                               *)
LEMMA DownFaults ==
  ASSUME FoundOK, NEW d, SchemaInv(d), NEW k \in 1..32, k = d.rev
  PROVE  \/ DownFault(k, d) = "none"
         \/ DownFault(k, d) = "refused" /\ k \in {10, 22, 24}
         \/ DownFault(k, d) = "missing" /\ k = 3 /\ ~found.whole
         \/ DownFault(k, d) = "width" /\ k = 12
         \/ DownFault(k, d) = "exists" /\ k = 21
  <1>1. Refuses(k, d) => k \in {10, 22, 24}
    BY DEF Refuses, LongNames
  <1>2. Chain[k].drops \subseteq d.schema \/ (k = 3 /\ ~found.whole)
    <2> DEFINE now == SchemaOf[k]  A == Chain[k].adds  D == Chain[k].drops  rest == d.schema  left == Holes(k)
    <2>1. /\ D = IF k = 19 THEN {} ELSE A
          /\ A \subseteq now
          /\ k # 3 => A \cap V05.fills = {}
          /\ k # 19 => A \cap ReminderColumns = {}
      <3>1. now = Grown(k, SchemaOf[k - 1]) /\ D = IF k = 19 THEN {} ELSE A
        BY StepsOfSchema
      <3>2. (k # 3 => A \cap V05.fills = {}) /\ (k # 19 => A \cap ReminderColumns = {})
        BY StepsOfSchema
      <3>3. A \subseteq now
        BY <3>1 DEF Grown
      <3> QED BY <3>1, <3>2, <3>3, Zenon
    <2>2. now \subseteq rest \cup left
      BY DEF SchemaInv
    <2>3. left \in {{}, V05.fills, ReminderColumns} /\ (found.whole => left = {})
      BY DEF Holes
    <2> HIDE DEF now, A, D, rest, left
    <2>4. CASE k = 19
      BY <2>4, <2>1 DEF D, rest
    <2>5. CASE k # 19 /\ (k # 3 \/ found.whole)
      <3>1. D \cap left = {}
        BY <2>5, <2>1, <2>3
      <3>2. D \subseteq now
        BY <2>5, <2>1
      <3> QED BY <3>1, <3>2, <2>2 DEF D, rest
    <2> QED BY <2>4, <2>5
  <1>3. Chain[k].gives \cap d.schema = {}
    <2> DEFINE G == Chain[k].gives  now == SchemaOf[k]  rest == d.schema
    <2>1. G = IF k = 21 THEN V21.takes ELSE {}
      <3>1. Chain[k].gives = Chain[k].takes /\ Chain[k].takes = IF k = 21 THEN V21.takes ELSE {}
        BY StepsOfSchema
      <3> QED BY <3>1, Zenon
    <2>2. rest \subseteq now \cup V19.adds
      BY DEF SchemaInv
    <2>3. k = 21 => V21.takes \cap now = {}
      BY NamesDistinct
    <2>4. V21.takes \cap V19.adds = {}
      <3>1. 6 \in Plain /\ Chain[6].adds = V06.adds
        BY ChainIs DEF Plain
      <3> QED BY <3>1, SetsOfNames
    <2> HIDE DEF G, now, rest
    <2>5. G \cap rest = {}
      BY <2>1, <2>2, <2>3, <2>4
    <2> QED BY <2>5 DEF G, rest
  <1>4. Fits(k - 1, DownWidth(k, d)) \/ k = 12
    BY DEF Fits, DownWidth, SchemaInv, LongNames
  <1> QED BY <1>1, <1>2, <1>3, <1>4 DEF DownFault, CreatedTwice

-----------------------------------------------------------------------------
(* The columns of the row, and what it means that a step changes only some.   *)
Fields == {"status", "custom", "level", "score", "visits", "alibaba", "plan", "seen", "label",
           "latest", "deal", "trail", "rmb", "inquiry"}

IsRow(r) == r = [f \in Fields |-> r[f]]

ChangesOnly(r, n, S) == IsRow(n) /\ \A f \in Fields \ S : n[f] = r[f]

(* What each data step writes.                                                *)
LEMMA FillsWrite ==
  ASSUME NEW r, IsRow(r)
  PROVE  /\ ChangesOnly(r, r, {})
         /\ ChangesOnly(r, Fill03(r), {"custom"}) /\ Fill03(r).custom = r.status
         /\ ChangesOnly(r, Fill11(r), {"score"})
         /\ Fill11(r).score = IF r.level = "A" THEN 80 ELSE IF r.level = "B" THEN 60 ELSE 30
         /\ ChangesOnly(r, Fill13(r), {"visits"})
         /\ Fill13(r).visits = [i \in DOMAIN r.visits |-> [r.visits[i] EXCEPT !.on = r.visits[i].made]]
         /\ ChangesOnly(r, Fill17(r), {"plan", "seen"}) /\ ShowsNewest(Fill17(r))
         /\ ChangesOnly(r, Fill18(r), {"plan", "seen"})
         /\ Fill18(r).plan = (IF r.plan = Never THEN Null ELSE r.plan)
         /\ Fill18(r).seen = (IF r.seen = Never THEN Null ELSE r.seen)
         /\ ChangesOnly(r, Fill19(r), {"label", "latest"}) /\ Fill19(r).label = Label19[r.custom]
         /\ ChangesOnly(r, Fill20(r), {"label"})
         /\ Fill20(r).label = IF r.label \in DOMAIN STAGE_RENAMES THEN STAGE_RENAMES[r.label] ELSE r.label
         /\ ChangesOnly(r, Fill22(r), {"inquiry"})
         /\ Fill22(r).inquiry =
              [r.inquiry EXCEPT !.own =
                 IF r.inquiry.own \notin {Gone, "nobody"} THEN r.inquiry.own
                 ELSE IF r.inquiry.deal # "nobody" THEN r.inquiry.deal ELSE r.inquiry.cust]
  <1>0. ChangesOnly(r, r, {})
    BY DEF IsRow, ChangesOnly
  <1>3. ChangesOnly(r, Fill03(r), {"custom"}) /\ Fill03(r).custom = r.status
    BY DEF IsRow, ChangesOnly, Fill03, Fields
  <1>11. /\ ChangesOnly(r, Fill11(r), {"score"})
         /\ Fill11(r).score = IF r.level = "A" THEN 80 ELSE IF r.level = "B" THEN 60 ELSE 30
    BY DEF IsRow, ChangesOnly, Fill11, Fields
  <1>13. /\ ChangesOnly(r, Fill13(r), {"visits"})
         /\ Fill13(r).visits = [i \in DOMAIN r.visits |-> [r.visits[i] EXCEPT !.on = r.visits[i].made]]
    BY DEF IsRow, ChangesOnly, Fill13, Fields
  <1>17. ChangesOnly(r, Fill17(r), {"plan", "seen"}) /\ ShowsNewest(Fill17(r))
    BY DEF IsRow, ChangesOnly, Fill17, Fields, ShowsNewest
  <1>18. /\ ChangesOnly(r, Fill18(r), {"plan", "seen"})
         /\ Fill18(r).plan = (IF r.plan = Never THEN Null ELSE r.plan)
         /\ Fill18(r).seen = (IF r.seen = Never THEN Null ELSE r.seen)
    BY DEF IsRow, ChangesOnly, Fill18, Fields
  <1>19. ChangesOnly(r, Fill19(r), {"label", "latest"}) /\ Fill19(r).label = Label19[r.custom]
    BY DEF IsRow, ChangesOnly, Fill19, Fields
  <1>20. /\ ChangesOnly(r, Fill20(r), {"label"})
         /\ Fill20(r).label = IF r.label \in DOMAIN STAGE_RENAMES THEN STAGE_RENAMES[r.label] ELSE r.label
    BY DEF IsRow, ChangesOnly, Fill20, Fields
  <1>22. /\ ChangesOnly(r, Fill22(r), {"inquiry"})
         /\ Fill22(r).inquiry =
              [r.inquiry EXCEPT !.own =
                 IF r.inquiry.own \notin {Gone, "nobody"} THEN r.inquiry.own
                 ELSE IF r.inquiry.deal # "nobody" THEN r.inquiry.deal ELSE r.inquiry.cust]
    BY DEF IsRow, ChangesOnly, Fill22, Fields
  <1> QED BY <1>0, <1>3, <1>11, <1>13, <1>17, <1>18, <1>19, <1>20, <1>22

LEMMA StageFillsWrite ==
  ASSUME NEW r, IsRow(r), r.deal.stage # Gone
  PROVE  /\ ChangesOnly(r, Fill07(r), {"deal", "trail"})
         /\ Fill07(r).deal = [r.deal EXCEPT !.stage = Renamed07[r.deal.stage]]
         /\ Fill07(r).trail = [r.trail EXCEPT !.stage = <<Renamed07[r.deal.stage]>>]
         /\ ChangesOnly(r, Fill14(r), {"deal", "trail"})
         /\ Fill14(r).deal = [r.deal EXCEPT !.sales = Sales14[r.deal.stage]]
         /\ Fill14(r).trail = [r.trail EXCEPT !.sales = <<Sales14[r.deal.stage]>>]
         /\ ChangesOnly(r, Fill16(r), {"deal", "trail"})
         /\ Fill16(r).deal = [r.deal EXCEPT !.deal = Deal16[r.deal.sales]]
         /\ Fill16(r).trail = [r.trail EXCEPT !.deal = <<Deal16[r.deal.sales]>>]
         /\ ChangesOnly(r, Back07(r), {"deal", "trail"})
         /\ Back07(r).deal =
              [r.deal EXCEPT !.stage = CHOOSE s \in CustomerStages : Renamed07[s] = r.deal.stage]
         /\ Back07(r).trail = [r.trail EXCEPT !.stage = <<>>]
  <1>7. /\ ChangesOnly(r, Fill07(r), {"deal", "trail"})
        /\ Fill07(r).deal = [r.deal EXCEPT !.stage = Renamed07[r.deal.stage]]
        /\ Fill07(r).trail = [r.trail EXCEPT !.stage = <<Renamed07[r.deal.stage]>>]
    BY DEF IsRow, ChangesOnly, Fill07, Fields
  <1>14. /\ ChangesOnly(r, Fill14(r), {"deal", "trail"})
         /\ Fill14(r).deal = [r.deal EXCEPT !.sales = Sales14[r.deal.stage]]
         /\ Fill14(r).trail = [r.trail EXCEPT !.sales = <<Sales14[r.deal.stage]>>]
    BY DEF IsRow, ChangesOnly, Fill14, Fields
  <1>16. /\ ChangesOnly(r, Fill16(r), {"deal", "trail"})
         /\ Fill16(r).deal = [r.deal EXCEPT !.deal = Deal16[r.deal.sales]]
         /\ Fill16(r).trail = [r.trail EXCEPT !.deal = <<Deal16[r.deal.sales]>>]
    BY DEF IsRow, ChangesOnly, Fill16, Fields
  <1>8. /\ ChangesOnly(r, Back07(r), {"deal", "trail"})
        /\ Back07(r).deal =
             [r.deal EXCEPT !.stage = CHOOSE s \in CustomerStages : Renamed07[s] = r.deal.stage]
        /\ Back07(r).trail = [r.trail EXCEPT !.stage = <<>>]
    <2> DEFINE old == CHOOSE s \in CustomerStages : Renamed07[s] = r.deal.stage
    <2>1. Back07(r) = [r EXCEPT !.deal.stage = old, !.trail.stage = <<>>]
      BY DEF Back07
    <2> HIDE DEF old
    <2>2. /\ ChangesOnly(r, Back07(r), {"deal", "trail"})
          /\ Back07(r).deal = [r.deal EXCEPT !.stage = old]
          /\ Back07(r).trail = [r.trail EXCEPT !.stage = <<>>]
      BY <2>1 DEF IsRow, ChangesOnly, Fields
    <2> QED BY <2>2 DEF old
  <1> QED BY <1>7, <1>8, <1>14, <1>16

LEMMA BacksWrite ==
  ASSUME NEW r, IsRow(r)
  PROVE  /\ ChangesOnly(r, [r EXCEPT !.custom = Gone], {"custom"}) /\ [r EXCEPT !.custom = Gone].custom = Gone
         /\ ChangesOnly(r, Back06(r), {"deal"}) /\ Back06(r).deal = [r.deal EXCEPT !.stage = Gone]
         /\ ChangesOnly(r, Back11(r), {"score"}) /\ Back11(r).score = Never
         /\ ChangesOnly(r, Back13(r), {"visits"})
         /\ Back13(r).visits = [i \in DOMAIN r.visits |-> [r.visits[i] EXCEPT !.on = Never]]
         /\ ChangesOnly(r, Back14(r), {"deal", "trail"})
         /\ Back14(r).deal = [r.deal EXCEPT !.sales = Gone] /\ Back14(r).trail = [r.trail EXCEPT !.sales = <<>>]
         /\ ChangesOnly(r, Back15(r), {"inquiry"}) /\ Back15(r).inquiry = [r.inquiry EXCEPT !.own = Gone]
         /\ ChangesOnly(r, Back16(r), {"deal", "trail"})
         /\ Back16(r).deal = [r.deal EXCEPT !.deal = Gone] /\ Back16(r).trail = [r.trail EXCEPT !.deal = <<>>]
         /\ ChangesOnly(r, Back17(r), {"plan", "seen"})
         /\ ChangesOnly(r, Back23(r), {"rmb"}) /\ Back23(r).rmb = Never
  <1>3. ChangesOnly(r, [r EXCEPT !.custom = Gone], {"custom"}) /\ [r EXCEPT !.custom = Gone].custom = Gone
    BY DEF IsRow, ChangesOnly, Fields
  <1>6. ChangesOnly(r, Back06(r), {"deal"}) /\ Back06(r).deal = [r.deal EXCEPT !.stage = Gone]
    BY DEF IsRow, ChangesOnly, Back06, Fields
  <1>11. ChangesOnly(r, Back11(r), {"score"}) /\ Back11(r).score = Never
    BY DEF IsRow, ChangesOnly, Back11, Fields
  <1>13. /\ ChangesOnly(r, Back13(r), {"visits"})
         /\ Back13(r).visits = [i \in DOMAIN r.visits |-> [r.visits[i] EXCEPT !.on = Never]]
    BY DEF IsRow, ChangesOnly, Back13, Fields
  <1>14. /\ ChangesOnly(r, Back14(r), {"deal", "trail"})
         /\ Back14(r).deal = [r.deal EXCEPT !.sales = Gone] /\ Back14(r).trail = [r.trail EXCEPT !.sales = <<>>]
    BY DEF IsRow, ChangesOnly, Back14, Fields
  <1>15. ChangesOnly(r, Back15(r), {"inquiry"}) /\ Back15(r).inquiry = [r.inquiry EXCEPT !.own = Gone]
    BY DEF IsRow, ChangesOnly, Back15, Fields
  <1>16. /\ ChangesOnly(r, Back16(r), {"deal", "trail"})
         /\ Back16(r).deal = [r.deal EXCEPT !.deal = Gone] /\ Back16(r).trail = [r.trail EXCEPT !.deal = <<>>]
    BY DEF IsRow, ChangesOnly, Back16, Fields
  <1>17. ChangesOnly(r, Back17(r), {"plan", "seen"})
    BY DEF IsRow, ChangesOnly, Back17, Fields
  <1>23. ChangesOnly(r, Back23(r), {"rmb"}) /\ Back23(r).rmb = Never
    BY DEF IsRow, ChangesOnly, Back23, Fields
  <1> QED BY <1>3, <1>6, <1>11, <1>13, <1>14, <1>15, <1>16, <1>17, <1>23

(* Which data step is which.                                                  *)
LEMMA FilledIs ==
  ASSUME NEW d, NEW k \in 1..32
  PROVE  Filled(k, d) = IF k = 3 THEN Fill03(d.row)
                        ELSE IF k = 5 THEN Fill05(d.row, "customers.sales_stage" \in d.schema)
                        ELSE IF k = 7 THEN Fill07(d.row)
                        ELSE IF k = 11 THEN Fill11(d.row)
                        ELSE IF k = 13 THEN Fill13(d.row)
                        ELSE IF k = 14 THEN Fill14(d.row)
                        ELSE IF k = 16 THEN Fill16(d.row)
                        ELSE IF k = 17 THEN Fill17(d.row)
                        ELSE IF k = 18 THEN Fill18(d.row)
                        ELSE IF k = 19 THEN Fill19(d.row)
                        ELSE IF k = 20 THEN Fill20(d.row)
                        ELSE IF k = 22 THEN Fill22(d.row)
                        ELSE d.row
  BY DEF Filled

LEMMA EmptiedIs ==
  ASSUME NEW d, NEW k \in 1..32
  PROVE  Emptied(k, d) = IF k = 3 THEN [d.row EXCEPT !.custom = Gone]
                         ELSE IF k = 5 THEN (IF "customers.sales_stage" \in d.marked
                                               THEN [d.row EXCEPT !.custom = Gone] ELSE d.row)
                         ELSE IF k = 6 THEN Back06(d.row)
                         ELSE IF k = 7 THEN Back07(d.row)
                         ELSE IF k = 11 THEN Back11(d.row)
                         ELSE IF k = 13 THEN Back13(d.row)
                         ELSE IF k = 14 THEN Back14(d.row)
                         ELSE IF k = 15 THEN Back15(d.row)
                         ELSE IF k = 16 THEN Back16(d.row)
                         ELSE IF k = 17 THEN Back17(d.row)
                         ELSE IF k = 23 THEN Back23(d.row)
                         ELSE d.row
  BY DEF Emptied

(* The columns an upgrade and a rollback write.                               *)
UpWrites(k) ==
  IF k \in {3, 5} THEN {"custom"} ELSE IF k \in {7, 14, 16} THEN {"deal", "trail"}
  ELSE IF k = 11 THEN {"score"} ELSE IF k = 13 THEN {"visits"} ELSE IF k \in {17, 18} THEN {"plan", "seen"}
  ELSE IF k \in {19, 20} THEN {"label", "latest"} ELSE IF k = 22 THEN {"inquiry"} ELSE {}

DownWrites(k) ==
  IF k \in {3, 5} THEN {"custom"} ELSE IF k \in {7, 14, 16} THEN {"deal", "trail"} ELSE IF k = 6 THEN {"deal"}
  ELSE IF k = 11 THEN {"score"} ELSE IF k = 13 THEN {"visits"} ELSE IF k = 17 THEN {"plan", "seen"}
  ELSE IF k = 15 THEN {"inquiry"} ELSE IF k = 23 THEN {"rmb"} ELSE {}

LEMMA FilledKeeps ==
  ASSUME NEW d, IsRow(d.row), NEW k \in 1..32
  PROVE  /\ ChangesOnly(d.row, Filled(k, d), UpWrites(k))
         /\ k \in {7, 14, 16} /\ d.row.deal.stage = Gone => Filled(k, d) = d.row
  <1> DEFINE r == d.row  n == Filled(k, d)
  <1>3. CASE k = 3
    <2>1. n = Fill03(r) /\ UpWrites(k) = {"custom"}
      BY <1>3, FilledIs DEF UpWrites
    <2>2. ChangesOnly(r, Fill03(r), {"custom"})
      BY FillsWrite
    <2> QED BY <1>3, <2>1, <2>2
  <1>7. CASE k = 7
    <2>1. n = Fill07(r) /\ UpWrites(k) = {"deal", "trail"}
      BY <1>7, FilledIs DEF UpWrites
    <2>2. CASE r.deal.stage = Gone
      <3>1. n = r
        BY <2>1, <2>2 DEF Fill07
      <3> QED BY <1>7, <2>1, <3>1, FillsWrite DEF ChangesOnly
    <2>3. CASE r.deal.stage # Gone
      <3>1. ChangesOnly(r, Fill07(r), {"deal", "trail"})
        BY <2>3, StageFillsWrite
      <3> QED BY <2>1, <2>3, <3>1
    <2> QED BY <2>2, <2>3
  <1>11. CASE k = 11
    <2>1. n = Fill11(r) /\ UpWrites(k) = {"score"}
      BY <1>11, FilledIs DEF UpWrites
    <2>2. ChangesOnly(r, Fill11(r), {"score"})
      BY FillsWrite
    <2> QED BY <1>11, <2>1, <2>2
  <1>13. CASE k = 13
    <2>1. n = Fill13(r) /\ UpWrites(k) = {"visits"}
      BY <1>13, FilledIs DEF UpWrites
    <2>2. ChangesOnly(r, Fill13(r), {"visits"})
      BY FillsWrite
    <2> QED BY <1>13, <2>1, <2>2
  <1>14. CASE k = 14
    <2>1. n = Fill14(r) /\ UpWrites(k) = {"deal", "trail"}
      BY <1>14, FilledIs DEF UpWrites
    <2>2. CASE r.deal.stage = Gone
      <3>1. n = r
        BY <2>1, <2>2 DEF Fill14
      <3> QED BY <1>14, <2>1, <3>1, FillsWrite DEF ChangesOnly
    <2>3. CASE r.deal.stage # Gone
      <3>1. ChangesOnly(r, Fill14(r), {"deal", "trail"})
        BY <2>3, StageFillsWrite
      <3> QED BY <2>1, <2>3, <3>1
    <2> QED BY <2>2, <2>3
  <1>16. CASE k = 16
    <2>1. n = Fill16(r) /\ UpWrites(k) = {"deal", "trail"}
      BY <1>16, FilledIs DEF UpWrites
    <2>2. CASE r.deal.stage = Gone
      <3>1. n = r
        BY <2>1, <2>2 DEF Fill16
      <3> QED BY <1>16, <2>1, <3>1, FillsWrite DEF ChangesOnly
    <2>3. CASE r.deal.stage # Gone
      <3>1. ChangesOnly(r, Fill16(r), {"deal", "trail"})
        BY <2>3, StageFillsWrite
      <3> QED BY <2>1, <2>3, <3>1
    <2> QED BY <2>2, <2>3
  <1>17. CASE k = 17
    <2>1. n = Fill17(r) /\ UpWrites(k) = {"plan", "seen"}
      BY <1>17, FilledIs DEF UpWrites
    <2>2. ChangesOnly(r, Fill17(r), {"plan", "seen"})
      BY FillsWrite
    <2> QED BY <1>17, <2>1, <2>2
  <1>18. CASE k = 18
    <2>1. n = Fill18(r) /\ UpWrites(k) = {"plan", "seen"}
      BY <1>18, FilledIs DEF UpWrites
    <2>2. ChangesOnly(r, Fill18(r), {"plan", "seen"})
      BY FillsWrite
    <2> QED BY <1>18, <2>1, <2>2
  <1>19. CASE k = 19
    <2>1. n = Fill19(r) /\ UpWrites(k) = {"label", "latest"}
      BY <1>19, FilledIs DEF UpWrites
    <2>2. ChangesOnly(r, Fill19(r), {"label", "latest"})
      BY FillsWrite
    <2> QED BY <1>19, <2>1, <2>2
  <1>20. CASE k = 20
    <2>1. n = Fill20(r) /\ UpWrites(k) = {"label", "latest"}
      BY <1>20, FilledIs DEF UpWrites
    <2>2. ChangesOnly(r, Fill20(r), {"label"})
      BY FillsWrite
    <2> QED BY <1>20, <2>1, <2>2 DEF ChangesOnly
  <1>22. CASE k = 22
    <2>1. n = Fill22(r) /\ UpWrites(k) = {"inquiry"}
      BY <1>22, FilledIs DEF UpWrites
    <2>2. ChangesOnly(r, Fill22(r), {"inquiry"})
      BY FillsWrite
    <2> QED BY <1>22, <2>1, <2>2
  <1>5. CASE k = 5
    <2>1. (n = Fill03(r) \/ n = r) /\ UpWrites(k) = {"custom"}
      BY <1>5, FilledIs DEF Fill05, UpWrites
    <2>2. ChangesOnly(r, Fill03(r), {"custom"}) /\ ChangesOnly(r, r, {"custom"})
      BY FillsWrite DEF ChangesOnly
    <2> QED BY <1>5, <2>1, <2>2
  <1>1. CASE k \notin {3, 5, 7, 11, 13, 14, 16, 17, 18, 19, 20, 22}
    <2>1. n = r /\ UpWrites(k) = {}
      BY <1>1, FilledIs DEF UpWrites
    <2>2. ChangesOnly(r, r, {})
      BY FillsWrite
    <2> QED BY <1>1, <2>1, <2>2
  <1> QED BY <1>1, <1>5, <1>3, <1>7, <1>11, <1>13, <1>14, <1>16, <1>17, <1>18, <1>19, <1>20, <1>22

LEMMA EmptiedKeeps ==
  ASSUME NEW d, IsRow(d.row), NEW k \in 1..32
  PROVE  /\ ChangesOnly(d.row, Emptied(k, d), DownWrites(k))
         /\ k = 7 /\ d.row.deal.stage = Gone => Emptied(k, d) = d.row
  <1> DEFINE r == d.row  n == Emptied(k, d)
  <1>3. CASE k = 3
    <2>1. n = [r EXCEPT !.custom = Gone] /\ DownWrites(k) = {"custom"}
      BY <1>3, EmptiedIs DEF DownWrites
    <2>2. ChangesOnly(r, [r EXCEPT !.custom = Gone], {"custom"})
      BY BacksWrite
    <2> QED BY <1>3, <2>1, <2>2
  <1>6. CASE k = 6
    <2>1. n = Back06(r) /\ DownWrites(k) = {"deal"}
      BY <1>6, EmptiedIs DEF DownWrites
    <2>2. ChangesOnly(r, Back06(r), {"deal"})
      BY BacksWrite
    <2> QED BY <1>6, <2>1, <2>2
  <1>7. CASE k = 7
    <2>1. n = Back07(r) /\ DownWrites(k) = {"deal", "trail"}
      BY <1>7, EmptiedIs DEF DownWrites
    <2>2. CASE r.deal.stage = Gone
      <3>1. n = r
        BY <2>1, <2>2 DEF Back07
      <3> QED BY <1>7, <2>1, <3>1, FillsWrite DEF ChangesOnly
    <2>3. CASE r.deal.stage # Gone
      <3>1. ChangesOnly(r, Back07(r), {"deal", "trail"})
        BY <2>3, StageFillsWrite
      <3> QED BY <2>1, <2>3, <3>1
    <2> QED BY <2>2, <2>3
  <1>11. CASE k = 11
    <2>1. n = Back11(r) /\ DownWrites(k) = {"score"}
      BY <1>11, EmptiedIs DEF DownWrites
    <2>2. ChangesOnly(r, Back11(r), {"score"})
      BY BacksWrite
    <2> QED BY <1>11, <2>1, <2>2
  <1>13. CASE k = 13
    <2>1. n = Back13(r) /\ DownWrites(k) = {"visits"}
      BY <1>13, EmptiedIs DEF DownWrites
    <2>2. ChangesOnly(r, Back13(r), {"visits"})
      BY BacksWrite
    <2> QED BY <1>13, <2>1, <2>2
  <1>14. CASE k = 14
    <2>1. n = Back14(r) /\ DownWrites(k) = {"deal", "trail"}
      BY <1>14, EmptiedIs DEF DownWrites
    <2>2. ChangesOnly(r, Back14(r), {"deal", "trail"})
      BY BacksWrite
    <2> QED BY <1>14, <2>1, <2>2
  <1>15. CASE k = 15
    <2>1. n = Back15(r) /\ DownWrites(k) = {"inquiry"}
      BY <1>15, EmptiedIs DEF DownWrites
    <2>2. ChangesOnly(r, Back15(r), {"inquiry"})
      BY BacksWrite
    <2> QED BY <1>15, <2>1, <2>2
  <1>16. CASE k = 16
    <2>1. n = Back16(r) /\ DownWrites(k) = {"deal", "trail"}
      BY <1>16, EmptiedIs DEF DownWrites
    <2>2. ChangesOnly(r, Back16(r), {"deal", "trail"})
      BY BacksWrite
    <2> QED BY <1>16, <2>1, <2>2
  <1>17. CASE k = 17
    <2>1. n = Back17(r) /\ DownWrites(k) = {"plan", "seen"}
      BY <1>17, EmptiedIs DEF DownWrites
    <2>2. ChangesOnly(r, Back17(r), {"plan", "seen"})
      BY BacksWrite
    <2> QED BY <1>17, <2>1, <2>2
  <1>23. CASE k = 23
    <2>1. n = Back23(r) /\ DownWrites(k) = {"rmb"}
      BY <1>23, EmptiedIs DEF DownWrites
    <2>2. ChangesOnly(r, Back23(r), {"rmb"})
      BY BacksWrite
    <2> QED BY <1>23, <2>1, <2>2
  <1>5. CASE k = 5
    <2>1. (n = [r EXCEPT !.custom = Gone] \/ n = r) /\ DownWrites(k) = {"custom"}
      BY <1>5, EmptiedIs DEF DownWrites
    <2>2. ChangesOnly(r, [r EXCEPT !.custom = Gone], {"custom"})
      BY BacksWrite
    <2>3. ChangesOnly(r, r, {"custom"})
      BY FillsWrite DEF ChangesOnly
    <2> QED BY <1>5, <2>1, <2>2, <2>3
  <1>1. CASE k \notin {3, 5, 6, 7, 11, 13, 14, 15, 16, 17, 23}
    <2>1. n = r /\ DownWrites(k) = {}
      BY <1>1, EmptiedIs DEF DownWrites
    <2>2. ChangesOnly(r, r, {})
      BY FillsWrite
    <2> QED BY <1>1, <2>1, <2>2
  <1> QED BY <1>1, <1>5, <1>3, <1>6, <1>7, <1>11, <1>13, <1>14, <1>15, <1>16, <1>17, <1>23

-----------------------------------------------------------------------------
(* The customer's stage: the column of 0003 and the archive label repeat the  *)
(* customer's status wherever they exist.                                     *)
StageKept(S, r) ==
  /\ r.status \in CustomerStages /\ r.custom \in {Gone, r.status}
  /\ "customers.sales_stage" \in S => r.custom = r.status
  /\ r.label = Gone \/ (r.label \in DOMAIN legacy_status_for /\ legacy_status_for[r.label] = r.status)

LEMMA LabelsRead ==
  /\ \A c \in CustomerStages : Label19[c] \in DOMAIN legacy_status_for /\ legacy_status_for[Label19[c]] = c
  /\ \A l \in DOMAIN STAGE_RENAMES :
       /\ STAGE_RENAMES[l] \in DOMAIN legacy_status_for
       /\ l \in DOMAIN legacy_status_for => legacy_status_for[STAGE_RENAMES[l]] = legacy_status_for[l]
  /\ Gone \notin DOMAIN STAGE_RENAMES /\ Gone \notin CustomerStages
  <1> DEFINE L == {Label19[c] : c \in CustomerStages} \cup {"xin kehu wei huifu", "goutong zhong"}
             Reading(l) == IF l \in {"xin kehu wei huifu", "xin kaifa wei huifu"} THEN "Lead"
                           ELSE IF l \in {"goutong zhong", "xin kaifa yi huifu"} THEN "Contacted"
                           ELSE CHOOSE c \in CustomerStages : Label19[c] = l
  <1>1. legacy_status_for = [l \in L |-> Reading(l)]
    BY DEF legacy_status_for
  <1>2. \A l \in L : l \in DOMAIN legacy_status_for /\ legacy_status_for[l] = Reading(l)
    <2> HIDE DEF L, Reading
    <2> QED BY <1>1
  <1>3. \A c \in CustomerStages : Label19[c] \in L
    OBVIOUS
  <1>4. \A c \in CustomerStages : Reading(Label19[c]) = c
    <2> SUFFICES ASSUME NEW c \in CustomerStages PROVE Reading(Label19[c]) = c
      OBVIOUS
    <2>1. CASE c = "Lead"
      BY <2>1 DEF Label19
    <2>2. CASE c = "Contacted"
      BY <2>2 DEF Label19
    <2>3. CASE c \in {"Quotation", "Negotiation", "Won", "Lost"}
      <3>0. /\ Label19["Lead"] = "xin kaifa wei huifu" /\ Label19["Contacted"] = "xin kaifa yi huifu"
            /\ Label19["Quotation"] = "yi baojia" /\ Label19["Negotiation"] = "tanpan zhong"
            /\ Label19["Won"] = "yi chengjiao" /\ Label19["Lost"] = "yi shudan"
        BY DEF Label19
      <3>1. Label19[c] \notin {"xin kehu wei huifu", "xin kaifa wei huifu", "goutong zhong", "xin kaifa yi huifu"}
        BY <2>3, <3>0
      <3>2. \A b \in CustomerStages : Label19[b] = Label19[c] => b = c
        BY <2>3, <3>0 DEF CustomerStages
      <3> DEFINE b == CHOOSE x \in CustomerStages : Label19[x] = Label19[c]
      <3>3. b \in CustomerStages /\ Label19[b] = Label19[c]
        OBVIOUS
      <3>4. Reading(Label19[c]) = b
        BY <3>1
      <3> QED BY <3>2, <3>3, <3>4
    <2> QED BY <2>1, <2>2, <2>3 DEF CustomerStages
  <1>5. /\ DOMAIN STAGE_RENAMES = {"xin kaifa wei huifu", "xin kaifa yi huifu"}
        /\ STAGE_RENAMES["xin kaifa wei huifu"] = "xin kehu wei huifu"
        /\ STAGE_RENAMES["xin kaifa yi huifu"] = "goutong zhong"
    BY DEF STAGE_RENAMES
  <1>6. \A l \in DOMAIN STAGE_RENAMES : STAGE_RENAMES[l] \in L /\ Reading(STAGE_RENAMES[l]) = Reading(l)
    BY <1>5
  <1>7. Gone \notin DOMAIN STAGE_RENAMES /\ Gone \notin CustomerStages
    BY <1>5 DEF Gone, CustomerStages
  <1>8. DOMAIN legacy_status_for = L
    BY <1>1
  <1> HIDE DEF L, Reading
  <1> QED BY <1>2, <1>3, <1>4, <1>6, <1>7, <1>8

LEMMA SalesStageIn ==
  /\ "customers.sales_stage" \in V05.fills /\ "customers.sales_stage" \in SchemaOf[18]
  /\ "customers.sales_stage" \notin ReminderColumns
  /\ \A k \in 1..32 : k \notin {3, 5} => "customers.sales_stage" \notin Chain[k].adds \cup Chain[k].fills
  /\ \A k \in 1..32 : "customers.sales_stage" \notin Chain[k].gives
  /\ "customers.sales_stage" \in Chain[3].drops
  <1> DEFINE x == "customers.sales_stage"
  <1>1. x \in V05.fills
    BY DEF V05, Nothing
  <1>2. x \in V03.adds /\ V03.adds \subseteq E18
    BY DEF V03, Reversible, Nothing, E03, E04, E05, E06, E07, E08, E09, E10, E11, E12, E13, E14, E15, E16, E17, E18
  <1>3. x \notin ReminderColumns
    BY DEF ReminderColumns
  <1> HIDE DEF x
  <1>4. ASSUME NEW k \in 1..32 PROVE (k \notin {3, 5} => x \notin Chain[k].adds \cup Chain[k].fills) /\ x \notin Chain[k].gives
    <2>1. /\ k # 3 => Chain[k].adds \cap V05.fills = {}
          /\ Chain[k].fills = IF k = 5 THEN V05.fills ELSE IF k \in {17, 18} THEN ReminderColumns ELSE {}
      BY StepsOfSchema
    <2>2. Chain[k].gives = IF k = 21 THEN V21.takes ELSE {}
      <3>1. Chain[k].gives = Chain[k].takes /\ Chain[k].takes = IF k = 21 THEN V21.takes ELSE {}
        BY StepsOfSchema
      <3> QED BY <3>1, Zenon
    <2>3. x \notin V21.takes
      BY DEF V21, Nothing, x
    <2> QED BY <1>1, <1>3, <2>1, <2>2, <2>3
  <1>5. Chain[3].drops = V03.adds
    BY StepsOfSchema, ChainIs
  <1> QED BY <1>1, <1>2, <1>3, <1>4, <1>5, SchemaOfEach DEF x

LEMMA StageUp ==
  ASSUME FoundOK, NEW d, SchemaInv(d), IsRow(d.row), StageKept(d.schema, d.row), NEW k \in 1..32, k = d.rev + 1
  PROVE  StageKept(Up(k, d).schema, Filled(k, d)) /\ Filled(k, d).status = d.row.status
  <1> DEFINE x == "customers.sales_stage"  r == d.row  n == Filled(k, d)  S == d.schema  W == Up(k, d).schema
  <1>1. n.status = r.status
    BY FilledKeeps DEF ChangesOnly, Fields, UpWrites
  <1>2. k \notin {3, 5} => n.custom = r.custom
    BY FilledKeeps DEF ChangesOnly, Fields, UpWrites
  <1>3. k \notin {19, 20} => n.label = r.label
    BY FilledKeeps DEF ChangesOnly, Fields, UpWrites
  <1>4. n.custom \in {Gone, r.status} /\ (x \in W => n.custom = r.status)
    <2>1. CASE k = 3
      <3>1. n = Fill03(r)
        BY <2>1, FilledIs
      <3>2. Fill03(r).custom = r.status
        BY FillsWrite
      <3> QED BY <3>1, <3>2
    <2>2. CASE k = 5
      <3>1. n = IF x \in S THEN r ELSE Fill03(r)
        BY <2>2, FilledIs DEF Fill05
      <3>2. Fill03(r).custom = r.status
        BY FillsWrite
      <3> QED BY <3>1, <3>2 DEF StageKept
    <2>3. CASE k \notin {3, 5}
      <3>1. x \in W => x \in S
        <4>1. W = (S \ Chain[k].takes) \cup Chain[k].adds \cup Chain[k].fills
          BY DEF Up
        <4>2. x \notin Chain[k].adds \cup Chain[k].fills
          BY <2>3, SalesStageIn
        <4> HIDE DEF x, W, S
        <4> QED BY <4>1, <4>2
      <3> QED BY <1>2, <2>3, <3>1 DEF StageKept
    <2> QED BY <2>1, <2>2, <2>3
  <1>5. n.label = Gone \/ (n.label \in DOMAIN legacy_status_for /\ legacy_status_for[n.label] = r.status)
    <2>1. CASE k = 19
      <3>1. n = Fill19(r)
        BY <2>1, FilledIs
      <3>2. n.label = Label19[r.custom]
        BY <3>1, FillsWrite
      <3>3. x \in S
        <4>1. d.rev = 18
          BY <2>1 DEF SchemaInv
        <4>2. Holes(18) = {} /\ x \in SchemaOf[18]
          BY SalesStageIn DEF Holes
        <4> QED BY <4>1, <4>2 DEF SchemaInv
      <3>4. r.custom = r.status /\ r.status \in CustomerStages
        BY <3>3 DEF StageKept
      <3> QED BY <3>2, <3>4, LabelsRead
    <2>2. CASE k = 20
      <3>1. n = Fill20(r)
        BY <2>2, FilledIs
      <3>2. Fill20(r).label = IF r.label \in DOMAIN STAGE_RENAMES THEN STAGE_RENAMES[r.label] ELSE r.label
        BY FillsWrite
      <3> QED BY <3>1, <3>2, LabelsRead DEF StageKept
    <2>3. CASE k \notin {19, 20}
      BY <1>3, <2>3 DEF StageKept
    <2> QED BY <2>1, <2>2, <2>3
  <1>6. r.status \in CustomerStages
    BY DEF StageKept
  <1> QED BY <1>1, <1>4, <1>5, <1>6 DEF StageKept

LEMMA StageDown ==
  ASSUME FoundOK, NEW d, SchemaInv(d), IsRow(d.row), StageKept(d.schema, d.row), NEW k \in 1..32, k = d.rev
  PROVE  StageKept(Down(k, d).schema, Emptied(k, d)) /\ Emptied(k, d).status = d.row.status
  <1> DEFINE x == "customers.sales_stage"  r == d.row  n == Emptied(k, d)  S == d.schema  W == Down(k, d).schema
  <1>1. n.status = r.status /\ n.label = r.label
    BY EmptiedKeeps DEF ChangesOnly, Fields, DownWrites
  <1>2. k \notin {3, 5} => n.custom = r.custom
    BY EmptiedKeeps DEF ChangesOnly, Fields, DownWrites
  <1>0. [r EXCEPT !.custom = Gone].custom = Gone
    BY BacksWrite
  <1>3. k = 3 => n.custom = Gone
    <2>1. k = 3 => n = [r EXCEPT !.custom = Gone]
      BY EmptiedIs
    <2> QED BY <1>0, <2>1, Zenon
  <1>4. k = 5 => n.custom = IF x \in d.marked THEN Gone ELSE r.custom
    <2>1. k = 5 => n = IF x \in d.marked THEN [r EXCEPT !.custom = Gone] ELSE r
      BY EmptiedIs
    <2> QED BY <1>0, <2>1, Zenon
  <1>5. x \in W => x \in S /\ k # 3 /\ (k = 5 => x \notin d.marked)
    <2>2. W = (S \ (Chain[k].drops \cup Chain[k].eases \cup (IF k = 5 THEN d.marked ELSE {}))) \cup Chain[k].gives
      BY DEF Down
    <2>3. x \notin Chain[k].gives /\ (k = 3 => x \in Chain[k].drops)
      BY SalesStageIn
    <2> HIDE DEF x, W, S
    <2> QED BY <2>2, <2>3
  <1> QED BY <1>1, <1>2, <1>3, <1>4, <1>5 DEF StageKept

-----------------------------------------------------------------------------
(* The grade and its score.                                                   *)
ScoreKept(r) ==
  r.level \in {"A", "B", "C"} /\ (found.rev < 11 /\ r.score # Never => r.level = LevelForScore(r.score))

LEMMA ScoreUp ==
  ASSUME NEW d, IsRow(d.row), ScoreKept(d.row), NEW k \in 1..32
  PROVE  ScoreKept(Filled(k, d))
  <1> DEFINE r == d.row  n == Filled(k, d)
  <1>1. n.level = r.level
    BY FilledKeeps DEF ChangesOnly, Fields, UpWrites
  <1>2. CASE k = 11
    <2>1. n = Fill11(r)
      BY <1>2, FilledIs
    <2>2. Fill11(r).score = IF r.level = "A" THEN 80 ELSE IF r.level = "B" THEN 60 ELSE 30
      BY FillsWrite
    <2> QED BY <1>1, <2>1, <2>2 DEF ScoreKept, LevelForScore
  <1>3. CASE k # 11
    <2>1. n.score = r.score
      BY <1>3, FilledKeeps DEF ChangesOnly, Fields, UpWrites
    <2> QED BY <1>1, <2>1 DEF ScoreKept
  <1> QED BY <1>2, <1>3

LEMMA ScoreDown ==
  ASSUME NEW d, IsRow(d.row), ScoreKept(d.row), NEW k \in 1..32
  PROVE  ScoreKept(Emptied(k, d))
  <1> DEFINE r == d.row  n == Emptied(k, d)
  <1>1. n.level = r.level
    BY EmptiedKeeps DEF ChangesOnly, Fields, DownWrites
  <1>2. CASE k = 11
    <2>1. n = Back11(r)
      BY <1>2, EmptiedIs
    <2>2. Back11(r).score = Never
      BY BacksWrite
    <2> QED BY <1>1, <2>1, <2>2 DEF ScoreKept
  <1>3. CASE k # 11
    <2>1. n.score = r.score
      BY <1>3, EmptiedKeeps DEF ChangesOnly, Fields, DownWrites
    <2> QED BY <1>1, <2>1 DEF ScoreKept
  <1> QED BY <1>2, <1>3

(* The reminder columns, from 0017 on, unless a stale stamp hid some.         *)
Visits == [made : {1, 2}, on : {Never, 1, 2}, next : {Null, 3, 4}]

PlanKept(v, r) ==
  /\ r.visits \in Seq(Visits) /\ Len(r.visits) <= 2
  /\ found.whole /\ v >= 17 => ShowsNewest(r)

LEMMA NewestIn ==
  ASSUME NEW t \in Seq(Visits), Len(t) \in {1, 2}
  PROVE  Newest(t) \in DOMAIN t
  <1> DEFINE P(i) == \A j \in DOMAIN t : Day(t[j]) < Day(t[i]) \/ (Day(t[j]) = Day(t[i]) /\ j <= i)
  <1>1. DOMAIN t = 1..Len(t)
    OBVIOUS
  <1>2. \A i \in DOMAIN t : Day(t[i]) \in {1, 2}
    <2> SUFFICES ASSUME NEW i \in DOMAIN t PROVE Day(t[i]) \in {1, 2}
      OBVIOUS
    <2>1. t[i] \in Visits
      OBVIOUS
    <2> QED BY <2>1 DEF Visits, Day
  <1>3. \E i \in DOMAIN t : P(i)
    <2>1. CASE Len(t) = 1
      <3>1. DOMAIN t = {1}
        BY <1>1, <2>1
      <3>2. P(1)
        BY <3>1
      <3> QED BY <3>1, <3>2
    <2>2. CASE Len(t) = 2
      <3>1. DOMAIN t = {1, 2}
        BY <1>1, <2>2
      <3>2. Day(t[1]) \in {1, 2} /\ Day(t[2]) \in {1, 2}
        BY <1>2, <3>1
      <3>3. P(1) \/ P(2)
        BY <3>1, <3>2
      <3> QED BY <3>1, <3>3
    <2> QED BY <2>1, <2>2
  <1>4. Newest(t) = CHOOSE i \in DOMAIN t : P(i)
    BY DEF Newest
  <1> HIDE DEF P
  <1> QED BY <1>3, <1>4

LEMMA ShownIsSet ==
  ASSUME NEW r, r.visits \in Seq(Visits), Len(r.visits) <= 2, ShowsNewest(r)
  PROVE  r.plan # Never /\ r.seen # Never
  <1>1. CASE r.visits = <<>>
    BY <1>1 DEF ShowsNewest, Null, Never
  <1>2. CASE r.visits # <<>>
    <2> DEFINE t == r.visits  i == Newest(t)
    <2>1. Len(t) \in {1, 2}
      <3>1. Len(t) \in Nat /\ Len(t) # 0
        BY <1>2, EmptySeq
      <3>2. Len(t) <= 2
        OBVIOUS
      <3>3. \A m \in Nat : m # 0 /\ m <= 2 => m \in {1, 2}
        OBVIOUS
      <3> HIDE DEF t
      <3> QED BY <3>1, <3>2, <3>3, Zenon
    <2>2. i \in DOMAIN t
      BY <2>1, NewestIn
    <2>3. t[i] \in Visits
      BY <2>2
    <2>4. r.plan = t[i].next /\ r.seen = t[i].made
      BY <1>2 DEF ShowsNewest
    <2> HIDE DEF t, i
    <2> QED BY <2>3, <2>4 DEF Visits, Null, Never
  <1> QED BY <1>1, <1>2

LEMMA DatesKeepShape ==
  ASSUME NEW t \in Seq(Visits), NEW u, NEW E \in [DOMAIN t -> {Never, 1, 2}],
         u = [i \in DOMAIN t |-> [t[i] EXCEPT !.on = E[i]]]
  PROVE  u \in Seq(Visits) /\ Len(u) = Len(t)
  <1>1. DOMAIN t = 1..Len(t) /\ Len(t) \in Nat
    OBVIOUS
  <1>2. \A i \in DOMAIN t : [t[i] EXCEPT !.on = E[i]] \in Visits
    <2> SUFFICES ASSUME NEW i \in DOMAIN t PROVE [t[i] EXCEPT !.on = E[i]] \in Visits
      OBVIOUS
    <2>1. t[i] \in Visits /\ E[i] \in {Never, 1, 2}
      OBVIOUS
    <2> QED BY <2>1 DEF Visits
  <1> QED BY <1>1, <1>2

LEMMA PlanUp ==
  ASSUME NEW d, IsRow(d.row), NEW k \in 1..32, PlanKept(k - 1, d.row)
  PROVE  PlanKept(k, Filled(k, d))
  <1> DEFINE r == d.row  n == Filled(k, d)
  <1>1. CASE k = 13
    <2>1. n = Fill13(r)
      BY <1>1, FilledIs
    <2>2. Fill13(r).visits = [i \in DOMAIN r.visits |-> [r.visits[i] EXCEPT !.on = r.visits[i].made]]
      BY FillsWrite
    <2> DEFINE t == r.visits  u == Fill13(r).visits  E == [i \in DOMAIN t |-> t[i].made]
    <2>3. t \in Seq(Visits) /\ \A i \in DOMAIN t : t[i] \in Visits
      BY DEF PlanKept
    <2>5. E \in [DOMAIN t -> {Never, 1, 2}] /\ u = [i \in DOMAIN t |-> [t[i] EXCEPT !.on = E[i]]]
      BY <2>2, <2>3 DEF Visits
    <2>4. u \in Seq(Visits) /\ Len(u) = Len(t)
      <3> HIDE DEF t, u, E
      <3> QED BY <2>3, <2>5, DatesKeepShape
    <2> QED BY <1>1, <2>1, <2>4 DEF PlanKept
  <1>2. CASE k = 17
    <2>1. n = Fill17(r)
      BY <1>2, FilledIs
    <2>2. ShowsNewest(Fill17(r))
      BY FillsWrite
    <2>3. n.visits = r.visits
      BY <1>2, FilledKeeps DEF ChangesOnly, Fields, UpWrites
    <2> QED BY <2>1, <2>2, <2>3 DEF PlanKept
  <1>3. CASE k = 18
    <2>1. n = Fill18(r)
      BY <1>3, FilledIs
    <2>2. /\ Fill18(r).plan = (IF r.plan = Never THEN Null ELSE r.plan)
          /\ Fill18(r).seen = (IF r.seen = Never THEN Null ELSE r.seen)
      BY FillsWrite
    <2>3. n.visits = r.visits
      BY <1>3, FilledKeeps DEF ChangesOnly, Fields, UpWrites
    <2>4. found.whole => ShowsNewest(r) /\ r.plan # Never /\ r.seen # Never
      BY <1>3, ShownIsSet DEF PlanKept
    <2>5. found.whole => ShowsNewest(n)
      BY <2>1, <2>2, <2>3, <2>4 DEF ShowsNewest
    <2> QED BY <2>3, <2>5 DEF PlanKept
  <1>4. CASE k \notin {13, 17, 18}
    <2>1. n.visits = r.visits /\ n.plan = r.plan /\ n.seen = r.seen
      BY <1>4, FilledKeeps DEF ChangesOnly, Fields, UpWrites
    <2>2. k >= 17 => k - 1 >= 17
      BY <1>4
    <2> QED BY <2>1, <2>2 DEF PlanKept, ShowsNewest
  <1> QED BY <1>1, <1>2, <1>3, <1>4

LEMMA PlanDown ==
  ASSUME NEW d, IsRow(d.row), NEW k \in 1..32, PlanKept(k, d.row)
  PROVE  PlanKept(k - 1, Emptied(k, d))
  <1> DEFINE r == d.row  n == Emptied(k, d)
  <1>1. CASE k = 13
    <2>1. n = Back13(r)
      BY <1>1, EmptiedIs
    <2>2. Back13(r).visits = [i \in DOMAIN r.visits |-> [r.visits[i] EXCEPT !.on = Never]]
      BY BacksWrite
    <2> DEFINE t == r.visits  u == Back13(r).visits  E == [i \in DOMAIN t |-> Never]
    <2>3. t \in Seq(Visits)
      BY DEF PlanKept
    <2>5. E \in [DOMAIN t -> {Never, 1, 2}] /\ u = [i \in DOMAIN t |-> [t[i] EXCEPT !.on = E[i]]]
      BY <2>2
    <2>4. u \in Seq(Visits) /\ Len(u) = Len(t)
      <3> HIDE DEF t, u, E
      <3> QED BY <2>3, <2>5, DatesKeepShape
    <2> QED BY <1>1, <2>1, <2>4 DEF PlanKept
  <1>2. CASE k = 17
    <2>3. n.visits = r.visits
      BY <1>2, EmptiedKeeps DEF ChangesOnly, Fields, DownWrites
    <2> QED BY <1>2, <2>3 DEF PlanKept
  <1>4. CASE k \notin {13, 17}
    <2>1. n.visits = r.visits /\ n.plan = r.plan /\ n.seen = r.seen
      BY <1>4, EmptiedKeeps DEF ChangesOnly, Fields, DownWrites
    <2>2. k - 1 >= 17 => k >= 17
      OBVIOUS
    <2>3. ShowsNewest(r) => ShowsNewest(n)
      BY <2>1 DEF ShowsNewest
    <2>4. n = Emptied(k, d) /\ r = d.row
      OBVIOUS
    <2> HIDE DEF n, r
    <2> QED BY <2>1, <2>2, <2>3, <2>4 DEF PlanKept
  <1> QED BY <1>1, <1>2, <1>4

(* The owner of the inquiry: none before 0022; 0022 takes the deal's, else    *)
(* the customer's.                                                            *)
Who == {"nobody", "ann", "bob"}

OwnerKept(v, q) ==
  /\ q \in [own : {Gone} \cup Who, deal : Who, cust : Who]
  /\ v < 22 => q.own \in {Gone, "nobody"}
  /\ found.rev < 22 /\ v >= 22 =>
       (q.own = "nobody" => q.deal = "nobody" /\ q.cust = "nobody") /\ (q.deal # "nobody" => q.own = q.deal)

LEMMA OwnerUp ==
  ASSUME FoundOK, NEW d, IsRow(d.row), NEW k \in 1..32, OwnerKept(k - 1, d.row.inquiry)
  PROVE  OwnerKept(k, Filled(k, d).inquiry)
  <1> DEFINE r == d.row  n == Filled(k, d)  q == r.inquiry
  <1>1. CASE k = 22
    <2>1. n = Fill22(r)
      BY <1>1, FilledIs
    <2>2. Fill22(r).inquiry =
              [q EXCEPT !.own = IF q.own \notin {Gone, "nobody"} THEN q.own
                                ELSE IF q.deal # "nobody" THEN q.deal ELSE q.cust]
      BY FillsWrite
    <2>3. q.own \in {Gone, "nobody"}
      BY <1>1 DEF OwnerKept
    <2> QED BY <1>1, <2>1, <2>2, <2>3 DEF OwnerKept, Who
  <1>2. CASE k # 22
    <2>1. n.inquiry = q
      BY <1>2, FilledKeeps DEF ChangesOnly, Fields, UpWrites
    <2>2. (k < 22 => k - 1 < 22) /\ (k >= 22 => k - 1 >= 22)
      BY <1>2
    <2> QED BY <2>1, <2>2 DEF OwnerKept
  <1> QED BY <1>1, <1>2

LEMMA OwnerDown ==
  ASSUME FoundOK, NEW d, IsRow(d.row), NEW k \in 1..32 \ {22}, OwnerKept(k, d.row.inquiry)
  PROVE  OwnerKept(k - 1, Emptied(k, d).inquiry)
  <1> DEFINE r == d.row  n == Emptied(k, d)  q == r.inquiry
  <1>1. CASE k = 15
    <2>1. n = Back15(r)
      BY <1>1, EmptiedIs
    <2>2. Back15(r).inquiry = [q EXCEPT !.own = Gone]
      BY BacksWrite
    <2> QED BY <1>1, <2>1, <2>2 DEF OwnerKept, Who
  <1>2. CASE k # 15
    <2>1. n.inquiry = q
      BY <1>2, EmptiedKeeps DEF ChangesOnly, Fields, DownWrites
    <2>2. (k - 1 < 22 => k < 22) /\ (k - 1 >= 22 => k >= 22)
      OBVIOUS
    <2> QED BY <2>1, <2>2 DEF OwnerKept
  <1> QED BY <1>1, <1>2

(* The order's amounts: pending only from 0024 on, which a pending one keeps. *)
AmountKept(v, r) == v < 24 => r.rmb # Null

LEMMA AmountUp ==
  ASSUME NEW d, IsRow(d.row), NEW k \in 1..32, AmountKept(k - 1, d.row)
  PROVE  AmountKept(k, Filled(k, d)) /\ Filled(k, d).rmb = d.row.rmb
  <1>1. Filled(k, d).rmb = d.row.rmb
    BY FilledKeeps DEF ChangesOnly, Fields, UpWrites
  <1> QED BY <1>1 DEF AmountKept

LEMMA AmountDown ==
  ASSUME NEW d, IsRow(d.row), NEW k \in 1..32, AmountKept(k, d.row), ~Refuses(k, d)
  PROVE  AmountKept(k - 1, Emptied(k, d)) /\ (d.row.rmb = Null => Emptied(k, d).rmb = Null)
  <1>1. CASE k = 23
    <2>1. Emptied(k, d) = Back23(d.row)
      BY <1>1, EmptiedIs
    <2>2. Back23(d.row).rmb = Never
      BY BacksWrite
    <2> QED BY <1>1, <2>1, <2>2 DEF AmountKept, Null, Never
  <1>2. CASE k # 23
    <2>1. Emptied(k, d).rmb = d.row.rmb
      BY <1>2, EmptiedKeeps DEF ChangesOnly, Fields, DownWrites
    <2> QED BY <1>2, <2>1 DEF AmountKept, Refuses
  <1> QED BY <1>1, <1>2

-----------------------------------------------------------------------------
(* The deal's stage columns, each from the revision that makes it, and their  *)
(* trails.                                                                    *)
DealKept(v, t) ==
  /\ t \in [stage : CustomerStages \cup LegacyStages \cup {Gone},
            sales : SalesStages \cup {Gone}, deal : DealStages \cup {Gone}]
  /\ v < 6 => t.stage = Gone
  /\ v = 6 => t.stage \in CustomerStages \cup {Gone}
  /\ v >= 7 => t.stage \in LegacyStages \cup {Gone}
  /\ t.stage = Gone => t.sales = Gone /\ t.deal = Gone
  /\ v < 14 => t.sales = Gone
  /\ v >= 14 /\ t.stage # Gone => t.sales \in SalesStages /\ t.stage = SalesToLegacy[t.sales]
  /\ v < 16 => t.deal = Gone
  /\ v >= 16 /\ t.stage # Gone => Coherent(t)

TrailKept(v, t, tr) ==
  /\ tr = [stage |-> tr.stage, sales |-> tr.sales, deal |-> tr.deal]
  /\ EndsAt(tr.sales, t.sales) /\ EndsAt(tr.deal, t.deal)
  /\ v >= 7 => EndsAt(tr.stage, t.stage)
  /\ v < 7 => tr.stage = <<>>

(* What a step keeps of the stages: each one that its column had before it.   *)
SameStages(k, t, u) ==
  /\ k >= 8 => u.stage = t.stage
  /\ k >= 15 => u.sales = t.sales
  /\ k >= 17 => u.deal = t.deal

LEMMA GoneIsNone == Gone \notin CustomerStages \cup LegacyStages \cup SalesStages \cup DealStages
  BY DEF Gone, CustomerStages, LegacyStages, SalesStages, DealStages

LEMMA OneEntry ==
  ASSUME NEW s, s # Gone
  PROVE  EndsAt(<<s>>, s)
  <1>1. Len(<<s>>) = 1 /\ <<s>>[1] = s /\ <<s>> # <<>>
    OBVIOUS
  <1> QED BY <1>1 DEF EndsAt, Last

LEMMA NoEntry == EndsAt(<<>>, Gone)
  BY DEF EndsAt

LEMMA StageMaps ==
  /\ \A c \in CustomerStages : Renamed07[c] \in LegacyStages
  /\ \A l \in LegacyStages : \E c \in CustomerStages : Renamed07[c] = l
  /\ \A l \in LegacyStages : Sales14[l] \in SalesStages /\ SalesToLegacy[Sales14[l]] = l
  /\ \A s \in SalesStages : Deal16[s] = SalesToDeal[s] /\ Deal16[s] \in DealStages
  <1>1. \A c \in CustomerStages : Renamed07[c] \in LegacyStages
    BY DEF CustomerStages, LegacyStages, Renamed07
  <1>2. \A l \in LegacyStages : \E c \in CustomerStages : Renamed07[c] = l
    BY DEF CustomerStages, LegacyStages, Renamed07
  <1>3. \A l \in LegacyStages : Sales14[l] \in SalesStages /\ SalesToLegacy[Sales14[l]] = l
    BY DEF LegacyStages, SalesStages, Sales14, SalesToLegacy
  <1>4. \A s \in SalesStages : Deal16[s] = SalesToDeal[s] /\ Deal16[s] \in DealStages
    BY DEF SalesStages, DealStages, Deal16, SalesToDeal
  <1> QED BY <1>1, <1>2, <1>3, <1>4

LEMMA DealUp ==
  ASSUME NEW d, IsRow(d.row), NEW k \in 1..32,
         DealKept(k - 1, d.row.deal), TrailKept(k - 1, d.row.deal, d.row.trail)
  PROVE  /\ DealKept(k, Filled(k, d).deal) /\ TrailKept(k, Filled(k, d).deal, Filled(k, d).trail)
         /\ SameStages(k, d.row.deal, Filled(k, d).deal)
  <1> DEFINE r == d.row  n == Filled(k, d)  t == r.deal  u == n.deal  tr == r.trail  w == n.trail
  <1>1. CASE k \notin {7, 14, 16} \/ t.stage = Gone
    <2>1. u = t /\ w = tr
      BY <1>1, FilledKeeps DEF ChangesOnly, Fields, UpWrites
    <2>2. DealKept(k, t) /\ TrailKept(k, t, tr)
      <3>1. CASE t.stage = Gone
        BY <3>1, NoEntry DEF DealKept, TrailKept, EndsAt
      <3>2. CASE k \notin {7, 14, 16} /\ t.stage # Gone
        <4>1. k >= 8
          BY <3>2 DEF DealKept
        <4> QED BY <3>2, <4>1 DEF DealKept, TrailKept
      <3> QED BY <1>1, <3>1, <3>2
    <2> QED BY <2>1, <2>2 DEF SameStages
  <1>2. CASE k = 7 /\ t.stage # Gone
    <2> DEFINE s == Renamed07[t.stage]
    <2>1. n = Fill07(r)
      BY <1>2, FilledIs
    <2>2. u = [t EXCEPT !.stage = s] /\ w = [tr EXCEPT !.stage = <<s>>]
      BY <1>2, <2>1, StageFillsWrite
    <2>3. s \in LegacyStages /\ s # Gone
      BY <1>2, StageMaps, GoneIsNone DEF DealKept
    <2>4. EndsAt(<<s>>, s)
      BY <2>3, OneEntry
    <2> HIDE DEF s, n
    <2>5. u.stage = s /\ u.sales = Gone /\ u.deal = Gone
      BY <1>2, <2>2 DEF DealKept
    <2>6. DealKept(k, u)
      BY <1>2, <2>2, <2>3, <2>5 DEF DealKept
    <2>7. TrailKept(k, u, w)
      BY <1>2, <2>2, <2>4, <2>5 DEF TrailKept, DealKept
    <2> QED BY <1>2, <2>6, <2>7 DEF SameStages, n
  <1>3. CASE k = 14 /\ t.stage # Gone
    <2> DEFINE s == Sales14[t.stage]
    <2>1. n = Fill14(r)
      BY <1>3, FilledIs
    <2>2. u = [t EXCEPT !.sales = s] /\ w = [tr EXCEPT !.sales = <<s>>]
      BY <1>3, <2>1, StageFillsWrite
    <2>3. s \in SalesStages /\ s # Gone /\ SalesToLegacy[s] = t.stage
      BY <1>3, StageMaps, GoneIsNone DEF DealKept
    <2>4. EndsAt(<<s>>, s)
      BY <2>3, OneEntry
    <2> HIDE DEF s, n
    <2>5. u.stage = t.stage /\ u.sales = s /\ u.deal = Gone
      BY <1>3, <2>2 DEF DealKept
    <2>6. DealKept(k, u)
      BY <1>3, <2>2, <2>3, <2>5 DEF DealKept
    <2>7. TrailKept(k, u, w)
      BY <1>3, <2>2, <2>4, <2>5 DEF TrailKept, DealKept
    <2> QED BY <1>3, <2>5, <2>6, <2>7 DEF SameStages, n
  <1>4. CASE k = 16 /\ t.stage # Gone
    <2> DEFINE s == Deal16[t.sales]
    <2>1. n = Fill16(r)
      BY <1>4, FilledIs
    <2>2. u = [t EXCEPT !.deal = s] /\ w = [tr EXCEPT !.deal = <<s>>]
      BY <1>4, <2>1, StageFillsWrite
    <2>3. t.sales \in SalesStages /\ t.stage = SalesToLegacy[t.sales] /\ t.stage \in LegacyStages
      BY <1>4 DEF DealKept
    <2>8. s \in DealStages /\ s # Gone /\ s = SalesToDeal[t.sales]
      BY <2>3, StageMaps, GoneIsNone
    <2>4. EndsAt(<<s>>, s)
      BY <2>8, OneEntry
    <2> HIDE DEF s, n
    <2>5. u.stage = t.stage /\ u.sales = t.sales /\ u.deal = s
      BY <2>2 DEF DealKept
    <2>9. u \in [stage : CustomerStages \cup LegacyStages \cup {Gone},
                 sales : SalesStages \cup {Gone}, deal : DealStages \cup {Gone}]
      BY <2>2, <2>8 DEF DealKept
    <2>10. Coherent(u)
      BY <2>3, <2>8, <2>5, <2>9 DEF Coherent, OfSales
    <2>6. DealKept(k, u)
      BY <1>4, <2>3, <2>5, <2>9, <2>10 DEF DealKept
    <2>7. TrailKept(k, u, w)
      BY <1>4, <2>2, <2>4, <2>5 DEF TrailKept
    <2> QED BY <1>4, <2>5, <2>6, <2>7 DEF SameStages, n
  <1> QED BY <1>1, <1>2, <1>3, <1>4

LEMMA DealDown ==
  ASSUME NEW d, IsRow(d.row), NEW k \in 1..32,
         DealKept(k, d.row.deal), TrailKept(k, d.row.deal, d.row.trail)
  PROVE  /\ DealKept(k - 1, Emptied(k, d).deal) /\ TrailKept(k - 1, Emptied(k, d).deal, Emptied(k, d).trail)
         /\ SameStages(k, d.row.deal, Emptied(k, d).deal)
  <1> DEFINE r == d.row  n == Emptied(k, d)  t == r.deal  u == n.deal  tr == r.trail  w == n.trail
  <1>1. CASE k \notin {6, 7, 14, 16}
    <2>1. u = t /\ w = tr
      BY <1>1, EmptiedKeeps DEF ChangesOnly, Fields, DownWrites
    <2>2. DealKept(k - 1, t) /\ TrailKept(k - 1, t, tr)
      BY <1>1 DEF DealKept, TrailKept
    <2> QED BY <2>1, <2>2 DEF SameStages
  <1>2. CASE k = 6
    <2>1. n = Back06(r)
      BY <1>2, EmptiedIs
    <2>2. u = [t EXCEPT !.stage = Gone]
      BY <2>1, BacksWrite
    <2>3. w = tr
      BY <1>2, EmptiedKeeps DEF ChangesOnly, Fields, DownWrites
    <2> HIDE DEF n
    <2>4. u.stage = Gone /\ u.sales = t.sales /\ u.deal = t.deal
      BY <2>2 DEF DealKept
    <2>5. DealKept(k - 1, u)
      BY <1>2, <2>2, <2>4 DEF DealKept
    <2>6. TrailKept(k - 1, u, w)
      BY <1>2, <2>3, <2>4 DEF TrailKept
    <2> QED BY <1>2, <2>5, <2>6 DEF SameStages, n
  <1>3. CASE k = 7
    <2>1. CASE t.stage = Gone
      <3>1. u = t /\ w = tr
        BY <1>3, <2>1, EmptiedKeeps
      <3>2. DealKept(k - 1, t) /\ TrailKept(k - 1, t, tr)
        BY <1>3, <2>1 DEF DealKept, TrailKept, EndsAt
      <3> QED BY <3>1, <3>2 DEF SameStages
    <2>2. CASE t.stage # Gone
      <3> DEFINE s == CHOOSE c \in CustomerStages : Renamed07[c] = t.stage
      <3>1. n = Back07(r)
        BY <1>3, EmptiedIs
      <3>2. u = [t EXCEPT !.stage = s] /\ w = [tr EXCEPT !.stage = <<>>]
        BY <2>2, <3>1, StageFillsWrite
      <3>3. s \in CustomerStages
        BY <1>3, <2>2, StageMaps DEF DealKept
      <3>4. s # Gone
        BY <3>3, GoneIsNone
      <3> HIDE DEF s, n
      <3>5. u.stage = s /\ u.sales = Gone /\ u.deal = Gone
        BY <1>3, <3>2 DEF DealKept
      <3>6. DealKept(k - 1, u)
        BY <1>3, <3>2, <3>3, <3>4, <3>5 DEF DealKept
      <3>7. TrailKept(k - 1, u, w)
        BY <1>3, <3>2, <3>5 DEF TrailKept, DealKept
      <3> QED BY <1>3, <3>6, <3>7 DEF SameStages, n
    <2> QED BY <2>1, <2>2
  <1>4. CASE k = 14
    <2>1. n = Back14(r)
      BY <1>4, EmptiedIs
    <2>2. u = [t EXCEPT !.sales = Gone] /\ w = [tr EXCEPT !.sales = <<>>]
      BY <2>1, BacksWrite
    <2> HIDE DEF n
    <2>3. u.stage = t.stage /\ u.sales = Gone /\ u.deal = Gone
      BY <1>4, <2>2 DEF DealKept
    <2>4. DealKept(k - 1, u)
      BY <1>4, <2>2, <2>3 DEF DealKept
    <2>5. TrailKept(k - 1, u, w)
      BY <1>4, <2>2, <2>3, NoEntry DEF TrailKept, DealKept
    <2> QED BY <1>4, <2>3, <2>4, <2>5 DEF SameStages, n
  <1>5. CASE k = 16
    <2>1. n = Back16(r)
      BY <1>5, EmptiedIs
    <2>2. u = [t EXCEPT !.deal = Gone] /\ w = [tr EXCEPT !.deal = <<>>]
      BY <2>1, BacksWrite
    <2> HIDE DEF n
    <2>3. u.stage = t.stage /\ u.sales = t.sales /\ u.deal = Gone
      BY <2>2 DEF DealKept
    <2>4. DealKept(k - 1, u)
      BY <1>5, <2>2, <2>3 DEF DealKept
    <2>5. TrailKept(k - 1, u, w)
      BY <1>5, <2>2, <2>3, NoEntry DEF TrailKept
    <2> QED BY <1>5, <2>3, <2>4, <2>5 DEF SameStages, n
  <1> QED BY <1>1, <1>2, <1>3, <1>4, <1>5

-----------------------------------------------------------------------------
(* The inductive invariant of the database, and what steps and runs keep.     *)
RowGood(d) ==
  /\ IsRow(d.row)
  /\ StageKept(d.schema, d.row)
  /\ ScoreKept(d.row)
  /\ PlanKept(d.rev, d.row)
  /\ OwnerKept(d.rev, d.row.inquiry)
  /\ AmountKept(d.rev, d.row)
  /\ DealKept(d.rev, d.row.deal)
  /\ TrailKept(d.rev, d.row.deal, d.row.trail)

Good(d) == SchemaInv(d) /\ RowGood(d)

Follows(a, b) ==
  /\ b.row.status = a.row.status
  /\ a.rev >= 7 /\ b.rev >= 7 => b.row.deal.stage = a.row.deal.stage
  /\ a.rev >= 14 /\ b.rev >= 14 => b.row.deal.sales = a.row.deal.sales
  /\ a.rev >= 16 /\ b.rev >= 16 => b.row.deal.deal = a.row.deal.deal
  /\ a.row.rmb = Null => b.row.rmb = Null
  /\ a.rev >= 22 => b.rev >= 22
  /\ a.width = 100 => b.width = 100

LEMMA UpIsGood ==
  ASSUME FoundOK, NEW d, Good(d), NEW k \in 1..32, k = d.rev + 1, UpFault(k, d) = "none"
  PROVE  Good(Up(k, d)) /\ Follows(d, Up(k, d)) /\ Up(k, d).rev = k
  <1> DEFINE e == Up(k, d)  n == Filled(k, d)
  <1>1. e.rev = k /\ e.row = n /\ e.width = UpWidth(k, d)
    BY DEF Up
  <1>2. SchemaInv(d) /\ IsRow(d.row) /\ d.rev = k - 1
    BY DEF Good, RowGood, SchemaInv
  <1>3. SchemaInv(e)
    BY <1>2, SchemaUp
  <1>4. IsRow(n)
    BY <1>2, FilledKeeps DEF ChangesOnly
  <1>5. StageKept(e.schema, n) /\ n.status = d.row.status
    BY <1>2, StageUp DEF Good, RowGood
  <1>6. ScoreKept(n)
    BY <1>2, ScoreUp DEF Good, RowGood
  <1>7. PlanKept(k, n)
    BY <1>2, PlanUp DEF Good, RowGood
  <1>8. OwnerKept(k, n.inquiry)
    BY <1>2, OwnerUp DEF Good, RowGood
  <1>9. AmountKept(k, n) /\ n.rmb = d.row.rmb
    BY <1>2, AmountUp DEF Good, RowGood
  <1>10. DealKept(k, n.deal) /\ TrailKept(k, n.deal, n.trail) /\ SameStages(k, d.row.deal, n.deal)
    BY <1>2, DealUp DEF Good, RowGood
  <1> HIDE DEF e, n
  <1>11. Good(e)
    BY <1>1, <1>3, <1>4, <1>5, <1>6, <1>7, <1>8, <1>9, <1>10 DEF Good, RowGood
  <1>12. d.width = 100 => e.width = 100
    BY <1>1 DEF UpWidth
  <1>13. Follows(d, e)
    BY <1>1, <1>2, <1>5, <1>9, <1>10, <1>12 DEF Follows, SameStages
  <1> QED BY <1>1, <1>11, <1>13 DEF e

LEMMA DownIsGood ==
  ASSUME FoundOK, NEW d, Good(d), NEW k \in 1..32, k = d.rev, DownFault(k, d) = "none"
  PROVE  Good(Down(k, d)) /\ Follows(d, Down(k, d)) /\ Down(k, d).rev = k - 1
  <1> DEFINE e == Down(k, d)  n == Emptied(k, d)
  <1>1. /\ e.rev = k - 1 /\ e.row = n /\ e.width = DownWidth(k, d) /\ e.cascade = d.cascade
        /\ e.schema = (d.schema \ (Chain[k].drops \cup Chain[k].eases \cup (IF k = 5 THEN d.marked ELSE {})))
                        \cup Chain[k].gives
        /\ e.marked = IF k = 5 THEN {} ELSE d.marked
    BY DEF Down
  <1>2. SchemaInv(d) /\ IsRow(d.row)
    BY DEF Good, RowGood
  <1>3. SchemaInv(e)
    <2> HIDE DEF e
    <2> QED BY <1>1, <1>2, SchemaDown
  <1>f. ~Refuses(k, d) /\ k # 22 /\ k # 12
    <2>1. ~Refuses(k, d) /\ Fits(k - 1, DownWidth(k, d))
      BY DEF DownFault
    <2> QED BY <2>1 DEF Refuses, Fits, LongNames, DownWidth
  <1>4. IsRow(n)
    BY <1>2, EmptiedKeeps DEF ChangesOnly
  <1>5. StageKept(e.schema, n) /\ n.status = d.row.status
    BY <1>2, StageDown DEF Good, RowGood
  <1>6. ScoreKept(n)
    BY <1>2, ScoreDown DEF Good, RowGood
  <1>7. PlanKept(k - 1, n)
    BY <1>2, PlanDown DEF Good, RowGood
  <1>8. OwnerKept(k - 1, n.inquiry)
    BY <1>2, <1>f, OwnerDown DEF Good, RowGood
  <1>9. AmountKept(k - 1, n) /\ (d.row.rmb = Null => n.rmb = Null)
    BY <1>2, <1>f, AmountDown DEF Good, RowGood
  <1>10. DealKept(k - 1, n.deal) /\ TrailKept(k - 1, n.deal, n.trail) /\ SameStages(k, d.row.deal, n.deal)
    BY <1>2, DealDown DEF Good, RowGood
  <1> HIDE DEF e, n
  <1>11. Good(e)
    BY <1>1, <1>3, <1>4, <1>5, <1>6, <1>7, <1>8, <1>9, <1>10 DEF Good, RowGood
  <1>12. d.width = 100 => e.width = 100
    BY <1>1, <1>f DEF DownWidth
  <1>13. Follows(d, e)
    BY <1>1, <1>f, <1>5, <1>9, <1>10, <1>12 DEF Follows, SameStages
  <1> QED BY <1>1, <1>11, <1>13 DEF e

LEMMA FollowsUp ==
  ASSUME NEW a, NEW b, NEW c, a.rev \in Int, b.rev \in Int, c.rev \in Int,
         Follows(a, b), Follows(b, c), (a.rev <= b.rev /\ b.rev <= c.rev) \/ (a.rev >= b.rev /\ b.rev >= c.rev)
  PROVE  Follows(a, c)
  BY DEF Follows

(* A run, step by step.                                                       *)
Took(r, i, c) == IF r.to > r.from THEN Climb(r.from + i, c) ELSE Descend(r.from + 1 - i, c)

Steps(r) == IF r.to > r.from THEN r.to - r.from ELSE r.from - r.to

LEMMA OutcomeIs ==
  ASSUME NEW d, NEW r, r.from \in 0..32, r.to \in 0..32
  PROVE  \E f : /\ Outcome(d, r) = f[Steps(r)]
                /\ f[0] = [db |-> d, why |-> "none", at |-> 0]
                /\ \A i \in 1..Steps(r) : f[i] = Took(r, i, f[i - 1])
  <1> DEFINE top == Steps(r)
             start == [db |-> d, why |-> "none", at |-> 0]
             FitsIn(f, m) == f = [i \in 0..m |-> IF i = 0 THEN start ELSE Took(r, i, f[i - 1])]
             S == {m \in Nat : \E f : FitsIn(f, m)}
  <1>1. top \in Nat
    <2>1. CASE r.to > r.from
      <3>1. top = r.to - r.from
        BY <2>1 DEF Steps
      <3> QED BY <2>1, <3>1
    <2>2. CASE ~(r.to > r.from)
      <3>1. top = r.from - r.to
        BY <2>2 DEF Steps
      <3> QED BY <2>2, <3>1
    <2> QED BY <2>1, <2>2
  <1>0. Outcome(d, r) = LET after[i \in 0..top] == IF i = 0 THEN start ELSE Took(r, i, after[i - 1]) IN after[top]
    BY Zenon DEF Outcome, Steps, Took
  <1> HIDE DEF start, top
  <1>2. 0 \in S
    <2> DEFINE f == [i \in 0..0 |-> start]
    <2>1. f = [i \in 0..0 |-> IF i = 0 THEN start ELSE Took(r, i, f[i - 1])]
      <3>1. \A i \in 0..0 : i = 0
        OBVIOUS
      <3> QED BY <3>1, Zenon
    <2> QED BY <2>1
  <1>3. ASSUME NEW j \in 1..top, j - 1 \in S PROVE j \in S
    <2>1. PICK f : FitsIn(f, j - 1)
      BY <1>3
    <2> DEFINE g == [i \in 0..j |-> IF i = j THEN Took(r, j, f[j - 1]) ELSE f[i]]
    <2>2. j \in Nat /\ j - 1 \in 0..(j - 1) /\ j # 0
      BY <1>1
    <2>3. \A i \in 0..(j - 1) : f[i] = IF i = 0 THEN start ELSE Took(r, i, f[i - 1])
      BY <2>1
    <2>4. \A i \in 0..j : g[i] = IF i = 0 THEN start ELSE Took(r, i, g[i - 1])
      <3> SUFFICES ASSUME NEW i \in 0..j PROVE g[i] = IF i = 0 THEN start ELSE Took(r, i, g[i - 1])
        OBVIOUS
      <3>1. CASE i = j
        <4>1. g[i] = Took(r, j, f[j - 1]) /\ g[i - 1] = f[j - 1]
          BY <3>1, <2>2
        <4> QED BY <3>1, <4>1, <2>2
      <3>2. CASE i = 0
        <4>1. g[0] = f[0] /\ f[0] = start
          BY <2>2, <2>3
        <4> QED BY <3>2, <4>1
      <3>3. CASE i # j /\ i # 0
        <4>1. i \in 0..(j - 1) /\ i - 1 \in 0..j /\ i - 1 # j
          BY <3>3, <2>2
        <4>2. g[i] = f[i] /\ g[i - 1] = f[i - 1]
          BY <3>3, <4>1
        <4> QED BY <4>1, <4>2, <2>3, <3>3
      <3> QED BY <3>1, <3>2, <3>3
    <2>5. g = [i \in 0..j |-> IF i = 0 THEN start ELSE Took(r, i, g[i - 1])]
      <3>1. g = [i \in 0..j |-> g[i]]
        OBVIOUS
      <3> HIDE DEF g
      <3> QED BY <2>4, <3>1
    <2> QED BY <2>2, <2>5
  <1>4. top \in S
    <2> HIDE DEF S
    <2>1. 0..top \subseteq S
      BY <1>1, <1>2, <1>3, Climbing
    <2> QED BY <1>1, <2>1
  <1>5. PICK f : FitsIn(f, top)
    BY <1>4
  <1> DEFINE after == CHOOSE g : g = [i \in 0..top |-> IF i = 0 THEN start ELSE Took(r, i, g[i - 1])]
  <1>6. after = [i \in 0..top |-> IF i = 0 THEN start ELSE Took(r, i, after[i - 1])]
    BY <1>5, Zenon
  <1>7. Outcome(d, r) = after[top]
    BY <1>0, Zenon
  <1> HIDE DEF after
  <1>8. after[0] = start
    BY <1>1, <1>6
  <1>9. ASSUME NEW i \in 1..top PROVE after[i] = Took(r, i, after[i - 1])
    <2>1. i \in 0..top /\ i # 0
      BY <1>1
    <2> QED BY <1>6, <2>1
  <1> QED BY <1>7, <1>8, <1>9 DEF start, top

(* What is known of a run after some of its steps: where it stands if none    *)
(* failed, and else why one failed.                                           *)
Reached(d, c, v) ==
  /\ c.at \in 0..32
  /\ c.why = "none" => Good(c.db) /\ Follows(d, c.db) /\ c.db.rev = v

UpFailure(d, c) == c.why # "none" /\ d.width = 100 => c.why = "exists" /\ c.at = 19

DownFailure(c) ==
  c.why # "none" => \/ c.why = "refused" /\ c.at \in {10, 22, 24}
                    \/ c.why = "missing" /\ c.at = 3 /\ ~found.whole
                    \/ c.why = "width" /\ c.at = 12
                    \/ c.why = "exists" /\ c.at = 21

LEMMA ClimbReaches ==
  ASSUME FoundOK, NEW d, Good(d), NEW c, NEW v \in d.rev..31, Reached(d, c, v), UpFailure(d, c)
  PROVE  Reached(d, Climb(v + 1, c), v + 1) /\ UpFailure(d, Climb(v + 1, c))
  <1> DEFINE k == v + 1  e == Climb(k, c)
  <1>0. d.rev \in 0..32
    BY DEF Good, SchemaInv
  <1>1. k \in 1..32 /\ v \in Int
    BY <1>0
  <1>2. CASE c.why # "none"
    <2>1. e = c
      BY <1>2 DEF Climb
    <2> QED BY <1>2, <2>1 DEF Reached, UpFailure
  <1>3. CASE c.why = "none" /\ UpFault(k, c.db) # "none"
    <2>1. e.why = UpFault(k, c.db) /\ e.at = k
      BY <1>3 DEF Climb
    <2>2. Good(c.db) /\ Follows(d, c.db) /\ k = c.db.rev + 1
      BY <1>3 DEF Reached
    <2>3. d.width = 100 => c.db.width = 100
      BY <2>2 DEF Follows
    <2>4. d.width = 100 => UpFault(k, c.db) = "exists" /\ k = 19
      BY <1>1, <1>3, <2>2, <2>3, UpFaults DEF Good
    <2> HIDE DEF e, k
    <2> QED BY <1>1, <1>3, <2>1, <2>4 DEF Reached, UpFailure, e, k
  <1>4. CASE c.why = "none" /\ UpFault(k, c.db) = "none"
    <2>1. e = [c EXCEPT !.db = Up(k, c.db)]
      BY <1>4 DEF Climb
    <2>2. Good(c.db) /\ Follows(d, c.db) /\ k = c.db.rev + 1 /\ c.db.rev = v
      BY <1>4 DEF Reached
    <2>3. Good(Up(k, c.db)) /\ Follows(c.db, Up(k, c.db)) /\ Up(k, c.db).rev = k
      BY <1>1, <1>4, <2>2, UpIsGood
    <2>4. Follows(d, Up(k, c.db))
      <3> DEFINE u == Up(k, c.db)
      <3>1. d.rev \in Int /\ c.db.rev \in Int /\ u.rev \in Int /\ d.rev <= c.db.rev /\ c.db.rev <= u.rev
        BY <1>0, <1>1, <2>2, <2>3
      <3> HIDE DEF u
      <3> QED BY <2>2, <2>3, <3>1, FollowsUp DEF u
    <2>5. e.db = Up(k, c.db) /\ e.why = "none" /\ e.at = c.at
      <3> HIDE DEF e, k
      <3> QED BY <1>4, <2>1
    <2> HIDE DEF e, k
    <2> QED BY <2>3, <2>4, <2>5 DEF Reached, UpFailure, e, k
  <1> QED BY <1>2, <1>3, <1>4

LEMMA DescendReaches ==
  ASSUME FoundOK, NEW d, Good(d), NEW c, NEW v \in 1..d.rev, Reached(d, c, v), DownFailure(c)
  PROVE  Reached(d, Descend(v, c), v - 1) /\ DownFailure(Descend(v, c))
  <1> DEFINE e == Descend(v, c)
  <1>0. d.rev \in 0..32
    BY DEF Good, SchemaInv
  <1>1. v \in 1..32
    BY <1>0
  <1>2. CASE c.why # "none"
    <2>1. e = c
      BY <1>2 DEF Descend
    <2> QED BY <1>2, <2>1 DEF Reached, DownFailure
  <1>3. CASE c.why = "none" /\ DownFault(v, c.db) # "none"
    <2>1. e.why = DownFault(v, c.db) /\ e.at = v
      BY <1>3 DEF Descend
    <2>2. Good(c.db) /\ v = c.db.rev
      BY <1>3 DEF Reached
    <2>3. \/ DownFault(v, c.db) = "refused" /\ v \in {10, 22, 24}
          \/ DownFault(v, c.db) = "missing" /\ v = 3 /\ ~found.whole
          \/ DownFault(v, c.db) = "width" /\ v = 12
          \/ DownFault(v, c.db) = "exists" /\ v = 21
      BY <1>1, <1>3, <2>2, DownFaults DEF Good
    <2> HIDE DEF e
    <2> QED BY <1>1, <1>3, <2>1, <2>3 DEF Reached, DownFailure, e
  <1>4. CASE c.why = "none" /\ DownFault(v, c.db) = "none"
    <2>1. e = [c EXCEPT !.db = Down(v, c.db)]
      BY <1>4 DEF Descend
    <2>2. Good(c.db) /\ Follows(d, c.db) /\ v = c.db.rev
      BY <1>4 DEF Reached
    <2>3. Good(Down(v, c.db)) /\ Follows(c.db, Down(v, c.db)) /\ Down(v, c.db).rev = v - 1
      BY <1>1, <1>4, <2>2, DownIsGood
    <2>4. Follows(d, Down(v, c.db))
      <3> DEFINE u == Down(v, c.db)
      <3>1. d.rev \in Int /\ c.db.rev \in Int /\ u.rev \in Int /\ d.rev >= c.db.rev /\ c.db.rev >= u.rev
        BY <1>0, <1>1, <2>2, <2>3
      <3> HIDE DEF u
      <3> QED BY <2>2, <2>3, <3>1, FollowsUp DEF u
    <2>5. e.db = Down(v, c.db) /\ e.why = "none" /\ e.at = c.at
      BY <1>4, <2>1
    <2> HIDE DEF e
    <2> QED BY <2>3, <2>4, <2>5 DEF Reached, DownFailure, e
  <1> QED BY <1>2, <1>3, <1>4

(* A run's outcome.                                                           *)
LEMMA Upgrades ==
  ASSUME FoundOK, NEW d, Good(d), NEW r, r.from = d.rev, r.to \in 0..32, r.to > r.from
  PROVE  Reached(d, Outcome(d, r), r.to) /\ UpFailure(d, Outcome(d, r))
  <1>0. r.from \in 0..32
    BY DEF Good, SchemaInv
  <1>1. PICK f : /\ Outcome(d, r) = f[Steps(r)]
                 /\ f[0] = [db |-> d, why |-> "none", at |-> 0]
                 /\ \A i \in 1..Steps(r) : f[i] = Took(r, i, f[i - 1])
    BY <1>0, OutcomeIs
  <1> DEFINE top == r.to - r.from
             P(i) == Reached(d, f[i], r.from + i) /\ UpFailure(d, f[i])
             S == {i \in 0..top : P(i)}
  <1>2. top \in Nat /\ Steps(r) = top
    BY <1>0 DEF Steps
  <1>3. P(0)
    <2>1. Follows(d, d)
      BY DEF Follows
    <2>2. f[0].db = d /\ f[0].why = "none" /\ f[0].at = 0
      BY <1>1
    <2>3. d.rev = r.from + 0
      BY <1>0
    <2> QED BY <2>1, <2>2, <2>3 DEF Reached, UpFailure
  <1>4. ASSUME NEW i \in 1..top, P(i - 1) PROVE P(i)
    <2>1. f[i] = Climb(r.from + i, f[i - 1])
      BY <1>1, <1>2 DEF Took
    <2> DEFINE v == r.from + (i - 1)
    <2>2. v \in d.rev..31 /\ v + 1 = r.from + i
      BY <1>0, <1>2
    <2>3. Reached(d, f[i - 1], v) /\ UpFailure(d, f[i - 1])
      BY <1>4
    <2> HIDE DEF v
    <2>4. Reached(d, Climb(v + 1, f[i - 1]), v + 1) /\ UpFailure(d, Climb(v + 1, f[i - 1]))
      BY <2>2, <2>3, ClimbReaches
    <2> QED BY <2>1, <2>2, <2>4
  <1> HIDE DEF P
  <1>5. 0..top \subseteq S
    <2>1. 0 \in S /\ \A i \in 1..top : i - 1 \in S => i \in S
      <3> HIDE DEF top
      <3> QED BY <1>2, <1>3, <1>4
    <2> HIDE DEF S, top
    <2> QED BY <1>2, <2>1, Climbing
  <1>6. P(top)
    <2> HIDE DEF top
    <2>1. top \in 0..top
      BY <1>2
    <2> QED BY <1>5, <2>1
  <1>7. r.from + top = r.to
    BY <1>0
  <1> QED BY <1>1, <1>2, <1>6, <1>7 DEF P

LEMMA Rollbacks ==
  ASSUME FoundOK, NEW d, Good(d), NEW r, r.from = d.rev, r.to \in 0..32, ~(r.to > r.from)
  PROVE  Reached(d, Outcome(d, r), r.to) /\ DownFailure(Outcome(d, r))
  <1>0. r.from \in 0..32
    BY DEF Good, SchemaInv
  <1>1. PICK f : /\ Outcome(d, r) = f[Steps(r)]
                 /\ f[0] = [db |-> d, why |-> "none", at |-> 0]
                 /\ \A i \in 1..Steps(r) : f[i] = Took(r, i, f[i - 1])
    BY <1>0, OutcomeIs
  <1> DEFINE top == r.from - r.to
             P(i) == Reached(d, f[i], r.from - i) /\ DownFailure(f[i])
             S == {i \in 0..top : P(i)}
  <1>2. top \in Nat /\ Steps(r) = top
    BY <1>0 DEF Steps
  <1>3. P(0)
    <2>1. Follows(d, d)
      BY DEF Follows
    <2>2. f[0].db = d /\ f[0].why = "none" /\ f[0].at = 0
      BY <1>1
    <2>3. d.rev = r.from - 0
      BY <1>0
    <2> QED BY <2>1, <2>2, <2>3 DEF Reached, DownFailure
  <1>4. ASSUME NEW i \in 1..top, P(i - 1) PROVE P(i)
    <2>1. f[i] = Descend(r.from + 1 - i, f[i - 1])
      BY <1>1, <1>2 DEF Took
    <2> DEFINE v == r.from - (i - 1)
    <2>2. v \in 1..d.rev /\ v - 1 = r.from - i /\ v = r.from + 1 - i
      BY <1>0, <1>2
    <2>3. Reached(d, f[i - 1], v) /\ DownFailure(f[i - 1])
      BY <1>4
    <2> HIDE DEF v
    <2>4. Reached(d, Descend(v, f[i - 1]), v - 1) /\ DownFailure(Descend(v, f[i - 1]))
      BY <2>2, <2>3, DescendReaches
    <2> QED BY <2>1, <2>2, <2>4
  <1> HIDE DEF P
  <1>5. 0..top \subseteq S
    <2>1. 0 \in S /\ \A i \in 1..top : i - 1 \in S => i \in S
      <3> HIDE DEF top
      <3> QED BY <1>2, <1>3, <1>4
    <2> HIDE DEF S, top
    <2> QED BY <1>2, <2>1, Climbing
  <1>6. P(top)
    <2> HIDE DEF top
    <2>1. top \in 0..top
      BY <1>2
    <2> QED BY <1>5, <2>1
  <1>7. r.from - top = r.to
    BY <1>0
  <1> QED BY <1>1, <1>2, <1>6, <1>7 DEF P

-----------------------------------------------------------------------------
(* The rows an installation may hold when it is found are good.               *)
LEMMA VaryWithin ==
  ASSUME NEW topics, NEW A, NEW x \in A, NEW topic
  PROVE  Vary(topics, topic, A, x) \subseteq A
  BY DEF Vary

LEMMA DealsFound ==
  ASSUME NEW topics, NEW r \in 0..32, NEW t \in DealsAt(topics, r)
  PROVE  DealKept(r, t) /\ TrailKept(r, t, TrailOf(r, t))
  <1> DEFINE w == TrailOf(r, t)
  <1>2. /\ w.stage = IF r < 7 \/ t.stage = Gone THEN <<>> ELSE <<t.stage>>
        /\ w.sales = IF t.sales = Gone THEN <<>> ELSE <<t.sales>>
        /\ w.deal = IF t.deal = Gone THEN <<>> ELSE <<t.deal>>
        /\ w = [stage |-> w.stage, sales |-> w.sales, deal |-> w.deal]
    BY DEF TrailOf
  <1>3. \A x : EndsAt(IF x = Gone THEN <<>> ELSE <<x>>, x)
    BY OneEntry, NoEntry
  <1> HIDE DEF w
  <1>4. TrailKept(r, t, w)
    <2>1. EndsAt(w.sales, t.sales) /\ EndsAt(w.deal, t.deal)
      BY <1>2, <1>3
    <2>2. r >= 7 => EndsAt(w.stage, t.stage)
      <3>1. r >= 7 => w.stage = IF t.stage = Gone THEN <<>> ELSE <<t.stage>>
        BY <1>2
      <3> QED BY <1>3, <3>1
    <2>3. r < 7 => w.stage = <<>>
      BY <1>2
    <2> QED BY <1>2, <2>1, <2>2, <2>3, Zenon DEF TrailKept
  <1>5. DealKept(r, t)
    <2>1. CASE r < 6
      <3>1. t = [stage |-> Gone, sales |-> Gone, deal |-> Gone]
        BY <2>1 DEF DealsAt
      <3> QED BY <2>1, <3>1 DEF DealKept
    <2>2. CASE r = 6
      <3>1. t \in [stage : Vary(topics, "stages", CustomerStages, "Quotation"), sales : {Gone}, deal : {Gone}]
        BY <2>2 DEF DealsAt
      <3>2. t \in [stage : CustomerStages, sales : {Gone}, deal : {Gone}]
        BY <3>1, VaryWithin DEF CustomerStages
      <3> QED BY <2>2, <3>2, GoneIsNone DEF DealKept
    <2>3. CASE r > 6 /\ r < 14
      <3>1. t \in [stage : Vary(topics, "stages", LegacyStages, "Qualified"), sales : {Gone}, deal : {Gone}]
        BY <2>3 DEF DealsAt
      <3>2. t \in [stage : LegacyStages, sales : {Gone}, deal : {Gone}]
        BY <3>1, VaryWithin DEF LegacyStages
      <3> QED BY <2>3, <3>2, GoneIsNone DEF DealKept
    <2>4. CASE r >= 14
      <3>1. \E x \in Vary(topics, "stages", SalesStages, "QuotationSent") :
               t = [OfSales(x) EXCEPT !.deal = IF r < 16 THEN Gone ELSE @]
        BY <2>4 DEF DealsAt
      <3>2. PICK x \in SalesStages : t = [OfSales(x) EXCEPT !.deal = IF r < 16 THEN Gone ELSE @]
        BY <3>1, VaryWithin DEF SalesStages
      <3>3. /\ t = [stage |-> SalesToLegacy[x], sales |-> x, deal |-> IF r < 16 THEN Gone ELSE SalesToDeal[x]]
            /\ t.stage = SalesToLegacy[x] /\ t.sales = x /\ t.deal = IF r < 16 THEN Gone ELSE SalesToDeal[x]
        BY <3>2 DEF OfSales
      <3>4. SalesToLegacy[x] \in LegacyStages /\ SalesToDeal[x] \in DealStages
        BY DEF SalesStages, LegacyStages, DealStages, SalesToLegacy, SalesToDeal
      <3>5. t.stage # Gone
        BY <3>3, <3>4, GoneIsNone
      <3>6. r >= 16 => Coherent(t)
        BY <3>3 DEF Coherent, OfSales
      <3>7. t \in [stage : CustomerStages \cup LegacyStages \cup {Gone},
                   sales : SalesStages \cup {Gone}, deal : DealStages \cup {Gone}]
        BY <3>3, <3>4
      <3> QED BY <2>4, <3>3, <3>4, <3>5, <3>6, <3>7 DEF DealKept
    <2> QED BY <2>1, <2>2, <2>3, <2>4
  <1> QED BY <1>4, <1>5 DEF w

LEMMA VisitsFound ==
  ASSUME NEW topics, NEW r \in 0..32, NEW v \in VisitsAt(topics, r)
  PROVE  v \in Seq(Visits) /\ Len(v) <= 2
  <1> DEFINE one == [made : {1, 2}, on : IF r < 13 THEN {Never} ELSE {1, 2}, next : {Null, 3, 4}]
             all == {<<>>} \cup {<<u>> : u \in one} \cup {u \in one \X one : u[1].made <= u[2].made}
  <1>1. v \in Vary(topics, "reminders", all, <<>>)
    BY DEF VisitsAt
  <1>2. v \in all
    <2> HIDE DEF all
    <2>1. <<>> \in all
      BY DEF all
    <2> QED BY <1>1, <2>1, VaryWithin
  <1>3. one \subseteq Visits
    BY DEF Visits
  <1> HIDE DEF one
  <1>4. CASE v = <<>>
    BY <1>4
  <1>5. CASE v \in {<<u>> : u \in one}
    <2>1. PICK u \in one : v = <<u>>
      BY <1>5
    <2>2. u \in Visits
      BY <1>3
    <2> QED BY <2>1, <2>2
  <1>6. CASE v \in {u \in one \X one : u[1].made <= u[2].made}
    <2>1. PICK a \in one, b \in one : v = <<a, b>>
      BY <1>6
    <2>2. a \in Visits /\ b \in Visits
      BY <1>3
    <2> QED BY <2>1, <2>2
  <1> QED BY <1>2, <1>4, <1>5, <1>6

LEMMA ScoresFound ==
  ASSUME NEW topics, NEW r \in 0..32, NEW l \in LevelsAt(topics) \X ScoresAt(topics, r)
  PROVE  l[1] \in {"A", "B", "C"} /\ (r < 11 => l[2] = Never)
  <1>1. l[1] \in LevelsAt(topics) /\ l[2] \in ScoresAt(topics, r)
    OBVIOUS
  <1>2. l[1] \in {"A", "B", "C"}
    BY <1>1 DEF LevelsAt, Vary
  <1>3. r < 11 => l[2] = Never
    BY <1>1 DEF ScoresAt
  <1> QED BY <1>2, <1>3

LEMMA AmountsFound ==
  ASSUME NEW topics, NEW r \in 0..32, NEW m \in AmountsAt(topics, r), r < 24
  PROVE  m # Null
  BY DEF AmountsAt, Vary, Null, Never

LEMMA InquiriesFound ==
  ASSUME NEW topics, NEW r \in 0..32, NEW q \in InquiriesAt(topics, r)
  PROVE  q \in [own : {Gone} \cup Who, deal : Who, cust : Who] /\ (r < 22 => q.own \in {Gone, "nobody"})
  BY DEF InquiriesAt, Vary, Who, Gone

(* A row of RowsAt from its varying parts.                                    *)
RowOf(r, c, l, v, a, t, m, q) ==
  [status |-> c, custom |-> IF r < 3 THEN Gone ELSE c,
   level |-> l[1], score |-> l[2], visits |-> v, alibaba |-> a,
   plan |-> Summary(r, v).plan, seen |-> Summary(r, v).seen,
   label |-> IF r < 19 THEN Gone
             ELSE IF r < 20 THEN Label19[c] ELSE Fill20([label |-> Label19[c]]).label,
   latest |-> IF r < 19 THEN Never ELSE Summary(r, v).seen,
   deal |-> t, trail |-> TrailOf(r, t), rmb |-> m, inquiry |-> q]

LEMMA RowsFound ==
  ASSUME NEW topics, NEW r \in 0..32, found.rev = r, NEW row \in RowsAt(topics, r)
  PROVE  /\ IsRow(row) /\ row.status \in CustomerStages /\ row.custom = (IF r < 3 THEN Gone ELSE row.status)
         /\ row.label = Gone \/ (row.label \in DOMAIN legacy_status_for /\ legacy_status_for[row.label] = row.status)
         /\ ScoreKept(row) /\ row.visits \in Seq(Visits) /\ Len(row.visits) <= 2
         /\ r >= 17 => ShowsNewest(row)
         /\ row.inquiry \in [own : {Gone} \cup Who, deal : Who, cust : Who]
         /\ r < 22 => row.inquiry.own \in {Gone, "nobody"}
         /\ AmountKept(r, row)
         /\ DealKept(r, row.deal) /\ TrailKept(r, row.deal, row.trail)
  <1>1. PICK c \in Vary(topics, "stages", CustomerStages, "Contacted"),
             l \in LevelsAt(topics) \X ScoresAt(topics, r),
             v \in VisitsAt(topics, r), a \in IF r < 10 THEN {FALSE} ELSE BOOLEAN,
             t \in DealsAt(topics, r), m \in AmountsAt(topics, r), q \in InquiriesAt(topics, r) :
          row = RowOf(r, c, l, v, a, t, m, q)
    <2> DEFINE C == Vary(topics, "stages", CustomerStages, "Contacted")
               L == LevelsAt(topics) \X ScoresAt(topics, r)
               V == VisitsAt(topics, r)
               A == IF r < 10 THEN {FALSE} ELSE BOOLEAN
               T == DealsAt(topics, r)
               M == AmountsAt(topics, r)
               Q == InquiriesAt(topics, r)
    <2>1. RowsAt(topics, r) =
            {RowOf(r, c, l, v, a, t, m, q) : c \in C, l \in L, v \in V, a \in A, t \in T, m \in M, q \in Q}
      BY DEF RowsAt, RowOf
    <2> HIDE DEF C, L, V, A, T, M, Q
    <2>2. \E c \in C, l \in L, v \in V, a \in A, t \in T, m \in M, q \in Q : row = RowOf(r, c, l, v, a, t, m, q)
      BY <2>1
    <2> QED BY <2>2 DEF C, L, V, A, T, M, Q
  <1>2. /\ row.status = c /\ row.custom = (IF r < 3 THEN Gone ELSE c) /\ row.level = l[1] /\ row.score = l[2]
        /\ row.visits = v /\ row.plan = Summary(r, v).plan /\ row.seen = Summary(r, v).seen
        /\ row.label = (IF r < 19 THEN Gone
                        ELSE IF r < 20 THEN Label19[c] ELSE Fill20([label |-> Label19[c]]).label)
        /\ row.deal = t /\ row.trail = TrailOf(r, t) /\ row.rmb = m /\ row.inquiry = q
    BY <1>1 DEF RowOf
  <1>3. IsRow(row)
    BY <1>1 DEF IsRow, Fields, RowOf
  <1>4. c \in CustomerStages
    BY VaryWithin DEF CustomerStages
  <1>5. row.label = Gone \/ (row.label \in DOMAIN legacy_status_for /\ legacy_status_for[row.label] = c)
    <2> DEFINE x == Label19[c]
    <2>1. Fill20([label |-> x]).label = IF x \in DOMAIN STAGE_RENAMES THEN STAGE_RENAMES[x] ELSE x
      BY DEF Fill20
    <2> QED BY <1>2, <1>4, <2>1, LabelsRead
  <1>6. ScoreKept(row)
    BY <1>2, ScoresFound DEF ScoreKept
  <1>7. v \in Seq(Visits) /\ Len(v) <= 2
    BY VisitsFound
  <1>8. r >= 17 => ShowsNewest(row)
    BY <1>2 DEF ShowsNewest, Summary
  <1>9. AmountKept(r, row)
    BY <1>2, AmountsFound DEF AmountKept
  <1>10. q \in [own : {Gone} \cup Who, deal : Who, cust : Who] /\ (r < 22 => q.own \in {Gone, "nobody"})
    BY InquiriesFound
  <1>11. DealKept(r, t) /\ TrailKept(r, t, TrailOf(r, t))
    BY DealsFound
  <1> QED BY <1>2, <1>3, <1>4, <1>5, <1>6, <1>7, <1>8, <1>9, <1>10, <1>11

LEMMA FoundIsGood ==
  ASSUME NEW topics, NEW r \in 0..32, NEW row \in RowsAt(topics, r), NEW lost \in SUBSET Claimed(r),
         found = [rev |-> r, whole |-> lost = {}]
  PROVE  FoundOK /\ Good(Found(r, row, lost))
  <1> DEFINE d == Found(r, row, lost)  n == d.row
             x == "customers.sales_stage"
  <1>1. /\ d.rev = r /\ d.width = (IF r < 11 THEN 32 ELSE 100) /\ d.schema = SchemaOf[r] \ lost
        /\ d.marked = {} /\ d.cascade = (r < 22)
        /\ n = [row EXCEPT !.custom = IF x \in lost THEN Gone ELSE @,
                           !.plan = IF "customers.next_followup_date" \in lost THEN Never ELSE @,
                           !.seen = IF "customers.last_followup_at" \in lost THEN Never ELSE @]
    BY DEF Found
  <1>2. FoundOK /\ found.rev = r /\ (found.whole <=> lost = {})
    BY DEF FoundOK
  <1>3. lost \subseteq Holes(r)
    BY <1>2 DEF Claimed, Holes
  <1>4. SchemaInv(d)
    <2> HIDE DEF d
    <2>1. d.cascade \in BOOLEAN /\ (d.rev >= 22 => ~d.cascade)
      <3>1. (r < 22) \in BOOLEAN /\ (r >= 22 => ~(r < 22))
        OBVIOUS
      <3> QED BY <1>1, <3>1, Zenon
    <2>2. d.schema \subseteq SchemaOf[d.rev] \cup V19.adds /\ SchemaOf[d.rev] \subseteq d.schema \cup Holes(d.rev)
      BY <1>1, <1>3
    <2>3. d.rev \in 0..32 /\ d.width \in {32, 100} /\ (d.rev >= 11 => d.width = 100) /\ d.marked = {}
      BY <1>1
    <2> QED BY <2>1, <2>2, <2>3 DEF SchemaInv
  <1>5. /\ IsRow(row) /\ row.status \in CustomerStages /\ row.custom = (IF r < 3 THEN Gone ELSE row.status)
        /\ row.label = Gone \/ (row.label \in DOMAIN legacy_status_for /\ legacy_status_for[row.label] = row.status)
        /\ ScoreKept(row) /\ row.visits \in Seq(Visits) /\ Len(row.visits) <= 2
        /\ r >= 17 => ShowsNewest(row)
        /\ row.inquiry \in [own : {Gone} \cup Who, deal : Who, cust : Who]
        /\ r < 22 => row.inquiry.own \in {Gone, "nobody"}
        /\ AmountKept(r, row)
        /\ DealKept(r, row.deal) /\ TrailKept(r, row.deal, row.trail)
    BY <1>2, RowsFound
  <1>6. /\ ChangesOnly(row, n, {"custom", "plan", "seen"})
        /\ n.custom = (IF x \in lost THEN Gone ELSE row.custom)
        /\ lost = {} => n.plan = row.plan /\ n.seen = row.seen
    <2> HIDE DEF n
    <2> QED BY <1>1, <1>5 DEF IsRow, ChangesOnly, Fields
  <1> HIDE DEF d, n
  <1>7. /\ IsRow(n) /\ n.status = row.status /\ n.label = row.label /\ n.level = row.level /\ n.score = row.score
        /\ n.visits = row.visits /\ n.inquiry = row.inquiry /\ n.rmb = row.rmb /\ n.deal = row.deal /\ n.trail = row.trail
    BY <1>6 DEF ChangesOnly, Fields
  <1>8. StageKept(d.schema, n)
    <2>1. r < 3 => x \notin SchemaOf[r]
      <3>1. x \notin E00 /\ x \notin E01 /\ x \notin E02
        BY DEF E00, E01, E02, V01, V02, Reversible, Nothing
      <3> HIDE DEF x
      <3>2. r < 3 => r = 0 \/ r = 1 \/ r = 2
        OBVIOUS
      <3> QED BY <3>1, <3>2, SchemaOfEach, SchemaOfIs
    <2> HIDE DEF x
    <2>2. x \in d.schema => x \notin lost /\ ~(r < 3)
      BY <1>1, <2>1
    <2> QED BY <1>5, <1>6, <1>7, <2>2 DEF StageKept, x
  <1>9. ScoreKept(n)
    BY <1>5, <1>7 DEF ScoreKept
  <1>10. PlanKept(r, n)
    <2>1. found.whole /\ r >= 17 => ShowsNewest(n)
      BY <1>2, <1>5, <1>6, <1>7 DEF ShowsNewest
    <2> QED BY <1>5, <1>7, <2>1 DEF PlanKept
  <1>11. OwnerKept(r, n.inquiry)
    BY <1>2, <1>5, <1>7 DEF OwnerKept
  <1>12. AmountKept(r, n) /\ DealKept(r, n.deal) /\ TrailKept(r, n.deal, n.trail)
    BY <1>5, <1>7 DEF AmountKept
  <1>13. n = d.row /\ d.rev = r
    BY <1>1 DEF n
  <1>14. RowGood(d)
    BY <1>7, <1>8, <1>9, <1>10, <1>11, <1>12, <1>13 DEF RowGood
  <1> QED BY <1>2, <1>4, <1>14 DEF Good, d

-----------------------------------------------------------------------------
(* The inductive invariant: the database is good, a run under way knows two   *)
(* revisions, an upgrade has a wide version table when the script that        *)
(* prepares it is run, and the last report is one of the known ones.          *)
RunOK(x) == x = None \/ /\ x.from \in 0..32 /\ x.to \in 0..32
                        /\ Prepares /\ x.to > x.from => db.width = 100

MigrationInv ==
  /\ FoundOK
  /\ Good(db)
  /\ run = [p \in Runners |-> run[p]]
  /\ \A p \in Runners : RunOK(run[p])
  /\ report.at \in 0..32
  /\ Prepares => FaultsKnown
  /\ ended \in Nat

LEMMA DeskStarts == DeskInit => MigrationInv
  <1> SUFFICES ASSUME DeskInit PROVE MigrationInv
    OBVIOUS
  <1>1. PICK s \in Desks : FoundAmong(StartsOf[s], TopicsOf[s])
    BY DEF DeskInit
  <1>2. StartsOf[s] \subseteq 0..32
    <2>1. Starts \subseteq 0..32
      BY DeskAssumption, ChainIs DEF MigrationAssumption
    <2>2. s \in {"stages", "reminders", "values", "together"}
      BY DeskAssumption
    <2>3. /\ StartsOf["stages"] = {2, 4, 6, 9, 13, 15, 21, 31} /\ StartsOf["reminders"] = {9, 13, 16, 17}
          /\ StartsOf["values"] = {9, 16, 21, 23, 31} /\ StartsOf["together"] = Starts
      BY DEF StartsOf
    <2>4. {2, 4, 6, 9, 13, 15, 21, 31} \subseteq 0..32 /\ {9, 13, 16, 17} \subseteq 0..32
      OBVIOUS
    <2>5. {9, 16, 21, 23, 31} \subseteq 0..32
      OBVIOUS
    <2>6. CASE s = "stages"
      BY <2>3, <2>4, <2>6, Zenon
    <2>7. CASE s = "reminders"
      BY <2>3, <2>4, <2>7, Zenon
    <2>8. CASE s = "values"
      BY <2>3, <2>5, <2>8, Zenon
    <2>9. CASE s = "together"
      BY <2>1, <2>3, <2>9, Zenon
    <2> QED BY <2>2, <2>6, <2>7, <2>8, <2>9, Zenon
  <1>3. PICK r \in StartsOf[s] : \E row \in RowsAt(TopicsOf[s], r), lost \in SUBSET Claimed(r) :
           db = Found(r, row, lost) /\ found = [rev |-> r, whole |-> lost = {}]
    BY <1>1 DEF FoundAmong
  <1>4. FoundOK /\ Good(db)
    BY <1>2, <1>3, FoundIsGood
  <1>5. run = [p \in Runners |-> None] /\ report = [up |-> TRUE, why |-> "none", at |-> 0] /\ ended = 0
    BY <1>1 DEF FoundAmong
  <1>6. FaultsKnown /\ report.at \in 0..32
    BY <1>5 DEF FaultsKnown
  <1>7. run = [p \in Runners |-> run[p]] /\ \A p \in Runners : RunOK(run[p])
    BY <1>5 DEF RunOK
  <1> QED BY <1>4, <1>5, <1>6, <1>7 DEF MigrationInv

LEMMA FollowsSelf ==
  ASSUME NEW d
  PROVE  Follows(d, d)
  BY DEF Follows

LEMMA GoodLater ==
  ASSUME found' = found, FoundOK, Good(db')
  PROVE  FoundOK' /\ Good(db)'
  BY DEF FoundOK, Good, SchemaInv, Holes, RowGood, ScoreKept, PlanKept, OwnerKept

(* One step of the desk.                                                      *)
LEMMA DeskMoves ==
  ASSUME MigrationInv, [Next]_vars
  PROVE  MigrationInv' /\ Follows(db, db')
  <1> USE DEF MigrationInv
  <1>0. Latest = 32 /\ Targets \subseteq Nat /\ db.rev \in 0..32 /\ db.width \in {32, 100}
    BY DeskAssumption, ChainIs DEF MigrationAssumption, Good, SchemaInv
  <1>1. CASE Prepare
    <2>1. db' = [db EXCEPT !.width = 100] /\ found' = found /\ run' = run /\ report' = report /\ ended' = ended
      BY <1>1 DEF Prepare
    <2>2. /\ db'.rev = db.rev /\ db'.width = 100 /\ db'.schema = db.schema /\ db'.marked = db.marked
          /\ db'.cascade = db.cascade /\ db'.row = db.row
      BY <2>1
    <2>3. SchemaInv(db') /\ RowGood(db')
      BY <2>2 DEF Good, SchemaInv, RowGood
    <2>4. FoundOK' /\ Good(db)'
      BY <2>1, <2>3, GoodLater DEF Good
    <2>5. Follows(db, db')
      BY <2>2 DEF Follows
    <2>6. \A p \in Runners : RunOK(run[p])'
      BY <2>1, <2>2 DEF RunOK
    <2>7. FaultsKnown => FaultsKnown'
      BY <2>1 DEF FaultsKnown
    <2> QED BY <2>1, <2>4, <2>5, <2>6, <2>7
  <1>2. ASSUME NEW p \in Runners, NEW to \in 0..32, Begin(p, to), Prepares /\ to > db.rev => db.width = 100
        PROVE  MigrationInv' /\ Follows(db, db')
    <2>1. run' = [run EXCEPT ![p] = [from |-> db.rev, to |-> to]] /\ UNCHANGED <<db, report, ended, found>>
      BY <1>2 DEF Begin
    <2>2. run' = [q \in Runners |-> run'[q]]
      BY <2>1
    <2>3. ASSUME NEW q \in Runners PROVE RunOK(run[q])'
      <3>1. CASE q = p
        <4> DEFINE x == [from |-> db.rev, to |-> to]
        <4>1. run'[q] = x /\ x.from = db.rev /\ x.to = to
          BY <2>1, <3>1
        <4> HIDE DEF x
        <4> QED BY <1>0, <1>2, <2>1, <4>1 DEF RunOK
      <3>2. CASE q # p
        <4>1. run'[q] = run[q]
          BY <2>1, <3>2
        <4> QED BY <2>1, <4>1 DEF RunOK
      <3> QED BY <3>1, <3>2
    <2>4. FoundOK' /\ Good(db)' /\ Follows(db, db')
      BY <2>1, GoodLater, FollowsSelf
    <2>5. FaultsKnown => FaultsKnown'
      BY <2>1 DEF FaultsKnown
    <2> QED BY <2>1, <2>2, <2>3, <2>4, <2>5
  <1>3. ASSUME NEW p \in Runners, BeginUpgrade(p) PROVE MigrationInv' /\ Follows(db, db')
    <2>1. Begin(p, 32) /\ (Prepares /\ 32 > db.rev => db.width = 100)
      BY <1>0, <1>3 DEF BeginUpgrade
    <2> QED BY <1>2, <2>1
  <1>4. ASSUME NEW p \in Runners, BeginDowngrade(p) PROVE MigrationInv' /\ Follows(db, db')
    <2>1. PICK to \in Targets : to < db.rev /\ Begin(p, to)
      BY <1>4 DEF BeginDowngrade
    <2>2. to \in 0..32 /\ ~(to > db.rev)
      BY <1>0, <2>1
    <2> QED BY <1>2, <2>1, <2>2
  <1>5. ASSUME NEW p \in Runners, Finish(p) PROVE MigrationInv' /\ Follows(db, db')
    <2> DEFINE x == run[p]  o == Outcome(db, x)
    <2>1. /\ x # None
          /\ db' = IF ~Stale(x) /\ o.why = "none" THEN o.db ELSE db
          /\ report' = IF Stale(x) THEN [up |-> x.to > x.from, why |-> "stale", at |-> 0]
                       ELSE [up |-> x.to > x.from, why |-> o.why, at |-> o.at]
          /\ run' = [run EXCEPT ![p] = None] /\ ended' = ended + 1 /\ found' = found
      BY <1>5 DEF Finish
    <2>2. x.from \in 0..32 /\ x.to \in 0..32 /\ (Prepares /\ x.to > x.from => db.width = 100)
      BY <2>1 DEF RunOK
    <2>3. ~Stale(x) => /\ Reached(db, o, x.to)
                       /\ x.to > x.from => UpFailure(db, o)
                       /\ ~(x.to > x.from) => DownFailure(o)
      BY <2>2, Upgrades, Rollbacks DEF Stale
    <2> HIDE DEF o
    <2>4. Good(db') /\ Follows(db, db')
      BY <2>1, <2>3, FollowsSelf DEF Reached
    <2>5. FoundOK' /\ Good(db)'
      BY <2>1, <2>4, GoodLater
    <2>6. run' = [q \in Runners |-> run'[q]] /\ \A q \in Runners : run'[q] = None \/ run'[q] = run[q]
      BY <2>1
    <2>7. db.width = 100 => db'.width = 100
      BY <2>4 DEF Follows
    <2>8. ASSUME NEW q \in Runners PROVE RunOK(run[q])'
      BY <2>6, <2>7 DEF RunOK
    <2>9. report'.at \in 0..32 /\ (Prepares => FaultsKnown')
      <3>1. CASE Stale(x)
        <4>1. report'.at = 0 /\ report'.why = "stale"
          BY <2>1, <3>1
        <4> QED BY <4>1 DEF FaultsKnown
      <3>2. CASE ~Stale(x)
        <4>1. report'.at = o.at /\ report'.why = o.why /\ report'.up = (x.to > x.from)
          BY <2>1, <3>2
        <4>2. o.at \in 0..32
          BY <2>3, <3>2 DEF Reached
        <4>3. CASE x.to > x.from
          <5>1. Prepares => o.why = "none" \/ (o.why = "exists" /\ o.at = 19)
            BY <2>2, <2>3, <3>2, <4>3 DEF UpFailure
          <5>2. report'.up
            BY <4>1, <4>3
          <5> QED BY <4>1, <4>2, <5>1, <5>2 DEF FaultsKnown
        <4>4. CASE ~(x.to > x.from)
          <5>1. \/ o.why = "none"
                \/ o.why = "refused" /\ o.at \in {10, 22, 24}
                \/ o.why = "missing" /\ o.at = 3 /\ ~found.whole
                \/ o.why = "width" /\ o.at = 12
                \/ o.why = "exists" /\ o.at = 21
            BY <2>3, <3>2, <4>4 DEF DownFailure
          <5>2. ~report'.up /\ found'.whole = found.whole
            BY <2>1, <4>1, <4>4
          <5> QED BY <4>1, <4>2, <5>1, <5>2 DEF FaultsKnown
        <4> QED BY <4>3, <4>4
      <3> QED BY <3>1, <3>2
    <2>10. ended' \in Nat
      BY <2>1
    <2> QED BY <2>4, <2>5, <2>6, <2>8, <2>9, <2>10
  <1>6. ASSUME NEW p \in Runners, Crash(p) PROVE MigrationInv' /\ Follows(db, db')
    <2>1. run' = [run EXCEPT ![p] = None] /\ ended' = ended + 1 /\ UNCHANGED <<db, report, found>>
      BY <1>6 DEF Crash
    <2>2. run' = [q \in Runners |-> run'[q]] /\ \A q \in Runners : run'[q] = None \/ run'[q] = run[q]
      BY <2>1
    <2>3. ASSUME NEW q \in Runners PROVE RunOK(run[q])'
      BY <2>1, <2>2 DEF RunOK
    <2>4. FoundOK' /\ Good(db)' /\ Follows(db, db')
      BY <2>1, GoodLater, FollowsSelf
    <2>5. FaultsKnown => FaultsKnown'
      BY <2>1 DEF FaultsKnown
    <2> QED BY <2>1, <2>2, <2>3, <2>4, <2>5
  <1>7. CASE UNCHANGED vars
    <2>1. UNCHANGED <<db, run, report, ended, found>>
      BY <1>7 DEF vars
    <2>2. FoundOK' /\ Good(db)' /\ Follows(db, db')
      BY <2>1, GoodLater, FollowsSelf
    <2>3. \A q \in Runners : RunOK(run[q])'
      BY <2>1 DEF RunOK
    <2>4. FaultsKnown => FaultsKnown'
      BY <2>1 DEF FaultsKnown
    <2> QED BY <2>1, <2>2, <2>3, <2>4
  <1> QED BY <1>1, <1>3, <1>4, <1>5, <1>6, <1>7 DEF Next

-----------------------------------------------------------------------------
(* What the invariant tells of one state.                                     *)
LEMMA SchemasNamed ==
  ASSUME NEW k \in 0..32
  PROVE  SchemaOf[k] \subseteq UNION {Chain[j].adds \cup Chain[j].fills : j \in 1..Latest}
  <1> DEFINE All == UNION {Chain[j].adds \cup Chain[j].fills : j \in 1..Latest}
             S == {j \in Nat : SchemaOf[j] \subseteq All}
  <1>1. \A j \in 1..32 : Chain[j].adds \cup Chain[j].fills \subseteq All
    BY ChainIs
  <1> HIDE DEF All
  <1>2. 0 \in S
    BY SchemaOfIs
  <1>3. ASSUME NEW i \in 1..32, i - 1 \in S PROVE i \in S
    <2>1. SchemaOf[i] = (SchemaOf[i - 1] \ Chain[i].takes) \cup Chain[i].adds \cup Chain[i].fills
      BY StepsOfSchema DEF Grown
    <2> QED BY <1>1, <1>3, <2>1
  <1> HIDE DEF S
  <1>4. 0..32 \subseteq S
    BY <1>2, <1>3, Climbing
  <1> QED BY <1>4 DEF S, All

LEMMA SchemaIsTyped == MigrationInv => TypeOK
  <1> SUFFICES ASSUME MigrationInv PROVE TypeOK
    OBVIOUS
  <1>1. SchemaInv(db) /\ Latest = 32 /\ report.at \in 0..32 /\ ended \in Nat
    BY ChainIs DEF MigrationInv, Good
  <1> DEFINE All == UNION {Chain[j].adds \cup Chain[j].fills : j \in 1..Latest}
  <1>2. SchemaOf[db.rev] \subseteq All
    BY <1>1, SchemasNamed DEF SchemaInv
  <1>3. V19.adds \subseteq All
    <2>1. Chain[19].adds \subseteq All
      BY <1>1
    <2> QED BY <2>1, ChainIs
  <1> HIDE DEF All
  <1>4. db.schema \subseteq All
    BY <1>1, <1>2, <1>3 DEF SchemaInv
  <1> QED BY <1>1, <1>4 DEF TypeOK, SchemaInv, All

LEMMA SchemaIsTrue == MigrationInv => HeadServesOrm /\ StampIsTrue
  <1> SUFFICES ASSUME MigrationInv PROVE HeadServesOrm /\ StampIsTrue
    OBVIOUS
  <1>1. SchemaInv(db) /\ Latest = 32
    BY ChainIs DEF MigrationInv, Good
  <1>2. Repaired => Holes(db.rev) = {}
    BY DEF Repaired, Holes
  <1>3. Repaired => SchemaOf[db.rev] \subseteq db.schema
    BY <1>1, <1>2 DEF SchemaInv
  <1>4. db.rev = 32 => OrmNeeds \subseteq SchemaOf[db.rev] /\ Repaired
    BY NamesDistinct DEF Repaired
  <1> QED BY <1>1, <1>3, <1>4 DEF HeadServesOrm, StampIsTrue, SchemaInv

LEMMA DealsAreKept == MigrationInv => MigratedAsKept /\ TrailEndsAtStage
  <1> SUFFICES ASSUME MigrationInv PROVE MigratedAsKept /\ TrailEndsAtStage
    OBVIOUS
  <1> DEFINE t == db.row.deal
  <1>1. DealKept(db.rev, t) /\ TrailKept(db.rev, t, db.row.trail) /\ db.rev \in 0..32
    BY DEF MigrationInv, Good, RowGood, SchemaInv
  <1> HIDE DEF t
  <1>2. t.deal # Gone => Coherent(t)
    BY <1>1 DEF DealKept
  <1>3. t.sales # Gone => t.stage = SalesToLegacy[t.sales]
    BY <1>1 DEF DealKept
  <1> QED BY <1>1, <1>2, <1>3 DEF MigratedAsKept, TrailEndsAtStage, TrailKept, t

LEMMA RowIsKept == MigrationInv => LabelRoundTrip /\ LevelMatches /\ OwnersSettled /\ ReminderIsLatest
  <1> SUFFICES ASSUME MigrationInv PROVE LabelRoundTrip /\ LevelMatches /\ OwnersSettled /\ ReminderIsLatest
    OBVIOUS
  <1>1. /\ StageKept(db.schema, db.row) /\ ScoreKept(db.row) /\ PlanKept(db.rev, db.row)
        /\ OwnerKept(db.rev, db.row.inquiry)
    BY DEF MigrationInv, Good, RowGood
  <1>2. LabelRoundTrip
    BY <1>1 DEF LabelRoundTrip, StageKept
  <1>3. LevelMatches
    BY <1>1 DEF LevelMatches, ScoreKept
  <1>4. OwnersSettled
    BY <1>1 DEF OwnersSettled, OwnerKept
  <1>5. ReminderIsLatest
    BY <1>1 DEF ReminderIsLatest, PlanKept
  <1> QED BY <1>2, <1>3, <1>4, <1>5

(* What one step keeps.                                                       *)
LEMMA StepKeeps ==
  ASSUME MigrationInv, MigrationInv', Follows(db, db')
  PROVE  KeepsPending /\ KeepsGuard /\ KeepsStages
  <1>1. db.rev \in 0..32 /\ db'.rev \in 0..32 /\ (db'.rev >= 22 => ~db'.cascade)
    BY DEF MigrationInv, Good, SchemaInv
  <1>2. KeepsPending
    BY DEF Follows, KeepsPending
  <1>3. KeepsGuard
    BY <1>1 DEF Follows, KeepsGuard
  <1> DEFINE r == db.row  n == db'.row
  <1>4. StageKept(db.schema, r) /\ DealKept(db.rev, r.deal)
    BY DEF MigrationInv, Good, RowGood
  <1>5. StageKept(db'.schema, n) /\ DealKept(db'.rev, n.deal)
    BY DEF MigrationInv, Good, RowGood, StageKept, DealKept
  <1>6. /\ n.status = r.status
        /\ db.rev >= 7 /\ db'.rev >= 7 => n.deal.stage = r.deal.stage
        /\ db.rev >= 14 /\ db'.rev >= 14 => n.deal.sales = r.deal.sales
        /\ db.rev >= 16 /\ db'.rev >= 16 => n.deal.deal = r.deal.deal
    BY DEF Follows
  <1> HIDE DEF r, n
  <1>7. r.custom # Gone /\ n.custom # Gone => n.custom = r.custom
    BY <1>4, <1>5, <1>6 DEF StageKept
  <1>8. /\ r.deal.sales # Gone => db.rev >= 14
        /\ n.deal.sales # Gone => db'.rev >= 14
        /\ r.deal.deal # Gone => db.rev >= 16
        /\ n.deal.deal # Gone => db'.rev >= 16
    <2>1. /\ db.rev < 14 => r.deal.sales = Gone
          /\ db'.rev < 14 => n.deal.sales = Gone
          /\ db.rev < 16 => r.deal.deal = Gone
          /\ db'.rev < 16 => n.deal.deal = Gone
      BY <1>4, <1>5 DEF DealKept
    <2> QED BY <1>1, <2>1
  <1>9. KeepsStages
    BY <1>6, <1>7, <1>8 DEF KeepsStages, r, n
  <1> QED BY <1>2, <1>3, <1>9

-----------------------------------------------------------------------------
LEMMA DeskStep == [DeskNext]_deskVars => [Next]_vars
  BY DEF DeskNext, deskVars

(* The invariant of every behaviour of the desk, whatever it starts from.     *)
THEOREM DatabaseStaysGood == DeskSpec => []MigrationInv
  <1>1. MigrationInv /\ [DeskNext]_deskVars => MigrationInv'
    BY DeskStep, DeskMoves
  <1> QED BY <1>1, DeskStarts, PTL DEF DeskSpec

(* Upgrades and rollbacks in any order leave rows the program itself would    *)
(* have written, rewrite no stage and lose no pending amount.                 *)
THEOREM RowsAlwaysKept == DeskSpec => DataKept
  <1>1. MigrationInv => MigratedAsKept /\ TrailEndsAtStage
    BY DealsAreKept
  <1>2. MigrationInv => LabelRoundTrip /\ LevelMatches /\ OwnersSettled /\ ReminderIsLatest
    BY RowIsKept
  <1>3. MigrationInv /\ MigrationInv' /\ [DeskNext]_deskVars => [KeepsPending /\ KeepsStages]_vars
    <2> SUFFICES ASSUME MigrationInv, MigrationInv', [DeskNext]_deskVars PROVE KeepsPending /\ KeepsStages
      OBVIOUS
    <2>1. Follows(db, db')
      BY DeskStep, DeskMoves
    <2> QED BY <2>1, StepKeeps
  <1>4. [KeepsPending /\ KeepsStages]_vars => [KeepsPending]_vars /\ [KeepsStages]_vars
    OBVIOUS
  <1> QED BY <1>1, <1>2, <1>3, <1>4, DatabaseStaysGood, PTL DEF DeskSpec, DataKept, StagesKept, PendingStaysPending

(* With ensure_alembic_version.py before each upgrade a run leaves the schema *)
(* the ORM and the stamp say, keeps the histories guarded and fails only for  *)
(* the known reasons.                                                         *)
THEOREM SchemaAlwaysServes == Prepares => (DeskSpec => SchemaServes)
  <1> SUFFICES ASSUME Prepares PROVE DeskSpec => SchemaServes
    OBVIOUS
  <1>1. MigrationInv => TypeOK
    BY SchemaIsTyped
  <1>2. MigrationInv => HeadServesOrm /\ StampIsTrue
    BY SchemaIsTrue
  <1>3. MigrationInv => FaultsKnown
    BY DEF MigrationInv
  <1>4. MigrationInv /\ MigrationInv' /\ [DeskNext]_deskVars => [KeepsGuard]_vars
    <2> SUFFICES ASSUME MigrationInv, MigrationInv', [DeskNext]_deskVars PROVE KeepsGuard
      OBVIOUS
    <2>1. Follows(db, db')
      BY DeskStep, DeskMoves
    <2> QED BY <2>1, StepKeeps
  <1> QED BY <1>1, <1>2, <1>3, <1>4, DatabaseStaysGood, PTL DEF DeskSpec, SchemaServes, HistoryGuarded
=============================================================================
