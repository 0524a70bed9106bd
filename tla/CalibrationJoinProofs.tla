------------------------- MODULE CalibrationJoinProofs -------------------------
(***************************************************************************)
(* Proofs that the calibration commands, whatever their input files hold,        *)
(* overwrite nothing and leave whole reports, also when both write to one        *)
(* destination; and that the edits they report lie apart in both texts, in       *)
(* order, so that an exact relation of a case and an edit is one change, that   *)
(* they make the final transcript of the raw one and keep as much of it as any    *)
(* edits could, and that the summary counts each of them, each case and each      *)
(* ambiguous component once.                                                 *)
(***************************************************************************)
EXTENDS CalibrationJoin, TermDetectionProofs

Early == {"start", "parse", "report", "create"}
Held == {"write", "remove"}
Written == {"announce", "ok"}

(* A command owns what is at its destination from when it creates the file until it   *)
(* gives the file up: a part of its report, then the whole of it.                  *)
HeldParts == \A c \in Commands : phase[c] \in Held => disk[destination[c]] = Part(c)
WrittenReports == \A c \in Commands : phase[c] \in Written => disk[destination[c]] = Report(c)
NothingEarly ==
    \A c \in Commands : phase[c] \in Early => \A p \in Paths : disk[p] \notin {Report(c), Part(c)}

JoinInv ==
    /\ destination \in [Commands -> Paths]
    /\ DOMAIN disk = Paths
    /\ DOMAIN phase = Commands
    /\ HeldParts
    /\ WrittenReports
    /\ NothingEarly

-----------------------------------------------------------------------------
(* What is on disk tells who wrote it and how much of it (Report, Part).           *)
LEMMA Distinct ==
    ASSUME NEW c \in Commands, NEW d \in Commands
    PROVE  /\ {None, Input, Other} \cap {Report(c), Part(c)} = {}
           /\ None \notin {Input, Other}
           /\ Report(c) # Part(d)
           /\ c # d => Report(c) # Report(d) /\ Part(c) # Part(d)
<1>1. Report(c) \in Commands \X {"whole", "part"} /\ Part(c) \in Commands \X {"whole", "part"}
  BY DEF Report, Part
<1>2. {None, Input, Other} \cap {Report(c), Part(c)} = {} /\ None \notin {Input, Other}
  BY <1>1, ContentsAssumption
<1>3. Report(c) # Part(d) /\ (c # d => Report(c) # Report(d) /\ Part(c) # Part(d))
  BY DEF Report, Part
<1> QED  BY <1>2, <1>3

(* Nothing is of a command before one starts. *)
LEMMA JoinInit == Init => JoinInv
<1> SUFFICES ASSUME Init PROVE JoinInv
  OBVIOUS
<1>1. PICK out \in {None, Other} : disk = [p \in Paths |-> IF p = "out" THEN out ELSE Input]
  BY DEF Init
<1>2. destination \in [Commands -> Paths] /\ DOMAIN disk = Paths /\ DOMAIN phase = Commands
  BY <1>1 DEF Init, Paths
<1>3. HeldParts /\ WrittenReports
  BY DEF Init, HeldParts, WrittenReports, Held, Written
<1>4. NothingEarly
  <2> SUFFICES ASSUME NEW c \in Commands, NEW p \in Paths PROVE disk[p] \notin {Report(c), Part(c)}
    BY DEF NothingEarly
  <2> QED  BY <1>1, Distinct
<1> QED  BY <1>2, <1>3, <1>4 DEF JoinInv

(* A command that goes on without touching the disk, and comes to own nothing by it   *)
(* (run_compare_from_args, run_evaluate_from_args).                              *)
LEMMA DiskUntouched ==
    ASSUME JoinInv, NEW c \in Commands, NEW next,
           Proceed(c, next), UNCHANGED <<destination, disk>>,
           \/ phase[c] \in Early /\ next \in Early \cup {"error"}
           \/ phase[c] = "write" /\ next = "remove"
           \/ phase[c] = "announce" /\ next \in {"ok", "error"}
    PROVE  JoinInv'
<1>1. phase' = [phase EXCEPT ![c] = next]
  BY DEF Proceed
<1>2. \A d \in Commands : phase'[d] = IF d = c THEN next ELSE phase[d]
  BY <1>1 DEF JoinInv
<1>3. (destination \in [Commands -> Paths] /\ DOMAIN disk = Paths /\ DOMAIN phase = Commands)'
  BY <1>1 DEF JoinInv
<1>4. HeldParts'
  BY <1>2 DEF JoinInv, HeldParts, Held, Early
<1>5. WrittenReports'
  BY <1>2 DEF JoinInv, WrittenReports, Written, Early
<1>6. NothingEarly'
  BY <1>2 DEF JoinInv, NothingEarly, Early
<1> QED  BY <1>3, <1>4, <1>5, <1>6 DEF JoinInv

(* A command that changes the file at its destination: from none to a part, or from a   *)
(* part of its own to the whole or to none (write_comparison_report_exclusive).     *)
LEMMA DiskChanged ==
    ASSUME JoinInv, NEW c \in Commands, NEW next, NEW file,
           Proceed(c, next), UNCHANGED destination,
           disk' = [disk EXCEPT ![destination[c]] = file],
           \/ phase[c] = "create" /\ disk[destination[c]] = None /\ file = Part(c) /\ next = "write"
           \/ phase[c] = "write" /\ file = Report(c) /\ next = "announce"
           \/ phase[c] = "remove" /\ file = None /\ next = "error"
    PROVE  JoinInv' /\ disk[destination[c]] \in {None, Part(c)}
<1>0. destination[c] \in Paths
  BY DEF JoinInv
<1>1. \A d \in Commands : phase'[d] = IF d = c THEN next ELSE phase[d]
  BY DEF JoinInv, Proceed
<1>2. \A p \in Paths : disk'[p] = IF p = destination[c] THEN file ELSE disk[p]
  BY DEF JoinInv
<1>3. (destination \in [Commands -> Paths] /\ DOMAIN disk = Paths /\ DOMAIN phase = Commands)'
  BY DEF JoinInv, Proceed
<1>4. disk[destination[c]] \in {None, Part(c)}
  BY DEF JoinInv, HeldParts, Held
<1>5. \A d \in Commands : d # c /\ phase[d] \in Held \cup Written => destination[d] # destination[c]
  <2> SUFFICES ASSUME NEW d \in Commands, d # c, phase[d] \in Held \cup Written,
                      destination[d] = destination[c]
               PROVE  FALSE
    OBVIOUS
  <2>1. disk[destination[c]] \in {Part(d), Report(d)}
    BY DEF JoinInv, HeldParts, WrittenReports
  <2> QED  BY <2>1, <1>4, Distinct
<1>6. HeldParts'
  <2> SUFFICES ASSUME NEW d \in Commands, phase'[d] \in Held
      PROVE disk'[destination[d]] = Part(d)
    BY DEF HeldParts
  <2>1. CASE d = c
    BY <2>1, <1>0, <1>1, <1>2 DEF Held
  <2>2. CASE d # c
    BY <2>2, <1>1, <1>2, <1>5 DEF JoinInv, HeldParts
  <2> QED  BY <2>1, <2>2
<1>7. WrittenReports'
  <2> SUFFICES ASSUME NEW d \in Commands, phase'[d] \in Written
      PROVE disk'[destination[d]] = Report(d)
    BY DEF WrittenReports
  <2>1. CASE d = c
    BY <2>1, <1>0, <1>1, <1>2 DEF Written
  <2>2. CASE d # c
    BY <2>2, <1>1, <1>2, <1>5 DEF JoinInv, WrittenReports
  <2> QED  BY <2>1, <2>2
<1>8. NothingEarly'
  <2> SUFFICES ASSUME NEW d \in Commands, phase'[d] \in Early, NEW p \in Paths
      PROVE disk'[p] \notin {Report(d), Part(d)}
    BY DEF NothingEarly
  <2>1. d # c /\ phase[d] \in Early
    BY <1>1 DEF Early
  <2>2. file \notin {Report(d), Part(d)}
    BY <2>1, Distinct
  <2> QED  BY <2>1, <2>2, <1>2 DEF JoinInv, NothingEarly
<1> QED  BY <1>3, <1>4, <1>6, <1>7, <1>8 DEF JoinInv

(* What a step may do to the disk: nothing, or what DiskChanged allows             *)
LEMMA JoinStep ==
    ASSUME JoinInv, Next
    PROVE  /\ JoinInv'
           /\ \/ UNCHANGED disk
              \/ \E c \in Commands : \E file :
                     /\ disk' = [disk EXCEPT ![destination[c]] = file]
                     /\ disk[destination[c]] \in {None, Part(c)}
<1> PICK c \in Commands :
        Start(c) \/ Parse(c) \/ Build(c) \/ Create(c) \/ Write(c) \/ RemovePart(c) \/ Announce(c)
  BY DEF Next
<1>1. CASE Start(c)
  BY <1>1, DiskUntouched DEF Start, Early
<1>2. CASE Parse(c)
  BY <1>2, DiskUntouched DEF Parse, Early
<1>3. CASE Build(c)
  <2>1. UNCHANGED <<destination, disk>> /\ phase[c] = "report"
        /\ (Proceed(c, "create") \/ Proceed(c, "error"))
    BY <1>3 DEF Build
  <2> QED  BY <2>1, DiskUntouched DEF Early
<1>4. CASE Create(c)
  <2>1. CASE Proceed(c, "error") /\ UNCHANGED disk
    BY <1>4, <2>1, DiskUntouched DEF Create, Early
  <2>2. CASE /\ disk[destination[c]] = None
             /\ disk' = [disk EXCEPT ![destination[c]] = Part(c)]
             /\ Proceed(c, "write")
    BY <1>4, <2>2, DiskChanged DEF Create
  <2> QED  BY <1>4, <2>1, <2>2 DEF Create
<1>5. CASE Write(c)
  <2>1. CASE Proceed(c, "remove") /\ UNCHANGED disk
    BY <1>5, <2>1, DiskUntouched DEF Write
  <2>2. CASE disk' = [disk EXCEPT ![destination[c]] = Report(c)] /\ Proceed(c, "announce")
    BY <1>5, <2>2, DiskChanged DEF Write
  <2> QED  BY <1>5, <2>1, <2>2 DEF Write
<1>6. CASE RemovePart(c)
  <2>1. CASE UNCHANGED disk
    BY <1>6, <2>1 DEF RemovePart, Proceed, JoinInv, HeldParts, WrittenReports, NothingEarly,
                     Held, Written, Early
  <2>2. CASE disk' = [disk EXCEPT ![destination[c]] = None]
    BY <1>6, <2>2, DiskChanged DEF RemovePart
  <2> QED  BY <1>6, <2>1, <2>2 DEF RemovePart
<1>7. CASE Announce(c)
  BY <1>7, DiskUntouched DEF Announce
<1> QED  BY <1>1, <1>2, <1>3, <1>4, <1>5, <1>6, <1>7

(* A step that changes nothing keeps the invariant.                          *)
LEMMA JoinStutter ==
    ASSUME JoinInv, UNCHANGED vars PROVE JoinInv'
BY DEF JoinInv, vars, HeldParts, WrittenReports, NothingEarly

(* The invariant holds.                                                      *)
LEMMA JoinInvariant == Spec => []JoinInv
<1>1. JoinInv /\ [Next]_vars => JoinInv'
  BY JoinStep, JoinStutter
<1> QED  BY JoinInit, <1>1, PTL DEF Spec

-----------------------------------------------------------------------------
(* A command that says it is done left its whole report, and nothing of a command is   *)
(* on disk before it created its file, for all input files, and also when the two     *)
(* write to one destination (write_comparison_report_exclusive).                   *)
THEOREM WholeReports == Spec => []ReportsAreWhole
<1>1. JoinInv => ReportsAreWhole
  BY DEF JoinInv, WrittenReports, NothingEarly, Written, Early, ReportsAreWhole
<1> QED  BY <1>1, JoinInvariant, PTL

(* No step of a command changes an input, a file of somebody else or a whole report, of   *)
(* either command: it creates where nothing is, and writes or removes only the part it    *)
(* created itself (write_evaluation_report_exclusive).                             *)
THEOREM NothingIsOverwritten == Spec => NothingOverwritten
<1> DEFINE Leaves ==
        \A p \in Paths : disk[p] \in {Input, Other} \cup {Report(c) : c \in Commands}
            => disk'[p] = disk[p]
<1>1. ASSUME JoinInv, [Next]_vars PROVE [Leaves]_vars
  <2>1. CASE UNCHANGED vars
    BY <2>1
  <2>2. CASE UNCHANGED disk
    BY <2>2
  <2>3. CASE Next /\ ~UNCHANGED disk
    <3>1. PICK c \in Commands : \E file : /\ disk' = [disk EXCEPT ![destination[c]] = file]
                                          /\ disk[destination[c]] \in {None, Part(c)}
      BY <1>1, <2>3, JoinStep
    <3>2. disk[destination[c]] \notin {Input, Other} \cup {Report(d) : d \in Commands}
      BY <3>1, Distinct
    <3>3. \A p \in Paths : p # destination[c] => disk'[p] = disk[p]
      BY <1>1, <3>1 DEF JoinInv
    <3> QED  BY <3>2, <3>3
  <2> QED  BY <1>1, <2>1, <2>2, <2>3
<1> QED  BY <1>1, JoinInvariant, PTL DEF Spec, NothingOverwritten

-----------------------------------------------------------------------------
(***************************************************************************)
(* The rows of the divide and conquer                                        *)
(***************************************************************************)
(***************************************************************************)
(* The lengths of common subsequences                                         *)
(***************************************************************************)
LcsCell(previous, left, b, last, j) ==
    IF b[j] = left THEN previous[j] + 1 ELSE Longer(previous[j + 1], last)

(* The first cells of a row that follows another *)
LcsCells(previous, left, b, k) ==
    {v \in Seq(Nat) : /\ Len(v) = k + 1 /\ v[1] = 0
                      /\ \A j \in 1..k : v[j + 1] = LcsCell(previous, left, b, v[j], j)}

(* A row is as long as the text and one more, and its cells are those. *)
LEMMA LcsNextIs ==
    ASSUME NEW m \in Nat, NEW b, DOMAIN b = 1..m,
           NEW previous \in Seq(Nat), Len(previous) = m + 1, NEW left
    PROVE  LcsNext(previous, left, b) \in LcsCells(previous, left, b, m)
<1> DEFINE V == Seq(Nat) \ {<<>>}
           base == <<0>>
           at == [j \in DOMAIN b |-> j]
           D == DOMAIN at
           Is(iter) == iter = [s \in SUBSET D |-> IF s = {} THEN base
                                   ELSE LET i == Max(s) IN Append(iter[s \ {i}], LcsCell(previous, left, b, Last(iter[s \ {i}]), at[i]))]
<1>0. LcsNext(previous, left, b) = (CHOOSE iter : Is(iter))[D]
  BY Zenon DEF LcsNext, FoldLeft, MapThenFoldSet, LcsCell
<1>1. D = 1..m /\ \A i \in 1..m : at[i] = i
  OBVIOUS
<1>2. ASSUME NEW row \in V, NEW j \in 1..m
      PROVE  Append(row, LcsCell(previous, left, b, Last(row), j)) \in V
  <2>1. PICK last \in Nat : last = Last(row)
    BY DEF Last
  <2>2. previous[j] \in Nat /\ previous[j + 1] \in Nat
    <3>1. j \in 1..(m + 1) /\ j + 1 \in 1..(m + 1)
      OBVIOUS
    <3> QED  BY <3>1, SMTT(30)
  <2>3. PICK x \in Nat : x = LcsCell(previous, left, b, Last(row), j)
    BY <2>1, <2>2, SMTT(30) DEF LcsCell, Longer
  <2>4. row \in Seq(Nat)
    OBVIOUS
  <2>5. Append(row, x) \in Seq(Nat) /\ Append(row, x) # <<>>
    BY <2>4, Appended
  <2> QED  BY <2>3, <2>5
<1>3. base \in V
  OBVIOUS
<1> DEFINE pick == [s \in SUBSET (1..m) |-> Max(s)]
           step == [j \in 1..m |-> [row \in V |-> Append(row, LcsCell(previous, left, b, Last(row), j))]]
<1>4. PICK h \in [SUBSET (1..m) -> V] : IsFold(h, 1..m, pick, base, step)
  <2>1. \A s \in SUBSET (1..m) : s # {} => pick[s] \in s
    BY Extremes
  <2>2. \A j \in 1..m : step[j] \in [V -> V]
    BY <1>2
  <2>3. IsFiniteSet(1..m)
    BY Extremes
  <2> HIDE DEF V, base, pick, step
  <2>4. Foldable(1..m, V, pick, base, step)
    BY <1>3, <2>1, <2>2, <2>3 DEF Foldable
  <2> QED  BY <2>4, FoldExists
<1>5. Is(h)
  <2>1. ASSUME NEW s \in SUBSET (1..m), s # {}, NEW i, i = Max(s)
        PROVE  h[s] = Append(h[s \ {i}], LcsCell(previous, left, b, Last(h[s \ {i}]), at[i]))
    <3>1. i \in 1..m /\ i = pick[s] /\ at[i] = i /\ h[s \ {i}] \in V
      BY <1>1, <2>1, Extremes
    <3>2. h[s] = step[i][h[s \ {i}]]
      BY <1>4, <2>1, <3>1 DEF IsFold
    <3>3. PICK v \in V : v = h[s \ {i}]
      BY <3>1
    <3>4. step[i][v] = Append(v, LcsCell(previous, left, b, Last(v), i))
      BY <3>1
    <3> HIDE DEF step, V, at
    <3> QED  BY <3>1, <3>2, <3>3, <3>4
  <2>2. h[{}] = base
    BY <1>4 DEF IsFold
  <2>3. h = [s \in SUBSET (1..m) |-> h[s]]
    OBVIOUS
  <2> HIDE DEF at, D, base
  <2> QED  BY <1>1, <2>1, <2>2, <2>3
<1>6. PICK c : LcsNext(previous, left, b) = c[1..m] /\ Is(c)
  <2> HIDE DEF D, Is
  <2> QED  BY <1>0, <1>1, <1>5, Zenon
<1>7. c[1..0] = base
  <2>1. 1..0 = {} /\ {} \in SUBSET D
    OBVIOUS
  <2> HIDE DEF base, at, D
  <2> QED  BY <1>6, <2>1
<1>8. ASSUME NEW k \in 1..m
      PROVE  c[1..k] = Append(c[1..(k - 1)], LcsCell(previous, left, b, Last(c[1..(k - 1)]), k))
  <2>1. Max(1..k) = k /\ (1..k) \ {k} = 1..(k - 1)
    BY Extremes
  <2>2. k \in 1..k /\ \A i \in 1..k : i \in 1..m
    OBVIOUS
  <2>3. 1..k \in SUBSET D /\ at[k] = k
    BY <1>1, <2>2
  <2> HIDE DEF base, at, D
  <2>4. PICK s \in SUBSET D : s = 1..k
    BY <2>3
  <2>5. s # {} /\ Max(s) = k /\ s \ {k} = 1..(k - 1)
    BY <2>1, <2>2, <2>4
  <2>6. c[s] = Append(c[s \ {k}], LcsCell(previous, left, b, Last(c[s \ {k}]), at[k]))
    BY <1>6, <2>5
  <2> QED  BY <2>3, <2>4, <2>5, <2>6
<1> DEFINE W == [k \in 0..m |-> LcsCells(previous, left, b, k)]
<1>9. c[1..0] \in W[0]
  BY <1>3, <1>7 DEF LcsCells
<1>10. ASSUME NEW k \in 1..m, c[1..(k - 1)] \in W[k - 1] PROVE c[1..k] \in W[k]
  <2>1. PICK v \in LcsCells(previous, left, b, k - 1) : v = c[1..(k - 1)]
    BY <1>10
  <2>2. v \in Seq(Nat) /\ Len(v) = k /\ v[1] = 0 /\ v \in V
    BY <2>1 DEF LcsCells
  <2>3. Last(v) = v[k]
    BY <2>2 DEF Last
  <2>4. PICK u : u = c[1..k] /\ u = Append(v, LcsCell(previous, left, b, v[k], k)) /\ u \in V
    BY <1>2, <1>8, <2>1, <2>2, <2>3
  <2>5. Len(u) = k + 1 /\ u \in Seq(Nat) /\ u[k + 1] = LcsCell(previous, left, b, v[k], k)
        /\ \A j \in 1..k : u[j] = v[j]
    BY <2>2, <2>4
  <2>6. ASSUME NEW j \in 1..k PROVE u[j + 1] = LcsCell(previous, left, b, u[j], j)
    <3>1. CASE j = k
      BY <2>5, <3>1
    <3>2. CASE j # k
      <4>1. j \in 1..(k - 1) /\ j + 1 \in 1..k
        BY <3>2
      <4>2. v[j + 1] = LcsCell(previous, left, b, v[j], j)
        BY <2>1, <4>1 DEF LcsCells
      <4> QED  BY <2>5, <4>1, <4>2
    <3> QED  BY <3>1, <3>2
  <2>7. u \in LcsCells(previous, left, b, k)
    BY <2>2, <2>5, <2>6 DEF LcsCells
  <2> QED  BY <2>4, <2>7
<1>11. c[1..m] \in W[m]
  <2> HIDE DEF W
  <2>1. m \in 0..m
    OBVIOUS
  <2> QED  BY <1>9, <1>10, <2>1, PrefixFold
<1>12. LcsNext(previous, left, b) \in W[m]
  BY <1>6, <1>11
<1> QED  BY <1>12

Rows(m) == {v \in Seq(Nat) : Len(v) = m + 1}

(* The rows of a text, one after each of its characters *)
RowsOf(rows, a, b, n, m) ==
    /\ rows[0] = [j \in 1..(m + 1) |-> 0]
    /\ \A i \in 0..n : rows[i] \in Rows(m)
    /\ \A i \in 1..n : rows[i] = LcsNext(rows[i - 1], a[i], b)

(* The last of them is what is computed. *)
LEMMA LcsRowIs ==
    ASSUME NEW n \in Nat, NEW a, DOMAIN a = 1..n,
           NEW m \in Nat, NEW b, DOMAIN b = 1..m, m = Len(b)
    PROVE  \E rows : RowsOf(rows, a, b, n, m) /\ LcsRow(a, b) = rows[n]
<1> DEFINE V == Rows(m)
           base == [j \in 1..(Len(b) + 1) |-> 0]
           D == DOMAIN a
           Is(iter) == iter = [s \in SUBSET D |-> IF s = {} THEN base
                                   ELSE LET i == Max(s) IN LcsNext(iter[s \ {i}], a[i], b)]
           pick == [s \in SUBSET (1..n) |-> Max(s)]
           step == [i \in 1..n |-> [v \in V |-> LcsNext(v, a[i], b)]]
<1>1. LcsRow(a, b) = (CHOOSE iter : Is(iter))[D]
  BY Zenon DEF LcsRow, FoldLeft, MapThenFoldSet
<1>2. base \in V /\ base = [j \in 1..(m + 1) |-> 0]
  <2>1. base \in [1..(m + 1) -> Nat] /\ m + 1 \in Nat
    OBVIOUS
  <2> QED  BY <2>1 DEF Rows
<1>3. ASSUME NEW v \in V, NEW i \in 1..n PROVE LcsNext(v, a[i], b) \in V
  BY LcsNextIs DEF LcsCells, Rows
<1>4. PICK h \in [SUBSET (1..n) -> V] : IsFold(h, 1..n, pick, base, step)
  <2>1. \A s \in SUBSET (1..n) : s # {} => pick[s] \in s
    BY Extremes
  <2>2. \A i \in 1..n : step[i] \in [V -> V]
    BY <1>3
  <2>3. IsFiniteSet(1..n)
    BY Extremes
  <2> HIDE DEF V, base, pick, step
  <2>4. Foldable(1..n, V, pick, base, step)
    BY <1>2, <2>1, <2>2, <2>3 DEF Foldable
  <2> QED  BY <2>4, FoldExists
<1>5. Is(h)
  <2>1. ASSUME NEW s \in SUBSET (1..n), s # {}, NEW i, i = Max(s)
        PROVE  h[s] = LcsNext(h[s \ {i}], a[i], b)
    <3>1. i \in 1..n /\ i = pick[s] /\ h[s \ {i}] \in V
      BY <2>1, Extremes
    <3>2. h[s] = step[i][h[s \ {i}]]
      BY <1>4, <2>1, <3>1 DEF IsFold
    <3>3. PICK v \in V : v = h[s \ {i}]
      BY <3>1
    <3>4. step[i][v] = LcsNext(v, a[i], b)
      BY <3>1
    <3> HIDE DEF step, V
    <3> QED  BY <3>1, <3>2, <3>3, <3>4
  <2>2. h[{}] = base
    BY <1>4 DEF IsFold
  <2>3. h = [s \in SUBSET (1..n) |-> h[s]]
    OBVIOUS
  <2> HIDE DEF base
  <2> QED  BY <2>1, <2>2, <2>3
<1>6. PICK c : LcsRow(a, b) = c[1..n] /\ Is(c)
  <2>1. D = 1..n
    OBVIOUS
  <2> HIDE DEF D, Is
  <2> QED  BY <1>1, <1>5, <2>1, Zenon
<1> DEFINE rows == [k \in 0..n |-> c[1..k]]
           W == [k \in 0..n |-> V]
<1>7. c[1..0] = base
  <2>1. 1..0 = {} /\ {} \in SUBSET D
    OBVIOUS
  <2> HIDE DEF base, V
  <2> QED  BY <1>2, <1>6, <2>1
<1>8. ASSUME NEW k \in 1..n PROVE c[1..k] = LcsNext(c[1..(k - 1)], a[k], b)
  <2>1. Max(1..k) = k /\ (1..k) \ {k} = 1..(k - 1)
    BY Extremes
  <2>2. k \in 1..k /\ \A i \in 1..k : i \in 1..n
    OBVIOUS
  <2> HIDE DEF base, V
  <2> QED  BY <1>6, <2>1, <2>2
<1>9. \A k \in 0..n : c[1..k] \in V
  <2>1. \A k \in 0..n : W[k] = V
    OBVIOUS
  <2>2. ASSUME NEW k \in 1..n, c[1..(k - 1)] \in W[k - 1] PROVE c[1..k] \in W[k]
    <3>1. W[k - 1] = V /\ W[k] = V
      BY <2>1
    <3> HIDE DEF W, V
    <3> QED  BY <1>3, <1>8, <2>2, <3>1
  <2>3. c[1..0] \in W[0]
    <3>1. 0 \in 0..n
      OBVIOUS
    <3> HIDE DEF V, base, W
    <3> QED  BY <1>2, <1>7, <2>1, <3>1
  <2> HIDE DEF W
  <2>4. \A k \in 0..n : c[1..k] \in W[k]
    BY <2>2, <2>3, PrefixFold
  <2> HIDE DEF V
  <2> QED  BY <2>1, <2>4
<1>10. \A k \in 0..n : rows[k] = c[1..k]
  OBVIOUS
<1>11. 0 \in 0..n /\ n \in 0..n /\ \A i \in 1..n : i \in 0..n /\ i - 1 \in 0..n
  OBVIOUS
<1>12. RowsOf(rows, a, b, n, m)
  <2> HIDE DEF rows, base
  <2> QED  BY <1>2, <1>7, <1>8, <1>9, <1>10, <1>11 DEF RowsOf
<1>13. LcsRow(a, b) = rows[n]
  <2> HIDE DEF rows
  <2> QED  BY <1>6, <1>10, <1>11
<1> QED  BY <1>12, <1>13

-----------------------------------------------------------------------------
(***************************************************************************)
(* Texts and their halves                                                    *)
(***************************************************************************)
Score(forward, backward, n, k) == forward[k + 1] + backward[n - k + 1]

(* Of some places the least of those with the best score *)
BestOf(forward, backward, n, i, k) ==
    \A other \in 0..i : \/ Score(forward, backward, n, other) < Score(forward, backward, n, k)
                        \/ Score(forward, backward, n, other) = Score(forward, backward, n, k) /\ k <= other

(* The cut is the least of the best places. *)
LEMMA BestCutIs ==
    ASSUME NEW n \in Nat, NEW forward \in Rows(n), NEW backward \in Rows(n)
    PROVE  /\ BestCut(forward, backward, n) \in 0..n
           /\ BestOf(forward, backward, n, n, BestCut(forward, backward, n))
<1> DEFINE sum == [k \in 0..n |-> Score(forward, backward, n, k)]
           G == {i \in Nat : i <= n => \E k \in 0..i : \A other \in 0..i :
                     sum[other] < sum[k] \/ (sum[other] = sum[k] /\ k <= other)}
<1>1. ASSUME NEW k \in 0..n PROVE sum[k] = Score(forward, backward, n, k) /\ sum[k] \in Nat
  <2>1. k + 1 \in 1..(n + 1) /\ n - k + 1 \in 1..(n + 1)
    OBVIOUS
  <2>2. forward[k + 1] \in Nat /\ backward[n - k + 1] \in Nat
    BY <2>1 DEF Rows
  <2> QED  BY <2>2 DEF Score
<1> HIDE DEF sum
<1>2. 0 \in G
  <2>1. 0 \in 0..0 /\ \A other \in 0..0 : other = 0
    OBVIOUS
  <2>2. sum[0] \in Nat
    BY <1>1
  <2> QED  BY <2>1, <2>2
<1>3. ASSUME NEW i \in Nat, i \in G PROVE i + 1 \in G
  <2> SUFFICES ASSUME i + 1 <= n
               PROVE  \E k \in 0..(i + 1) : \A other \in 0..(i + 1) :
                          sum[other] < sum[k] \/ (sum[other] = sum[k] /\ k <= other)
    OBVIOUS
  <2>1. PICK k \in 0..i : \A other \in 0..i : sum[other] < sum[k] \/ (sum[other] = sum[k] /\ k <= other)
    BY <1>3
  <2>2. \A other \in 0..(i + 1) : other \in 0..i \/ other = i + 1
    OBVIOUS
  <2>3. \A other \in 0..(i + 1) : sum[other] \in Nat
    BY <1>1
  <2>4. k \in 0..(i + 1) /\ i + 1 \in 0..(i + 1)
    OBVIOUS
  <2>5. CASE sum[i + 1] > sum[k]
    BY <2>1, <2>2, <2>3, <2>4, <2>5
  <2>6. CASE ~(sum[i + 1] > sum[k])
    <3>1. ASSUME NEW other \in 0..(i + 1)
          PROVE  sum[other] < sum[k] \/ (sum[other] = sum[k] /\ k <= other)
      <4>1. CASE other \in 0..i
        BY <2>1, <4>1
      <4>2. CASE other = i + 1
        BY <2>3, <2>4, <2>6, <4>2
      <4> QED  BY <2>2, <4>1, <4>2
    <3> QED  BY <2>4, <3>1
  <2> QED  BY <2>5, <2>6
<1>4. n \in G
  <2> HIDE DEF G
  <2> QED  BY <1>2, <1>3, NatSet
<1>5. \E k \in 0..n : BestOf(forward, backward, n, n, k)
  <2>1. PICK k \in 0..n : \A other \in 0..n : sum[other] < sum[k] \/ (sum[other] = sum[k] /\ k <= other)
    BY <1>4
  <2> QED  BY <1>1, <2>1 DEF BestOf
<1>6. BestCut(forward, backward, n) = CHOOSE k \in 0..n : BestOf(forward, backward, n, n, k)
  BY Zenon DEF BestCut, BestOf, Score
<1> QED  BY <1>5, <1>6, Zenon

(* A text of characters, and the texts that are compared *)
Chars == Seq(Seq(Byte))
Pair == Chars \X Chars

Middle(t) == Len(t[1]) \div 2
LeftPart(t) == SubSeq(t[1], 1, Middle(t))
RightPart(t) == SubSeq(t[1], Middle(t) + 1, Len(t[1]))
CutOf(t) == Split(LeftPart(t), RightPart(t), t[2])
LeftHalf(t) == <<LeftPart(t), SubSeq(t[2], 1, CutOf(t))>>
RightHalf(t) == <<RightPart(t), SubSeq(t[2], CutOf(t) + 1, Len(t[2]))>>

Divided(t) == t[1] # <<>> /\ t[2] # <<>> /\ Len(t[1]) > 1
HitsOf(t) == {j \in DOMAIN t[2] : t[2][j] = t[1][1]}
OneMatch(t) ==
    IF t[1] = <<>> \/ t[2] = <<>> \/ HitsOf(t) = {} THEN <<>>
    ELSE <<<<1, CHOOSE j \in HitsOf(t) : \A k \in HitsOf(t) : j <= k>>>>

(* Some of the characters, d of them, after others *)
IsPart(u, s, skip, d) ==
    /\ u \in Chars /\ Len(u) = d /\ DOMAIN u = 1..d
    /\ \A i \in 1..d : u[i] = s[skip + i]

(* A part of a text of characters is one.                                    *)
LEMMA PartOfChars ==
    ASSUME NEW s \in Chars, NEW skip \in Nat, NEW last \in Nat, last <= Len(s), NEW d \in Nat, d = last - skip,
           NEW u, u = SubSeq(s, skip + 1, last)
    PROVE  IsPart(u, s, skip, d)
<1>1. PICK first \in Int : first = skip + 1
  OBVIOUS
<1>2. Len(s) \in Nat /\ last \in Int
  BY LenProperties DEF Chars
<1>3. \A i \in first..last : s[i] \in Seq(Byte)
  <2>1. \A i \in first..last : i \in 1..Len(s)
    BY <1>1, <1>2
  <2> QED  BY <2>1 DEF Chars
<1>4. /\ u \in Seq(Seq(Byte))
      /\ Len(u) = IF first <= last THEN last - first + 1 ELSE 0
      /\ \A i \in 1..(last - first + 1) : u[i] = s[first + i - 1]
  BY <1>1, <1>2, <1>3, SubSeqProperties
<1>5. last - first + 1 = d /\ (first <= last <=> d > 0) /\ \A i \in Int : first + i - 1 = skip + i
  BY <1>1
<1>6. Len(u) = d
  BY <1>4, <1>5
<1>7. ASSUME NEW i \in 1..d PROVE u[i] = s[skip + i]
  <2>1. u[i] = s[first + i - 1]
    BY <1>4, <1>5
  <2>2. i \in Int /\ first + i - 1 = skip + i
    BY <1>5
  <2> QED  BY <2>1, <2>2, Zenon
<1> QED  BY <1>4, <1>6, <1>7, LenProperties DEF Chars, IsPart

(* Backwards it is as long. *)
LEMMA BackwardsIs ==
    ASSUME NEW s \in Chars, NEW n \in Nat, n = Len(s)
    PROVE  /\ DOMAIN Reverse(s) = 1..n /\ Len(Reverse(s)) = n
           /\ \A i \in 1..n : Reverse(s)[i] = s[n - i + 1]
<1>1. Reverse(s) = [i \in 1..n |-> s[(n - i) + 1]]
  BY DEF Reverse
<1> QED  BY <1>1

(* The two rows that are compared where b is cut *)
LEMMA SplitRows ==
    ASSUME NEW left \in Chars, NEW right \in Chars, NEW b \in Chars, NEW n \in Nat, n = Len(b)
    PROVE  /\ LcsRow(left, b) \in Rows(n) /\ LcsRow(Reverse(right), Reverse(b)) \in Rows(n)
           /\ Split(left, right, b) \in 0..n
           /\ BestOf(LcsRow(left, b), LcsRow(Reverse(right), Reverse(b)), n, n, Split(left, right, b))
<1>1. PICK l \in Nat : l = Len(left) /\ DOMAIN left = 1..l
  BY LenProperties DEF Chars
<1>2. PICK r \in Nat : r = Len(right)
  BY LenProperties DEF Chars
<1>3. DOMAIN b = 1..n
  BY LenProperties DEF Chars
<1>4. LcsRow(left, b) \in Rows(n)
  <2>1. PICK rows : RowsOf(rows, left, b, l, n) /\ LcsRow(left, b) = rows[l]
    BY <1>1, <1>3, LcsRowIs
  <2> QED  BY <2>1 DEF RowsOf
<1>5. LcsRow(Reverse(right), Reverse(b)) \in Rows(n)
  <2>1. DOMAIN Reverse(right) = 1..r /\ DOMAIN Reverse(b) = 1..n /\ Len(Reverse(b)) = n
    BY <1>2, BackwardsIs
  <2>2. PICK rows : RowsOf(rows, Reverse(right), Reverse(b), r, n) /\ LcsRow(Reverse(right), Reverse(b)) = rows[r]
    BY <2>1, LcsRowIs
  <2> QED  BY <2>2 DEF RowsOf
<1>6. Split(left, right, b) = BestCut(LcsRow(left, b), LcsRow(Reverse(right), Reverse(b)), n)
  BY DEF Split
<1> QED  BY <1>4, <1>5, <1>6, BestCutIs

(* The halves of two texts that are divided are shorter texts. *)
Halved(t, n, m, mid, cut) ==
    /\ n = Len(t[1]) /\ m = Len(t[2]) /\ mid = Middle(t) /\ cut = CutOf(t)
    /\ DOMAIN t[1] = 1..n /\ DOMAIN t[2] = 1..m
    /\ mid \in 1..(n - 1) /\ cut \in 0..m
    /\ LeftHalf(t) \in Pair /\ RightHalf(t) \in Pair
    /\ Len(LeftHalf(t)[1]) = mid /\ Len(LeftHalf(t)[2]) = cut
    /\ DOMAIN LeftHalf(t)[1] = 1..mid /\ DOMAIN LeftHalf(t)[2] = 1..cut
    /\ \A i \in 1..mid : LeftHalf(t)[1][i] = t[1][i]
    /\ \A i \in 1..cut : LeftHalf(t)[2][i] = t[2][i]
    /\ Len(RightHalf(t)[1]) = n - mid /\ Len(RightHalf(t)[2]) = m - cut
    /\ DOMAIN RightHalf(t)[1] = 1..(n - mid) /\ DOMAIN RightHalf(t)[2] = 1..(m - cut)
    /\ \A i \in 1..(n - mid) : RightHalf(t)[1][i] = t[1][mid + i]
    /\ \A i \in 1..(m - cut) : RightHalf(t)[2][i] = t[2][cut + i]

(* Both halves are shorter.                                                  *)
LEMMA HalvesAre ==
    ASSUME NEW t \in Pair, Divided(t)
    PROVE  \E n, m, mid, cut \in Nat : Halved(t, n, m, mid, cut)
<1>1. PICK a \in Chars : a = t[1]
  BY DEF Pair
<1>2. PICK b \in Chars : b = t[2]
  BY DEF Pair
<1>3. PICK n \in Nat : n = Len(a) /\ DOMAIN a = 1..n
  BY LenProperties DEF Chars
<1>4. PICK m \in Nat : m = Len(b) /\ DOMAIN b = 1..m
  BY LenProperties DEF Chars
<1>5. PICK mid \in Nat : mid = Middle(t) /\ mid \in 1..(n - 1)
  <2>1. n > 1
    BY <1>1, <1>3 DEF Divided
  <2>2. PICK half \in Int : half = n \div 2 /\ half >= 1 /\ half <= n - 1
    BY <2>1
  <2>3. Middle(t) = half
    BY <1>1, <1>3, <2>2 DEF Middle
  <2> QED  BY <2>2, <2>3
<1>6. PICK left : left = LeftPart(t)
  OBVIOUS
<1>7. left \in Chars /\ Len(left) = mid /\ DOMAIN left = 1..mid /\ \A i \in 1..mid : left[i] = a[i]
  <2>1. PICK skip \in Nat : skip = 0
    OBVIOUS
  <2>2. left = SubSeq(a, skip + 1, mid)
    BY <1>1, <1>5, <1>6, <2>1 DEF LeftPart
  <2>3. mid <= Len(a) /\ mid = mid - skip
    BY <1>3, <1>5, <2>1
  <2>4. IsPart(left, a, skip, mid)
    BY <1>1, <1>5, <2>1, <2>2, <2>3, PartOfChars
  <2> QED  BY <2>1, <2>4 DEF IsPart
<1>8. PICK right : right = RightPart(t)
  OBVIOUS
<1>9. /\ right \in Chars /\ Len(right) = n - mid /\ DOMAIN right = 1..(n - mid)
      /\ \A i \in 1..(n - mid) : right[i] = a[mid + i]
  <2>1. PICK d \in Nat : d = n - mid
    BY <1>3, <1>5
  <2>2. right = SubSeq(a, mid + 1, n) /\ n <= Len(a)
    BY <1>1, <1>3, <1>5, <1>8 DEF RightPart
  <2>3. IsPart(right, a, mid, d)
    BY <1>1, <1>3, <1>5, <2>1, <2>2, PartOfChars
  <2> QED  BY <2>1, <2>3 DEF IsPart
<1>10. PICK cut \in Nat : cut = CutOf(t) /\ cut \in 0..m
  <2>1. Split(left, right, b) \in 0..m
    BY <1>4, <1>7, <1>9, SplitRows
  <2> QED  BY <1>2, <1>6, <1>8, <2>1 DEF CutOf
<1>11. PICK lower : lower = SubSeq(b, 1, cut)
  OBVIOUS
<1>12. lower \in Chars /\ Len(lower) = cut /\ DOMAIN lower = 1..cut /\ \A i \in 1..cut : lower[i] = b[i]
  <2>1. PICK skip \in Nat : skip = 0
    OBVIOUS
  <2>2. lower = SubSeq(b, skip + 1, cut)
    BY <1>11, <2>1
  <2>3. cut <= Len(b) /\ cut = cut - skip
    BY <1>4, <1>10, <2>1
  <2>4. IsPart(lower, b, skip, cut)
    BY <1>2, <1>10, <2>1, <2>2, <2>3, PartOfChars
  <2> QED  BY <2>1, <2>4 DEF IsPart
<1>13. PICK upper : upper = SubSeq(b, cut + 1, m)
  OBVIOUS
<1>14. /\ upper \in Chars /\ Len(upper) = m - cut /\ DOMAIN upper = 1..(m - cut)
       /\ \A i \in 1..(m - cut) : upper[i] = b[cut + i]
  <2>1. PICK d \in Nat : d = m - cut
    BY <1>4, <1>10
  <2>2. m <= Len(b)
    BY <1>4
  <2>3. IsPart(upper, b, cut, d)
    BY <1>2, <1>4, <1>10, <1>13, <2>1, <2>2, PartOfChars
  <2> QED  BY <2>1, <2>3 DEF IsPart
<1>15. LeftHalf(t) = <<left, lower>> /\ RightHalf(t) = <<right, upper>>
  BY <1>2, <1>4, <1>6, <1>8, <1>10, <1>11, <1>13 DEF LeftHalf, RightHalf
<1>16. LeftHalf(t) \in Pair /\ RightHalf(t) \in Pair
  BY <1>7, <1>9, <1>12, <1>14, <1>15 DEF Pair
<1>17. /\ LeftHalf(t)[1] = left /\ LeftHalf(t)[2] = lower
       /\ RightHalf(t)[1] = right /\ RightHalf(t)[2] = upper
  BY <1>15
<1>18. Halved(t, n, m, mid, cut)
  BY <1>1, <1>2, <1>3, <1>4, <1>5, <1>7, <1>9, <1>10, <1>12, <1>14, <1>16, <1>17 DEF Halved
<1> QED  BY <1>18

-----------------------------------------------------------------------------
(***************************************************************************)
(* The matches, computed from those of the halves                            *)
(***************************************************************************)
Found == Seq(Nat \X Nat)
Joint(t, u, v) == u \o Shifted(v, Middle(t), CutOf(t))

(* Matches that are shifted are matches. *)
LEMMA ShiftedIs ==
    ASSUME NEW v \in Found, NEW mid \in Nat, NEW cut \in Nat, NEW u, u = Shifted(v, mid, cut)
    PROVE  /\ u \in Found /\ Len(u) = Len(v) /\ DOMAIN u = DOMAIN v
           /\ \A k \in DOMAIN v : u[k][1] = v[k][1] + mid /\ u[k][2] = v[k][2] + cut
<1>1. PICK n \in Nat : n = Len(v) /\ DOMAIN v = 1..n /\ \A k \in 1..n : v[k] \in Nat \X Nat
  BY LenProperties DEF Found
<1>2. u = [k \in 1..n |-> <<v[k][1] + mid, v[k][2] + cut>>]
  BY <1>1 DEF Shifted
<1>3. \A k \in 1..n : u[k] = <<v[k][1] + mid, v[k][2] + cut>> /\ u[k] \in Nat \X Nat
  BY <1>1, <1>2
<1>4. DOMAIN u = 1..n /\ Len(u) = n /\ u \in Seq(Nat \X Nat)
  BY <1>2, <1>3
<1> QED  BY <1>1, <1>3, <1>4, SMTT(30) DEF Found

(* Matches that are joined *)
LEMMA JointType ==
    ASSUME NEW t \in Pair, Divided(t), NEW u \in Found, NEW v \in Found
    PROVE  Joint(t, u, v) \in Found
<1>1. PICK n, m, mid, cut \in Nat : Halved(t, n, m, mid, cut)
  BY HalvesAre
<1>2. mid = Middle(t) /\ cut = CutOf(t)
  BY <1>1 DEF Halved
<1>3. PICK w : w = Shifted(v, mid, cut)
  OBVIOUS
<1>4. w \in Found
  BY <1>1, <1>3, ShiftedIs
<1>5. u \o w \in Found
  BY <1>4, ConcatProperties DEF Found
<1> QED  BY <1>2, <1>3, <1>5 DEF Joint

(* One character is matched with the first that is the same. *)
LEMMA OneMatchIs ==
    ASSUME NEW t \in Pair
    PROVE  /\ OneMatch(t) \in Found
           /\ OneMatch(t) # <<>> =>
                  /\ OneMatch(t) = <<OneMatch(t)[1]>> /\ OneMatch(t)[1][1] = 1
                  /\ t[1] # <<>> /\ t[2] # <<>>
                  /\ OneMatch(t)[1][2] \in DOMAIN t[2] /\ t[2][OneMatch(t)[1][2]] = t[1][1]
           /\ OneMatch(t) = <<>> <=> t[1] = <<>> \/ t[2] = <<>> \/ HitsOf(t) = {}
<1>1. CASE t[1] = <<>> \/ t[2] = <<>> \/ HitsOf(t) = {}
  <2>1. OneMatch(t) = <<>>
    BY <1>1 DEF OneMatch
  <2>2. <<>> \in Found
    BY DEF Found
  <2> QED  BY <1>1, <2>1, <2>2
<1>2. CASE ~(t[1] = <<>> \/ t[2] = <<>> \/ HitsOf(t) = {})
  <2>1. PICK b \in Chars : b = t[2]
    BY DEF Pair
  <2>2. PICK m \in Nat : DOMAIN b = 1..m
    BY <2>1, LenProperties DEF Chars
  <2>3. HitsOf(t) \in SUBSET Nat /\ HitsOf(t) # {}
    <3>1. \A j \in 1..m : j \in Nat
      OBVIOUS
    <3> QED  BY <1>2, <2>1, <2>2, <3>1 DEF HitsOf
  <2>4. PICK j : j = Least(HitsOf(t))
    OBVIOUS
  <2>5. j \in HitsOf(t)
    BY <2>3, <2>4, LeastOf
  <2>6. OneMatch(t) = <<<<1, j>>>>
    BY <1>2, <2>4 DEF OneMatch, Least
  <2>7. j \in Nat /\ j \in DOMAIN t[2] /\ t[2][j] = t[1][1]
    BY <2>3, <2>5 DEF HitsOf
  <2>8. <<1, j>> \in Nat \X Nat
    BY <2>7
  <2>9. <<<<1, j>>>> \in Found
    BY <2>8 DEF Found
  <2>10. OneMatch(t)[1] = <<1, j>> /\ OneMatch(t) # <<>>
    BY <2>6
  <2> QED  BY <1>2, <2>6, <2>7, <2>9, <2>10
<1> QED  BY <1>1, <1>2

(* What is found is what the two halves are found to have, or one match. *)
MatchesComputed(h, t) ==
    h[t] = IF Divided(t) THEN Joint(t, h[LeftHalf(t)], h[RightHalf(t)]) ELSE OneMatch(t)

(* The matches of two texts from those of others, as the recursion has it *)
MatchesFrom(h, t) ==
    IF t[1] = <<>> \/ t[2] = <<>> THEN <<>>
    ELSE IF Len(t[1]) > 1 THEN Joint(t, h[LeftHalf(t)], h[RightHalf(t)])
    ELSE IF HitsOf(t) = {} THEN <<>>
    ELSE <<<<1, CHOOSE j \in HitsOf(t) : \A k \in HitsOf(t) : j <= k>>>>

(* The matches of all texts are lists of pairs, computed from those of the halves.*)
LEMMA MatchesAre ==
    \A t \in Pair : Matches[t] \in Found /\ MatchesComputed(Matches, t)
<1> DEFINE rank == [t \in Pair |-> IF Divided(t) THEN Len(t[1]) ELSE 0]
           first == [t \in Pair |-> IF Divided(t) THEN LeftHalf(t) ELSE t]
           second == [t \in Pair |-> IF Divided(t) THEN RightHalf(t) ELSE t]
           base == [t \in Pair |-> OneMatch(t)]
           step == [t \in Pair |-> [p \in Found \X Found |->
                       IF Divided(t) THEN Joint(t, p[1], p[2]) ELSE <<>>]]
<1>1. ASSUME NEW t \in Pair, Divided(t)
      PROVE  /\ LeftHalf(t) \in Pair /\ RightHalf(t) \in Pair
             /\ Len(t[1]) \in Nat /\ Len(t[1]) # 0
             /\ Len(LeftHalf(t)[1]) \in Nat /\ Len(LeftHalf(t)[1]) < Len(t[1])
             /\ Len(RightHalf(t)[1]) \in Nat /\ Len(RightHalf(t)[1]) < Len(t[1])
  <2>1. PICK n, m, mid, cut \in Nat : Halved(t, n, m, mid, cut)
    BY <1>1, HalvesAre
  <2> QED  BY <2>1, SMTT(30) DEF Halved
<1>2. \A t \in Pair : rank[t] \in Nat /\ (rank[t] # 0 <=> Divided(t))
  BY <1>1
<1>3. Recursive(Pair, Found, rank, first, second, base, step)
  <2>1. rank \in [Pair -> Nat]
    BY <1>2
  <2>2. first \in [Pair -> Pair] /\ second \in [Pair -> Pair]
    BY <1>1
  <2>3. base \in [Pair -> Found]
    BY OneMatchIs
  <2>4. step \in [Pair -> [Found \X Found -> Found]]
    <3>1. ASSUME NEW t \in Pair, NEW p \in Found \X Found
          PROVE  (IF Divided(t) THEN Joint(t, p[1], p[2]) ELSE <<>>) \in Found
      <4>1. <<>> \in Found
        BY DEF Found
      <4> QED  BY <4>1, JointType
    <3> QED  BY <3>1
  <2>5. ASSUME NEW t \in Pair, rank[t] # 0 PROVE rank[first[t]] < rank[t] /\ rank[second[t]] < rank[t]
    <3>1. Divided(t) /\ rank[t] = Len(t[1]) /\ first[t] = LeftHalf(t) /\ second[t] = RightHalf(t)
      BY <1>2, <2>5
    <3>2. \A u \in Pair : rank[u] = Len(u[1]) \/ rank[u] = 0
      OBVIOUS
    <3> HIDE DEF rank, first, second
    <3> QED  BY <1>1, <3>1, <3>2
  <2> HIDE DEF rank, first, second, base, step
  <2> QED  BY <2>1, <2>2, <2>3, <2>4, <2>5 DEF Recursive
<1>4. PICK h \in [Pair -> Found] : \A t \in Pair : Computed(h, t, rank, first, second, base, step)
  <2> HIDE DEF rank, first, second, base, step
  <2> QED  BY <1>3, Recursion
<1>5. \A t \in Pair : h[t] = IF Divided(t) THEN Joint(t, h[LeftHalf(t)], h[RightHalf(t)]) ELSE OneMatch(t)
  <2> SUFFICES ASSUME NEW t \in Pair
               PROVE  h[t] = IF Divided(t) THEN Joint(t, h[LeftHalf(t)], h[RightHalf(t)]) ELSE OneMatch(t)
    OBVIOUS
  <2>1. Computed(h, t, rank, first, second, base, step)
    BY <1>4
  <2>2. CASE Divided(t)
    <3>1. rank[t] # 0 /\ first[t] = LeftHalf(t) /\ second[t] = RightHalf(t)
      BY <1>2, <2>2
    <3>2. h[t] = step[t][<<h[LeftHalf(t)], h[RightHalf(t)]>>]
      <4> HIDE DEF rank, first, second, base, step
      <4> QED  BY <2>1, <3>1 DEF Computed
    <3>3. PICK u \in Found : u = h[LeftHalf(t)]
      BY <1>1, <2>2
    <3>4. PICK v \in Found : v = h[RightHalf(t)]
      BY <1>1, <2>2
    <3>5. <<u, v>> \in Found \X Found
      BY <3>3, <3>4
    <3>6. step[t][<<u, v>>] = Joint(t, u, v)
      BY <2>2, <3>5
    <3> HIDE DEF step
    <3> QED  BY <2>2, <3>2, <3>3, <3>4, <3>6
  <2>3. CASE ~Divided(t)
    <3>1. rank[t] = 0 /\ base[t] = OneMatch(t)
      BY <1>2, <2>3
    <3> HIDE DEF rank, first, second, base, step
    <3> QED  BY <2>1, <2>3, <3>1 DEF Computed
  <2> QED  BY <2>2, <2>3
<1>6. Matches = CHOOSE g : g = [t \in Pair |-> MatchesFrom(g, t)]
  BY Zenon DEF Matches, Pair, Chars, MatchesFrom, Joint, LeftHalf, RightHalf, LeftPart, RightPart,
               Middle, CutOf, HitsOf
<1>7. \A g, t : MatchesFrom(g, t) = IF Divided(t) THEN Joint(t, g[LeftHalf(t)], g[RightHalf(t)]) ELSE OneMatch(t)
  BY DEF MatchesFrom, Divided, OneMatch
<1>8. Matches = [t \in Pair |-> MatchesFrom(Matches, t)]
  <2>1. h = [t \in Pair |-> MatchesFrom(h, t)]
    BY <1>5, <1>7
  <2> QED  BY <1>6, <2>1, Zenon
<1>9. \A t \in Pair : MatchesComputed(Matches, t)
  BY <1>7, <1>8 DEF MatchesComputed
<1> DEFINE G == {t \in Pair : Matches[t] \in Found}
<1>10. ASSUME NEW t \in Pair, \A u \in Pair : rank[u] < rank[t] => u \in G PROVE t \in G
  <2>1. CASE Divided(t)
    <3>1. rank[LeftHalf(t)] < rank[t] /\ rank[RightHalf(t)] < rank[t]
      <4>1. rank[t] # 0 /\ first[t] = LeftHalf(t) /\ second[t] = RightHalf(t)
        BY <1>2, <2>1
      <4> HIDE DEF rank, first, second
      <4> QED  BY <1>3, <4>1 DEF Recursive
    <3>2. Matches[LeftHalf(t)] \in Found /\ Matches[RightHalf(t)] \in Found
      <4>1. LeftHalf(t) \in Pair /\ RightHalf(t) \in Pair
        BY <1>1, <2>1
      <4>2. LeftHalf(t) \in G /\ RightHalf(t) \in G
        <5> HIDE DEF rank, G
        <5> QED  BY <1>10, <3>1, <4>1
      <4> QED  BY <4>2
    <3> QED  BY <1>9, <2>1, <3>2, JointType DEF MatchesComputed
  <2>2. CASE ~Divided(t)
    BY <1>9, <2>2, OneMatchIs DEF MatchesComputed
  <2> QED  BY <2>1, <2>2
<1>11. \A t \in Pair : t \in G
  <2>1. rank \in [Pair -> Nat]
    BY <1>2
  <2> HIDE DEF rank, G
  <2> QED  BY <1>10, <2>1, RankSet
<1> QED  BY <1>9, <1>11

-----------------------------------------------------------------------------
(***************************************************************************)
(* The matches are characters that are the same, in the order of both texts  *)
(***************************************************************************)
(* What holds of two texts when it holds of their halves holds of all texts. *)
LEMMA ByHalves ==
    ASSUME NEW G, \A t \in Pair : (Divided(t) => LeftHalf(t) \in G /\ RightHalf(t) \in G) => t \in G
    PROVE  \A t \in Pair : t \in G
<1> DEFINE rank == [t \in Pair |-> IF Divided(t) THEN Len(t[1]) ELSE 0]
<1>1. ASSUME NEW t \in Pair, Divided(t)
      PROVE  /\ LeftHalf(t) \in Pair /\ RightHalf(t) \in Pair /\ Len(t[1]) \in Nat
             /\ rank[LeftHalf(t)] < rank[t] /\ rank[RightHalf(t)] < rank[t]
  <2>1. PICK n, m, mid, cut \in Nat : Halved(t, n, m, mid, cut)
    BY <1>1, HalvesAre
  <2>2. /\ LeftHalf(t) \in Pair /\ RightHalf(t) \in Pair /\ Len(t[1]) \in Nat /\ rank[t] = Len(t[1])
        /\ Len(LeftHalf(t)[1]) < Len(t[1]) /\ Len(RightHalf(t)[1]) < Len(t[1]) /\ 0 < Len(t[1])
    BY <1>1, <2>1 DEF Halved
  <2>3. \A u \in Pair : rank[u] = Len(u[1]) \/ rank[u] = 0
    OBVIOUS
  <2> HIDE DEF rank
  <2> QED  BY <2>2, <2>3
<1>2. rank \in [Pair -> Nat]
  BY <1>1
<1>3. ASSUME NEW t \in Pair, \A u \in Pair : rank[u] < rank[t] => u \in G PROVE t \in G
  <2> HIDE DEF rank
  <2> QED  BY <1>1, <1>3
<1> HIDE DEF rank
<1> QED  BY <1>2, <1>3, RankSet

(* Places of characters that are the same, in the order of both texts *)
Pairing(s, a, b) ==
    /\ \A k \in DOMAIN s : s[k][1] \in DOMAIN a /\ s[k][2] \in DOMAIN b /\ a[s[k][1]] = b[s[k][2]]
    /\ \A k, l \in DOMAIN s : k < l => s[k][1] < s[l][1] /\ s[k][2] < s[l][2]

(* One list of pairs, and then another *)
InTurn(s, u, w, p, q) ==
    /\ s \in Found /\ Len(s) = p + q /\ DOMAIN s = 1..(p + q)
    /\ \A k \in 1..p : s[k] = u[k]
    /\ \A k \in (p + 1)..(p + q) : s[k] = w[k - p] /\ k - p \in 1..q

(* A list of pairs joined with another                                       *)
LEMMA TwoLists ==
    ASSUME NEW u \in Found, NEW w \in Found, NEW p \in Nat, p = Len(u), NEW q \in Nat, q = Len(w), NEW s, s = u \o w
    PROVE  InTurn(s, u, w, p, q)
<1>1. /\ s \in Found /\ Len(s) = p + q
      /\ \A k \in 1..(p + q) : s[k] = IF k <= p THEN u[k] ELSE w[k - p]
  BY ConcatProperties DEF Found
<1>2. ASSUME NEW k \in 1..p PROVE s[k] = u[k]
  BY <1>1
<1>3. ASSUME NEW k \in (p + 1)..(p + q) PROVE s[k] = w[k - p] /\ k - p \in 1..q
  BY <1>1
<1>4. DOMAIN s = 1..(p + q)
  BY <1>1, LenProperties DEF Found
<1> QED  BY <1>1, <1>2, <1>3, <1>4 DEF InTurn

(* The matches of the halves, joined, are places of the whole. *)
LEMMA JointPairs ==
    ASSUME NEW t \in Pair, Divided(t), NEW u \in Found, NEW v \in Found,
           Pairing(u, LeftHalf(t)[1], LeftHalf(t)[2]), Pairing(v, RightHalf(t)[1], RightHalf(t)[2])
    PROVE  Pairing(Joint(t, u, v), t[1], t[2]) /\ Len(Joint(t, u, v)) = Len(u) + Len(v)
<1>1. PICK n, m, mid, cut \in Nat : Halved(t, n, m, mid, cut)
  BY HalvesAre
<1>2. mid = Middle(t) /\ cut = CutOf(t) /\ DOMAIN t[1] = 1..n /\ DOMAIN t[2] = 1..m
      /\ mid \in 1..(n - 1) /\ cut \in 0..m
  BY <1>1 DEF Halved
<1>3. PICK w : w = Shifted(v, mid, cut)
  OBVIOUS
<1>4. /\ w \in Found /\ Len(w) = Len(v) /\ DOMAIN w = DOMAIN v
      /\ \A k \in DOMAIN v : w[k][1] = v[k][1] + mid /\ w[k][2] = v[k][2] + cut
  BY <1>1, <1>3, ShiftedIs
<1>5. PICK p \in Nat : p = Len(u) /\ DOMAIN u = 1..p
  BY LenProperties DEF Found
<1>6. PICK q \in Nat : q = Len(w) /\ DOMAIN w = 1..q
  BY <1>4, LenProperties DEF Found
<1>7. PICK s : s = u \o w
  OBVIOUS
<1>8. /\ s \in Found /\ Len(s) = p + q /\ DOMAIN s = 1..(p + q)
      /\ \A k \in 1..p : s[k] = u[k]
      /\ \A k \in (p + 1)..(p + q) : s[k] = w[k - p] /\ k - p \in 1..q
  <2>1. InTurn(s, u, w, p, q)
    BY <1>4, <1>5, <1>6, <1>7, TwoLists
  <2> QED  BY <2>1 DEF InTurn
<1>9. Joint(t, u, v) = s
  BY <1>2, <1>3, <1>7 DEF Joint
<1>10. ASSUME NEW k \in 1..p
       PROVE  /\ s[k][1] \in 1..mid /\ s[k][2] \in 1..cut /\ t[1][s[k][1]] = t[2][s[k][2]]
              /\ s[k][1] \in 1..n /\ s[k][2] \in 1..m
  <2>1. s[k] = u[k] /\ k \in DOMAIN u
    BY <1>5, <1>8
  <2>2. /\ u[k][1] \in DOMAIN LeftHalf(t)[1] /\ u[k][2] \in DOMAIN LeftHalf(t)[2]
        /\ LeftHalf(t)[1][u[k][1]] = LeftHalf(t)[2][u[k][2]]
    BY <2>1 DEF Pairing
  <2>3. u[k][1] \in 1..mid /\ u[k][2] \in 1..cut
    BY <1>1, <2>2 DEF Halved
  <2>4. LeftHalf(t)[1][u[k][1]] = t[1][u[k][1]] /\ LeftHalf(t)[2][u[k][2]] = t[2][u[k][2]]
    BY <1>1, <2>3 DEF Halved
  <2>5. u[k][1] \in 1..n /\ u[k][2] \in 1..m
    BY <1>2, <2>3
  <2> QED  BY <2>1, <2>2, <2>3, <2>4, <2>5
<1>11. ASSUME NEW k \in (p + 1)..(p + q)
       PROVE  /\ s[k][1] \in (mid + 1)..n /\ s[k][2] \in (cut + 1)..m /\ t[1][s[k][1]] = t[2][s[k][2]]
              /\ k - p \in DOMAIN v /\ s[k][1] = v[k - p][1] + mid /\ s[k][2] = v[k - p][2] + cut
              /\ v[k - p][1] \in Nat /\ v[k - p][2] \in Nat
              /\ s[k][1] \in 1..n /\ s[k][2] \in 1..m
  <2>1. PICK l : l = k - p
    OBVIOUS
  <2>2. s[k] = w[l] /\ l \in DOMAIN v /\ s[k][1] = v[l][1] + mid /\ s[k][2] = v[l][2] + cut
    BY <1>4, <1>6, <1>8, <2>1
  <2>3. /\ v[l][1] \in DOMAIN RightHalf(t)[1] /\ v[l][2] \in DOMAIN RightHalf(t)[2]
        /\ RightHalf(t)[1][v[l][1]] = RightHalf(t)[2][v[l][2]]
    BY <2>2 DEF Pairing
  <2>4. v[l][1] \in 1..(n - mid) /\ v[l][2] \in 1..(m - cut)
    BY <1>1, <2>3 DEF Halved
  <2>5. RightHalf(t)[1][v[l][1]] = t[1][mid + v[l][1]] /\ RightHalf(t)[2][v[l][2]] = t[2][cut + v[l][2]]
    BY <1>1, <2>4 DEF Halved
  <2>6. s[k][1] \in (mid + 1)..n /\ s[k][2] \in (cut + 1)..m
    <3>1. PICK a \in 1..(n - mid) : a = v[l][1]
      BY <2>4, Zenon
    <3>2. PICK b \in 1..(m - cut) : b = v[l][2]
      BY <2>4, Zenon
    <3>3. s[k][1] = a + mid /\ s[k][2] = b + cut
      BY <2>2, <3>1, <3>2, Zenon
    <3>4. a + mid \in (mid + 1)..n /\ b + cut \in (cut + 1)..m
      BY <1>2
    <3> QED  BY <3>3, <3>4, Zenon
  <2>7. /\ s[k][1] = mid + v[l][1] /\ s[k][2] = cut + v[l][2]
        /\ v[l][1] \in Nat /\ v[l][2] \in Nat
    BY <2>2, <2>4
  <2>8. s[k][1] \in 1..n /\ s[k][2] \in 1..m
    BY <1>2, <2>6
    <2>9. t[1][s[k][1]] = t[2][s[k][2]]
    BY <2>3, <2>5, <2>7
  <2> QED  BY <2>1, <2>2, <2>6, <2>7, <2>8, <2>9
<1>12. \A k \in DOMAIN s : k \in 1..p \/ k \in (p + 1)..(p + q)
  BY <1>8
<1>13. ASSUME NEW k \in DOMAIN s
       PROVE  s[k][1] \in DOMAIN t[1] /\ s[k][2] \in DOMAIN t[2] /\ t[1][s[k][1]] = t[2][s[k][2]]
  BY <1>2, <1>10, <1>11, <1>12
<1>14. ASSUME NEW k \in DOMAIN s, NEW l \in DOMAIN s, k < l
       PROVE  s[k][1] < s[l][1] /\ s[k][2] < s[l][2]
  <2>1. CASE k \in 1..p /\ l \in 1..p
    BY <1>5, <1>8, <1>14, <2>1 DEF Pairing
  <2>2. CASE k \in 1..p /\ l \in (p + 1)..(p + q)
    <3>1. s[k][1] \in 1..mid /\ s[k][2] \in 1..cut
      BY <1>10, <2>2
    <3>2. s[l][1] \in (mid + 1)..n /\ s[l][2] \in (cut + 1)..m
      BY <1>11, <2>2
    <3> QED  BY <3>1, <3>2
  <2>3. CASE k \in (p + 1)..(p + q) /\ l \in (p + 1)..(p + q)
    <3>1. PICK i, j : i = k - p /\ j = l - p
      OBVIOUS
    <3>2. i \in DOMAIN v /\ s[k][1] = v[i][1] + mid /\ s[k][2] = v[i][2] + cut /\ v[i][1] \in Nat /\ v[i][2] \in Nat
      BY <1>11, <2>3, <3>1
    <3>3. j \in DOMAIN v /\ s[l][1] = v[j][1] + mid /\ s[l][2] = v[j][2] + cut /\ v[j][1] \in Nat /\ v[j][2] \in Nat
      BY <1>11, <2>3, <3>1
    <3>4. i < j
      BY <1>14, <2>3, <3>1
    <3>5. v[i][1] < v[j][1] /\ v[i][2] < v[j][2]
      BY <3>2, <3>3, <3>4 DEF Pairing
    <3> QED  BY <1>2, <3>2, <3>3, <3>5, SMTT(30)
  <2>4. ~(k \in (p + 1)..(p + q) /\ l \in 1..p)
    BY <1>14
  <2> QED  BY <1>12, <2>1, <2>2, <2>3, <2>4
<1>15. Pairing(s, t[1], t[2])
  BY <1>13, <1>14 DEF Pairing
<1> QED  BY <1>4, <1>5, <1>6, <1>8, <1>9, <1>15

(* The matches of two texts are places of characters that are the same.               *)
LEMMA MatchesPaired ==
    \A t \in Pair : Matches[t] \in Found /\ Pairing(Matches[t], t[1], t[2])
<1> DEFINE G == {t \in Pair : Pairing(Matches[t], t[1], t[2])}
<1>1. ASSUME NEW t \in Pair, Divided(t) => LeftHalf(t) \in G /\ RightHalf(t) \in G PROVE t \in G
  <2>1. CASE Divided(t)
    <3>1. /\ LeftHalf(t) \in Pair /\ RightHalf(t) \in Pair
          /\ Pairing(Matches[LeftHalf(t)], LeftHalf(t)[1], LeftHalf(t)[2])
          /\ Pairing(Matches[RightHalf(t)], RightHalf(t)[1], RightHalf(t)[2])
      BY <1>1, <2>1
    <3>2. PICK u \in Found : u = Matches[LeftHalf(t)]
      BY <3>1, MatchesAre
    <3>3. PICK v \in Found : v = Matches[RightHalf(t)]
      BY <3>1, MatchesAre
    <3>4. Matches[t] = Joint(t, u, v)
      BY <2>1, <3>2, <3>3, MatchesAre DEF MatchesComputed
    <3>5. Pairing(Joint(t, u, v), t[1], t[2])
      BY <2>1, <3>1, <3>2, <3>3, JointPairs
    <3> QED  BY <3>4, <3>5
  <2>2. CASE ~Divided(t)
    <3>1. PICK s : s = OneMatch(t)
      OBVIOUS
    <3>2. Matches[t] = s
      BY <2>2, <3>1, MatchesAre DEF MatchesComputed
    <3>3. s # <<>> => /\ s = <<s[1]>> /\ s[1][1] = 1 /\ t[1] # <<>>
                      /\ s[1][2] \in DOMAIN t[2] /\ t[2][s[1][2]] = t[1][1]
      BY <3>1, OneMatchIs
    <3>4. CASE s = <<>>
      <4>1. DOMAIN s = {}
        BY <3>4
      <4> QED  BY <3>2, <4>1 DEF Pairing
    <3>5. CASE s # <<>>
      <4>1. DOMAIN s = {1}
        <5>1. PICK x : x = s[1]
          OBVIOUS
        <5>2. s = <<x>>
          BY <3>3, <3>5, <5>1
        <5> QED  BY <5>2
      <4>2. 1 \in DOMAIN t[1]
        <5>1. PICK a \in Chars : a = t[1]
          BY DEF Pair
        <5>2. a # <<>> /\ Len(a) \in Nat /\ DOMAIN a = 1..Len(a)
          BY <3>3, <3>5, <5>1, LenProperties DEF Chars
        <5>3. Len(a) # 0
          BY <5>1, <5>2, EmptySeq DEF Chars
        <5> QED  BY <5>1, <5>2, <5>3
      <4>3. Pairing(s, t[1], t[2])
        BY <3>3, <3>5, <4>1, <4>2 DEF Pairing
      <4> QED  BY <3>2, <4>3
    <3> QED  BY <3>4, <3>5
  <2> QED  BY <2>1, <2>2
<1>2. \A t \in Pair : t \in G
  <2> HIDE DEF G
  <2> QED  BY <1>1, ByHalves
<1> QED  BY <1>2, MatchesAre

-----------------------------------------------------------------------------
(***************************************************************************)
(* Where characters start, and where matches stop                            *)
(***************************************************************************)
(* Where the characters of a text start, n of them *)
StartsOf(at, text, n) ==
    /\ n \in Nat /\ n = Len(Scalars(text)) /\ DOMAIN at = 1..(n + 1)
    /\ at[1] = 0 /\ at[n + 1] = Len(text) /\ Len(text) \in Nat
    /\ \A i \in 1..(n + 1) : at[i] \in 0..Len(text)
    /\ \A i, j \in 1..(n + 1) : i < j <=> at[i] < at[j]
    /\ Scalars(text) \in Chars /\ DOMAIN Scalars(text) = 1..n
    /\ \A i \in 1..n : Scalars(text)[i] = Slice(text, at[i], at[i + 1])

(* Each text has such starts.                                                *)
LEMMA StartsAre ==
    ASSUME NEW text \in Seq(Byte)
    PROVE  \E n \in Nat : StartsOf(ByteStarts(text), text, n)
<1>1. PICK m \in Nat : m = Len(text)
  BY LenProperties
<1>2. PICK at : at = ByteStarts(text)
  OBVIOUS
<1>3. /\ \E n \in Nat : n = Len(at) /\ DOMAIN at = 1..n
      /\ \A i \in DOMAIN at : at[i] \in 0..m
      /\ \A x \in 0..m : CharBoundary(text, x) => \E i \in DOMAIN at : at[i] = x
      /\ \A i, j \in DOMAIN at : i < j <=> at[i] < at[j]
  BY <1>1, <1>2, ByteStartsType
<1>4. PICK l \in Nat : l = Len(at) /\ DOMAIN at = 1..l
  BY <1>3
<1>5. PICK i \in 1..l : at[i] = 0
  <2>1. 0 \in 0..m /\ CharBoundary(text, 0)
    BY DEF CharBoundary
  <2> QED  BY <1>3, <1>4, <2>1
<1>6. PICK k \in 1..l : at[k] = m
  <2>1. m \in 0..m /\ CharBoundary(text, m)
    BY <1>1 DEF CharBoundary
  <2> QED  BY <1>3, <1>4, <2>1
<1>7. l >= 1 /\ 1 \in 1..l /\ l \in 1..l /\ \A j \in 1..l : at[j] \in 0..m
  BY <1>3, <1>4, <1>5
<1>8. i = 1
  <2>1. ~(at[1] < at[i])
    BY <1>5, <1>7
  <2>2. ~(1 < i)
    BY <1>3, <1>4, <1>7, <2>1
  <2> QED  BY <2>2
<1>9. k = l
  <2>1. ~(at[k] < at[l])
    BY <1>6, <1>7
  <2>2. ~(k < l)
    BY <1>3, <1>4, <1>7, <2>1
  <2> QED  BY <2>2
<1>10. PICK n \in Nat : n = l - 1 /\ l = n + 1
  BY <1>7
<1>11. Scalars(text) = [j \in 1..n |-> Slice(text, at[j], at[j + 1])]
  BY <1>2, <1>4, <1>10 DEF Scalars
<1>12. ASSUME NEW j \in 1..n PROVE Slice(text, at[j], at[j + 1]) \in Seq(Byte)
  <2>1. j \in 1..l /\ j + 1 \in 1..l
    BY <1>10
  <2>2. PICK start \in Nat : start = at[j]
    BY <1>7, <2>1
  <2>3. PICK end \in 0..Len(text) : end = at[j + 1]
    BY <1>1, <1>7, <2>1
  <2>4. Slice(text, start, end) \in Seq(Byte)
    BY <2>2, <2>3, SliceType
  <2> QED  BY <2>2, <2>3, <2>4
<1>13. Scalars(text) \in Chars /\ Len(Scalars(text)) = n
  BY <1>11, <1>12 DEF Chars
<1>14. StartsOf(at, text, n)
  BY <1>1, <1>3, <1>4, <1>5, <1>6, <1>7, <1>8, <1>9, <1>10, <1>11, <1>13 DEF StartsOf
<1> QED  BY <1>2, <1>14

(* Where the matches stop: before the first character, at each match, after the last     *)
StopsOf(stops, s, l, n, m) ==
    /\ l \in Nat /\ l = Len(s) /\ DOMAIN stops = 1..(l + 2) /\ Len(stops) = l + 2
    /\ stops[1] = <<0, 0>> /\ stops[l + 2] = <<n + 1, m + 1>>
    /\ \A k \in 1..l : stops[k + 1] = s[k]

(* The stops are such a list.                                                *)
LEMMA StopsAre ==
    ASSUME NEW s \in Found, NEW n \in Nat, NEW m \in Nat, NEW stops, stops = <<<<0, 0>>>> \o s \o <<<<n + 1, m + 1>>>>
    PROVE  \E l \in Nat : StopsOf(stops, s, l, n, m)
<1>1. PICK l \in Nat : l = Len(s) /\ DOMAIN s = 1..l
  BY LenProperties DEF Found
<1>2. PICK first \in Found : first = <<<<0, 0>>>> /\ Len(first) = 1 /\ first[1] = <<0, 0>>
  <2>1. <<0, 0>> \in Nat \X Nat
    OBVIOUS
  <2>2. <<<<0, 0>>>> \in Found
    BY <2>1 DEF Found
  <2> QED  BY <2>2
<1>3. PICK last \in Found : last = <<<<n + 1, m + 1>>>> /\ Len(last) = 1 /\ last[1] = <<n + 1, m + 1>>
  <2>1. PICK x \in Nat \X Nat : x = <<n + 1, m + 1>>
    BY SMTT(30)
  <2>2. <<x>> \in Found
    BY <2>1 DEF Found
  <2> QED  BY <2>1, <2>2
<1>4. PICK one \in Nat : one = 1
  OBVIOUS
<1>5. PICK head : head = first \o s
  OBVIOUS
<1>6. InTurn(head, first, s, one, l)
  BY <1>1, <1>2, <1>4, <1>5, TwoLists
<1>7. PICK h \in Nat : h = one + l
  OBVIOUS
<1>8. head \in Found /\ Len(head) = h
  BY <1>6, <1>7 DEF InTurn
<1>9. stops = head \o last
  BY <1>2, <1>3, <1>5
<1>10. InTurn(stops, head, last, h, one)
  BY <1>3, <1>4, <1>8, <1>9, TwoLists
<1>11. DOMAIN stops = 1..(l + 2) /\ Len(stops) = l + 2
  BY <1>4, <1>7, <1>10 DEF InTurn
<1>12. stops[1] = <<0, 0>>
  <2>1. 1 \in 1..one /\ 1 \in 1..h
    BY <1>4, <1>7
  <2> QED  BY <1>2, <1>6, <1>10, <2>1 DEF InTurn
<1>13. stops[l + 2] = <<n + 1, m + 1>>
  <2>1. l + 2 \in (h + 1)..(h + one) /\ (l + 2) - h = 1
    BY <1>4, <1>7
  <2> QED  BY <1>3, <1>10, <2>1 DEF InTurn
<1>14. ASSUME NEW k \in 1..l PROVE stops[k + 1] = s[k]
  <2>1. k + 1 \in 1..h /\ k + 1 \in (one + 1)..(one + l) /\ (k + 1) - one = k
    BY <1>4, <1>7
  <2>2. stops[k + 1] = head[k + 1] /\ head[k + 1] = s[(k + 1) - one]
    BY <1>6, <1>10, <2>1 DEF InTurn
  <2> QED  BY <2>1, <2>2
<1> QED  BY <1>1, <1>11, <1>12, <1>13, <1>14 DEF StopsOf

(* The stops advance in both texts. *)
LEMMA StopsAdvance ==
    ASSUME NEW a \in Chars, NEW b \in Chars, NEW n \in Nat, DOMAIN a = 1..n, NEW m \in Nat, DOMAIN b = 1..m,
           NEW s, Pairing(s, a, b), NEW l, DOMAIN s = 1..l,
           NEW stops, StopsOf(stops, s, l, n, m)
    PROVE  /\ \A i \in 1..(l + 2) : stops[i][1] \in 0..(n + 1) /\ stops[i][2] \in 0..(m + 1)
           /\ \A i, j \in 1..(l + 2) : i < j => stops[i][1] < stops[j][1] /\ stops[i][2] < stops[j][2]
<1>1. l \in Nat
  BY DEF StopsOf
<1>2. ASSUME NEW k \in 1..l PROVE stops[k + 1][1] \in 1..n /\ stops[k + 1][2] \in 1..m
  BY <1>2 DEF StopsOf, Pairing
<1>3. \A i \in 1..(l + 2) : i = 1 \/ i = l + 2 \/ \E k \in 1..l : i = k + 1
  <2> SUFFICES ASSUME NEW i \in 1..(l + 2), i # 1, i # l + 2 PROVE \E k \in 1..l : i = k + 1
    OBVIOUS
  <2>1. i - 1 \in 1..l /\ i = (i - 1) + 1
    BY <1>1
  <2> QED  BY <2>1
<1>4. stops[1][1] = 0 /\ stops[1][2] = 0 /\ stops[l + 2][1] = n + 1 /\ stops[l + 2][2] = m + 1
  BY DEF StopsOf
<1>5. ASSUME NEW i \in 1..(l + 2) PROVE stops[i][1] \in 0..(n + 1) /\ stops[i][2] \in 0..(m + 1)
  <2>1. CASE i = 1 \/ i = l + 2
    BY <1>4, <2>1
  <2>2. CASE \E k \in 1..l : i = k + 1
    <3>1. PICK k \in 1..l : i = k + 1
      BY <2>2
    <3>2. stops[i][1] \in 1..n /\ stops[i][2] \in 1..m
      BY <1>2, <3>1
    <3> QED  BY <3>2
  <2> QED  BY <1>3, <2>1, <2>2
<1>6. ASSUME NEW i \in 1..(l + 2), NEW j \in 1..(l + 2), i < j
      PROVE  stops[i][1] < stops[j][1] /\ stops[i][2] < stops[j][2]
  <2>1. CASE i = 1 /\ j = l + 2
    BY <1>4, <2>1
  <2>2. CASE i = 1 /\ \E k \in 1..l : j = k + 1
    <3>1. PICK k \in 1..l : j = k + 1
      BY <2>2
    <3>2. stops[j][1] \in 1..n /\ stops[j][2] \in 1..m
      BY <1>2, <3>1
    <3> QED  BY <1>4, <2>2, <3>2, SMTT(30)
  <2>3. CASE j = l + 2 /\ \E k \in 1..l : i = k + 1
    <3>1. PICK k \in 1..l : i = k + 1
      BY <2>3
    <3>2. stops[i][1] \in 1..n /\ stops[i][2] \in 1..m
      BY <1>2, <3>1
    <3> QED  BY <1>4, <2>3, <3>2
  <2>4. CASE (\E k \in 1..l : i = k + 1) /\ (\E k \in 1..l : j = k + 1)
    <3>1. PICK g \in 1..l : i = g + 1
      BY <2>4
    <3>2. PICK h \in 1..l : j = h + 1
      BY <2>4
    <3>3. g < h
      BY <1>1, <1>6, <3>1, <3>2
    <3>4. s[g][1] < s[h][1] /\ s[g][2] < s[h][2]
      BY <3>3 DEF Pairing
    <3>5. stops[i] = s[g] /\ stops[j] = s[h]
      BY <3>1, <3>2 DEF StopsOf
    <3> QED  BY <3>4, <3>5
  <2>5. i # l + 2 /\ j # 1
    BY <1>1, <1>6
  <2> QED  BY <1>3, <2>1, <2>2, <2>3, <2>4, <2>5
<1> QED  BY <1>5, <1>6

-----------------------------------------------------------------------------
(***************************************************************************)
(* What lies between two matches                                             *)
(***************************************************************************)
(* Ranges of two texts, c of them, that lie apart in both; what is before, between and     *)
(* after them is the same.                                                     *)
GapsOf(gaps, raw, final, c) ==
    /\ c \in Nat \ {0} /\ DOMAIN gaps = 1..c
    /\ \A i \in 1..c : /\ gaps[i].from \in 0..Len(raw) /\ gaps[i].to \in 0..Len(raw)
                       /\ gaps[i].finalFrom \in 0..Len(final) /\ gaps[i].finalTo \in 0..Len(final)
                       /\ gaps[i].from <= gaps[i].to /\ gaps[i].finalFrom <= gaps[i].finalTo
    /\ \A i, j \in 1..c : i < j => gaps[i].to < gaps[j].from /\ gaps[i].finalTo < gaps[j].finalFrom
    /\ gaps[1].from = 0 /\ gaps[1].finalFrom = 0
    /\ gaps[c].to = Len(raw) /\ gaps[c].finalTo = Len(final)
    /\ \A i \in 1..(c - 1) : Slice(raw, gaps[i].to, gaps[i + 1].from)
                                = Slice(final, gaps[i].finalTo, gaps[i + 1].finalFrom)

(* One side of the gaps: between two stops there are characters or none.               *)
LEMMA SideOfGap ==
    ASSUME NEW text, NEW at, NEW n \in Nat, StartsOf(at, text, n),
           NEW c \in Nat, NEW stop, \A i \in 1..(c + 1) : stop[i] \in 0..(n + 1),
           \A i, j \in 1..(c + 1) : i < j => stop[i] < stop[j]
    PROVE  /\ \A i \in 1..c : /\ at[stop[i] + 1] \in 0..Len(text) /\ at[stop[i + 1]] \in 0..Len(text)
                              /\ at[stop[i] + 1] <= at[stop[i + 1]]
                              /\ stop[i] + 1 \in 1..(n + 1) /\ stop[i + 1] \in 1..(n + 1)
           /\ \A i, j \in 1..c : i < j => at[stop[i + 1]] < at[stop[j] + 1]
<1>1. ASSUME NEW i \in 1..c PROVE stop[i] + 1 \in 1..(n + 1) /\ stop[i + 1] \in 1..(n + 1) /\ stop[i] + 1 <= stop[i + 1]
  <2>1. PICK k \in Nat : k = i + 1 /\ i \in 1..(c + 1) /\ k \in 1..(c + 1) /\ i < k
    OBVIOUS
  <2>2. stop[i] \in 0..(n + 1) /\ stop[k] \in 0..(n + 1) /\ stop[i] < stop[k]
    BY <2>1
  <2> QED  BY <2>1, <2>2
<1>2. \A i \in 1..(n + 1) : at[i] \in 0..Len(text)
  BY DEF StartsOf
<1>3. \A i, j \in 1..(n + 1) : i < j <=> at[i] < at[j]
  BY DEF StartsOf
<1>4. Len(text) \in Nat
  BY DEF StartsOf
<1>5. ASSUME NEW i \in 1..c
      PROVE  /\ at[stop[i] + 1] \in 0..Len(text) /\ at[stop[i + 1]] \in 0..Len(text)
             /\ at[stop[i] + 1] <= at[stop[i + 1]]
  <2>1. PICK x \in 1..(n + 1) : x = stop[i] + 1
    BY <1>1
  <2>2. PICK y \in 1..(n + 1) : y = stop[i + 1]
    BY <1>1
  <2>3. x <= y
    BY <1>1, <2>1, <2>2
  <2>4. at[x] \in 0..Len(text) /\ at[y] \in 0..Len(text)
    BY <1>2
  <2>5. at[x] <= at[y]
    <3>1. CASE x = y
      BY <1>4, <2>4, <3>1
    <3>2. CASE x # y
      BY <1>3, <1>4, <2>3, <2>4, <3>2
    <3> QED  BY <3>1, <3>2
  <2> QED  BY <2>1, <2>2, <2>4, <2>5
<1>6. ASSUME NEW i \in 1..c, NEW j \in 1..c, i < j PROVE at[stop[i + 1]] < at[stop[j] + 1]
  <2>1. PICK k \in 1..(c + 1) : k = i + 1 /\ k <= j /\ j \in 1..(c + 1)
    BY <1>6
  <2>2. PICK x \in 1..(n + 1) : x = stop[k]
    BY <1>1, <2>1
  <2>3. PICK y \in 1..(n + 1) : y = stop[j] + 1
    BY <1>1
  <2>4. stop[k] <= stop[j]
    <3>1. stop[k] \in 0..(n + 1) /\ stop[j] \in 0..(n + 1)
      BY <2>1
    <3>2. CASE k = j
      BY <3>1, <3>2
    <3>3. CASE k # j
      BY <2>1, <3>1, <3>3
    <3> QED  BY <3>2, <3>3
  <2>5. x < y
    <3>1. stop[j] \in 0..(n + 1)
      BY <2>1
    <3> QED  BY <2>2, <2>3, <2>4, <3>1
  <2> QED  BY <1>3, <2>1, <2>2, <2>3, <2>5
<1> QED  BY <1>1, <1>5, <1>6

(* What lies between the matches *)
LEMMA GapsAre ==
    ASSUME NEW raw \in Seq(Byte), NEW final \in Seq(Byte), NEW s \in Found,
           Pairing(s, Scalars(raw), Scalars(final))
    PROVE  GapsOf(Gaps(raw, final, s), raw, final, Len(s) + 1)
<1>1. PICK n \in Nat : StartsOf(ByteStarts(raw), raw, n)
  BY StartsAre
<1>2. PICK m \in Nat : StartsOf(ByteStarts(final), final, m)
  BY StartsAre
<1>3. PICK at : at = ByteStarts(raw)
  OBVIOUS
<1>4. PICK finalAt : finalAt = ByteStarts(final)
  OBVIOUS
<1>5. n = Len(Scalars(raw)) /\ m = Len(Scalars(final))
  BY <1>1, <1>2 DEF StartsOf
<1>6. PICK stops : stops = <<<<0, 0>>>> \o s \o <<<<n + 1, m + 1>>>>
  OBVIOUS
<1>7. PICK l \in Nat : StopsOf(stops, s, l, n, m)
  BY <1>1, <1>2, <1>6, StopsAre
<1>8. l = Len(s) /\ Len(stops) = l + 2 /\ DOMAIN s = 1..l
  BY <1>7, LenProperties DEF StopsOf, Found
<1>9. /\ \A i \in 1..(l + 2) : stops[i][1] \in 0..(n + 1) /\ stops[i][2] \in 0..(m + 1)
      /\ \A i, j \in 1..(l + 2) : i < j => stops[i][1] < stops[j][1] /\ stops[i][2] < stops[j][2]
  <2>1. PICK a \in Chars : a = Scalars(raw) /\ DOMAIN a = 1..n
    BY <1>1 DEF StartsOf
  <2>2. PICK b \in Chars : b = Scalars(final) /\ DOMAIN b = 1..m
    BY <1>2 DEF StartsOf
  <2>3. Pairing(s, a, b)
    BY <2>1, <2>2
  <2>4. n \in Nat /\ m \in Nat /\ DOMAIN s = 1..l
    BY <1>1, <1>2, <1>8
  <2> QED  BY <1>7, <2>1, <2>2, <2>3, <2>4, StopsAdvance
<1>10. PICK c \in Nat : c = l + 1 /\ c + 1 = l + 2 /\ c # 0
  BY <1>7
<1>11. PICK gaps : gaps = Gaps(raw, final, s)
  OBVIOUS
<1>12. gaps = [i \in 1..c |->
            [from |-> at[stops[i][1] + 1], to |-> at[stops[i + 1][1]],
             finalFrom |-> finalAt[stops[i][2] + 1], finalTo |-> finalAt[stops[i + 1][2]]]]
  <2>1. Len(stops) - 1 = c
    BY <1>8, <1>10
  <2> QED  BY <1>3, <1>4, <1>5, <1>6, <1>11, <2>1 DEF Gaps
<1> DEFINE stop == [i \in 1..(c + 1) |-> stops[i][1]]
           finalStop == [i \in 1..(c + 1) |-> stops[i][2]]
<1>13. \A i \in 1..c : /\ gaps[i].from = at[stop[i] + 1] /\ gaps[i].to = at[stop[i + 1]]
                       /\ gaps[i].finalFrom = finalAt[finalStop[i] + 1]
                       /\ gaps[i].finalTo = finalAt[finalStop[i + 1]]
  <2>1. \A i \in 1..c : i \in 1..(c + 1) /\ i + 1 \in 1..(c + 1)
    OBVIOUS
  <2> QED  BY <1>12, <2>1
<1>14. \A i \in 1..(c + 1) : stop[i] = stops[i][1] /\ finalStop[i] = stops[i][2]
  OBVIOUS
<1> HIDE DEF stop, finalStop
<1>15. /\ \A i \in 1..c : /\ at[stop[i] + 1] \in 0..Len(raw) /\ at[stop[i + 1]] \in 0..Len(raw)
                          /\ at[stop[i] + 1] <= at[stop[i + 1]]
                          /\ stop[i] + 1 \in 1..(n + 1) /\ stop[i + 1] \in 1..(n + 1)
       /\ \A i, j \in 1..c : i < j => at[stop[i + 1]] < at[stop[j] + 1]
  <2>1. \A i \in 1..(c + 1) : stop[i] \in 0..(n + 1)
    BY <1>9, <1>10, <1>14
  <2>2. \A i, j \in 1..(c + 1) : i < j => stop[i] < stop[j]
    BY <1>9, <1>10, <1>14
  <2>3. StartsOf(at, raw, n)
    BY <1>1, <1>3
  <2> QED  BY <1>1, <1>10, <2>1, <2>2, <2>3, SideOfGap
<1>16. /\ \A i \in 1..c : /\ finalAt[finalStop[i] + 1] \in 0..Len(final) /\ finalAt[finalStop[i + 1]] \in 0..Len(final)
                          /\ finalAt[finalStop[i] + 1] <= finalAt[finalStop[i + 1]]
                          /\ finalStop[i] + 1 \in 1..(m + 1) /\ finalStop[i + 1] \in 1..(m + 1)
       /\ \A i, j \in 1..c : i < j => finalAt[finalStop[i + 1]] < finalAt[finalStop[j] + 1]
  <2>1. \A i \in 1..(c + 1) : finalStop[i] \in 0..(m + 1)
    BY <1>9, <1>10, <1>14
  <2>2. \A i, j \in 1..(c + 1) : i < j => finalStop[i] < finalStop[j]
    BY <1>9, <1>10, <1>14
  <2>3. StartsOf(finalAt, final, m)
    BY <1>2, <1>4
  <2> QED  BY <1>2, <1>10, <2>1, <2>2, <2>3, SideOfGap
<1>17. /\ gaps[1].from = 0 /\ gaps[1].finalFrom = 0
       /\ gaps[c].to = Len(raw) /\ gaps[c].finalTo = Len(final)
  <2>1. 1 \in 1..c /\ c \in 1..c /\ 1 \in 1..(c + 1) /\ c + 1 \in 1..(c + 1)
    BY <1>10
  <2>2. stop[1] = 0 /\ finalStop[1] = 0 /\ stop[c + 1] = n + 1 /\ finalStop[c + 1] = m + 1
    <3>1. stops[1] = <<0, 0>> /\ stops[c + 1] = <<n + 1, m + 1>>
      BY <1>7, <1>10 DEF StopsOf
    <3> QED  BY <1>14, <2>1, <3>1
  <2>3. at[1] = 0 /\ at[n + 1] = Len(raw) /\ finalAt[1] = 0 /\ finalAt[m + 1] = Len(final)
    BY <1>1, <1>2, <1>3, <1>4 DEF StartsOf
  <2>4. stop[1] + 1 = 1 /\ finalStop[1] + 1 = 1
    BY <2>2
  <2> QED  BY <1>13, <2>1, <2>2, <2>3, <2>4
<1>18. ASSUME NEW i \in 1..(c - 1)
       PROVE  Slice(raw, gaps[i].to, gaps[i + 1].from)
                  = Slice(final, gaps[i].finalTo, gaps[i + 1].finalFrom)
  <2>1. i \in 1..l /\ i \in 1..c /\ i + 1 \in 1..c /\ i + 1 \in 1..(c + 1)
    BY <1>10
  <2>2. PICK x : x = s[i][1]
    OBVIOUS
  <2>3. PICK y : y = s[i][2]
    OBVIOUS
  <2>4. x \in 1..n /\ y \in 1..m /\ Scalars(raw)[x] = Scalars(final)[y]
    <3>1. i \in DOMAIN s /\ DOMAIN Scalars(raw) = 1..n /\ DOMAIN Scalars(final) = 1..m
      BY <1>1, <1>2, <1>8, <2>1 DEF StartsOf
    <3> QED  BY <2>2, <2>3, <3>1 DEF Pairing
  <2>5. stop[i + 1] = x /\ finalStop[i + 1] = y
    <3>1. stops[i + 1] = s[i]
      BY <1>7, <2>1 DEF StopsOf
    <3> QED  BY <1>14, <2>1, <2>2, <2>3, <3>1
  <2>6. gaps[i].to = at[x] /\ gaps[i + 1].from = at[x + 1]
        /\ gaps[i].finalTo = finalAt[y] /\ gaps[i + 1].finalFrom = finalAt[y + 1]
    BY <1>13, <2>1, <2>5
  <2>7. Scalars(raw)[x] = Slice(raw, at[x], at[x + 1]) /\ Scalars(final)[y] = Slice(final, finalAt[y], finalAt[y + 1])
    BY <1>1, <1>2, <1>3, <1>4, <2>4 DEF StartsOf
  <2> QED  BY <2>4, <2>6, <2>7
<1>19. DOMAIN gaps = 1..c
  BY <1>12
<1>20. GapsOf(gaps, raw, final, c)
  <2>1. c \in Nat \ {0}
    BY <1>10
  <2>2. ASSUME NEW i \in 1..c
        PROVE  /\ gaps[i].from \in 0..Len(raw) /\ gaps[i].to \in 0..Len(raw)
               /\ gaps[i].finalFrom \in 0..Len(final) /\ gaps[i].finalTo \in 0..Len(final)
               /\ gaps[i].from <= gaps[i].to /\ gaps[i].finalFrom <= gaps[i].finalTo
    BY <1>13, <1>15, <1>16
  <2>3. ASSUME NEW i \in 1..c, NEW j \in 1..c, i < j
        PROVE  gaps[i].to < gaps[j].from /\ gaps[i].finalTo < gaps[j].finalFrom
    BY <1>13, <1>15, <1>16, <2>3
  <2> QED  BY <1>17, <1>18, <1>19, <2>1, <2>2, <2>3 DEF GapsOf
<1> QED  BY <1>8, <1>10, <1>11, <1>20

-----------------------------------------------------------------------------
(***************************************************************************)
(* The edits of a text, and the records of all texts in one list             *)
(***************************************************************************)
GapsBetween(raw, final) == Gaps(raw, final, Matches[<<Scalars(raw), Scalars(final)>>])
Edited(gaps) ==
    {n \in DOMAIN gaps : gaps[n].from < gaps[n].to \/ gaps[n].finalFrom < gaps[n].finalTo}

(* The gaps of two texts *)
LEMMA GapsOfTexts ==
    ASSUME NEW raw \in Seq(Byte), NEW final \in Seq(Byte)
    PROVE  /\ \E c \in Nat : GapsOf(GapsBetween(raw, final), raw, final, c)
           /\ LocalEdits(raw, final) = IF raw = final THEN <<>>
                 ELSE AtPlaces(GapsBetween(raw, final), Edited(GapsBetween(raw, final)))
<1>1. PICK n \in Nat : StartsOf(ByteStarts(raw), raw, n)
  BY StartsAre
<1>2. PICK m \in Nat : StartsOf(ByteStarts(final), final, m)
  BY StartsAre
<1>3. Scalars(raw) \in Chars /\ Scalars(final) \in Chars
  BY <1>1, <1>2 DEF StartsOf
<1>4. PICK t \in Pair : t = <<Scalars(raw), Scalars(final)>>
  BY <1>3 DEF Pair
<1>5. PICK s \in Found : s = Matches[t] /\ Pairing(s, t[1], t[2])
  BY MatchesPaired
<1>6. GapsOf(Gaps(raw, final, s), raw, final, Len(s) + 1)
  <2>1. Pairing(s, Scalars(raw), Scalars(final))
    BY <1>4, <1>5
  <2> QED  BY <1>5, <2>1, GapsAre
<1>7. GapsBetween(raw, final) = Gaps(raw, final, s)
  BY <1>4, <1>5 DEF GapsBetween
<1>8. Len(s) + 1 \in Nat
  BY <1>5, LenProperties DEF Found
<1>9. LocalEdits(raw, final) = IF raw = final THEN <<>>
         ELSE AtPlaces(GapsBetween(raw, final), Edited(GapsBetween(raw, final)))
  BY DEF LocalEdits, GapsBetween, Edited
<1> QED  BY <1>6, <1>7, <1>8, <1>9

(* Edits of a text: ranges that are not both empty, apart in both texts *)
EditsApart(edits, raw, final) ==
    /\ \E c \in Nat : DOMAIN edits = 1..c /\ c = Len(edits)
    /\ \A k \in DOMAIN edits :
           /\ edits[k].from \in 0..Len(raw) /\ edits[k].to \in 0..Len(raw)
           /\ edits[k].finalFrom \in 0..Len(final) /\ edits[k].finalTo \in 0..Len(final)
           /\ edits[k].from <= edits[k].to /\ edits[k].finalFrom <= edits[k].finalTo
           /\ edits[k].from < edits[k].to \/ edits[k].finalFrom < edits[k].finalTo
    /\ \A k, l \in DOMAIN edits : k < l => edits[k].to < edits[l].from /\ edits[k].finalTo < edits[l].finalFrom

(* Those of the gaps that are not empty, in their order *)
Selected(edits, gaps, P, n, at) ==
    /\ DOMAIN edits = 1..n /\ n = Len(edits)
    /\ \A k \in 1..n : at[k] \in P /\ edits[k] = gaps[at[k]]
    /\ \A k, l \in 1..n : k < l <=> at[k] < at[l]
    /\ \A x \in P : \E k \in 1..n : at[k] = x

(* The gaps that are selected are in their order.                            *)
LEMMA GapsInOrder ==
    ASSUME NEW c \in Nat, NEW gaps, NEW P \in SUBSET (1..c), NEW edits, edits = AtPlaces(gaps, P)
    PROVE  \E n \in Nat : \E at : Selected(edits, gaps, P, n, at)
<1>1. PICK at : at = InOrder(P)
  OBVIOUS
<1>2. P \in SUBSET Int /\ IsFiniteSet(P)
  <2>1. IsFiniteSet(1..c)
    BY FS_Interval
  <2>2. P \in SUBSET Int
    OBVIOUS
  <2> QED  BY <2>1, <2>2, FS_Subset, Zenon
<1>3. \A k, l \in DOMAIN at : k < l <=> at[k] < at[l]
  BY <1>1, <1>2, NumbersInOrder
<1>4. /\ DOMAIN edits = DOMAIN at
      /\ \A k \in DOMAIN at : edits[k] = gaps[at[k]] /\ at[k] \in P
      /\ \A x \in P : \E k \in DOMAIN at : at[k] = x
      /\ \E n \in Nat : n = Len(edits) /\ DOMAIN edits = 1..n
  <2>1. /\ DOMAIN AtPlaces(gaps, P) = DOMAIN InOrder(P)
        /\ \A k \in DOMAIN InOrder(P) : AtPlaces(gaps, P)[k] = gaps[InOrder(P)[k]] /\ InOrder(P)[k] \in P
        /\ \A x \in P : \E k \in DOMAIN InOrder(P) : InOrder(P)[k] = x
        /\ \E n \in Nat : n = Len(AtPlaces(gaps, P)) /\ DOMAIN AtPlaces(gaps, P) = 1..n
    BY AtPlacesType
  <2> QED  BY <1>1, <2>1
<1>5. PICK n \in Nat : n = Len(edits) /\ DOMAIN edits = 1..n
  BY <1>4
<1>6. DOMAIN at = 1..n
  BY <1>4, <1>5
<1>7. /\ \A k \in 1..n : at[k] \in P /\ edits[k] = gaps[at[k]]
      /\ \A k, l \in 1..n : k < l <=> at[k] < at[l]
      /\ \A x \in P : \E k \in 1..n : at[k] = x
  BY <1>3, <1>4, <1>6
<1>8. Selected(edits, gaps, P, n, at)
  BY <1>5, <1>7 DEF Selected
<1> QED  BY <1>8

(* The edits of two texts are apart.                                         *)
LEMMA EditsAre ==
    ASSUME NEW raw \in Seq(Byte), NEW final \in Seq(Byte)
    PROVE  EditsApart(LocalEdits(raw, final), raw, final)
<1>1. CASE raw = final
  <2>1. LocalEdits(raw, final) = <<>>
    BY <1>1, GapsOfTexts
  <2>2. DOMAIN << >> = 1..0 /\ Len(<< >>) = 0
    OBVIOUS
  <2>3. DOMAIN LocalEdits(raw, final) = 1..0 /\ Len(LocalEdits(raw, final)) = 0
    BY <2>1, <2>2
  <2> QED  BY <2>3 DEF EditsApart
<1>2. CASE raw # final
  <2>1. PICK gaps : gaps = GapsBetween(raw, final)
    OBVIOUS
  <2>2. PICK c \in Nat : GapsOf(gaps, raw, final, c)
    BY <2>1, GapsOfTexts
  <2>3. PICK edits : edits = LocalEdits(raw, final)
    OBVIOUS
  <2>4. edits = AtPlaces(gaps, Edited(gaps))
    BY <1>2, <2>1, <2>3, GapsOfTexts
  <2>5. PICK P \in SUBSET (1..c) : P = Edited(gaps)
    BY <2>2 DEF GapsOf, Edited
  <2>0. PICK n \in Nat : \E at : Selected(edits, gaps, P, n, at)
    BY <2>4, <2>5, GapsInOrder
  <2>10. PICK at : Selected(edits, gaps, P, n, at)
    BY <2>0
  <2>6. /\ DOMAIN edits = 1..n /\ n = Len(edits)
        /\ \A k \in 1..n : at[k] \in P /\ edits[k] = gaps[at[k]]
        /\ \A k, l \in 1..n : k < l <=> at[k] < at[l]
    BY <2>10 DEF Selected
  <2>7. ASSUME NEW k \in 1..n
        PROVE  /\ edits[k].from \in 0..Len(raw) /\ edits[k].to \in 0..Len(raw)
               /\ edits[k].finalFrom \in 0..Len(final) /\ edits[k].finalTo \in 0..Len(final)
               /\ edits[k].from <= edits[k].to /\ edits[k].finalFrom <= edits[k].finalTo
               /\ edits[k].from < edits[k].to \/ edits[k].finalFrom < edits[k].finalTo
    <3>1. PICK i \in 1..c : i = at[k] /\ i \in P /\ edits[k] = gaps[i]
      BY <2>5, <2>6
    <3>2. gaps[i].from < gaps[i].to \/ gaps[i].finalFrom < gaps[i].finalTo
      BY <2>5, <3>1 DEF Edited
    <3> QED  BY <2>2, <3>1, <3>2 DEF GapsOf
  <2>8. ASSUME NEW k \in 1..n, NEW l \in 1..n, k < l
        PROVE  edits[k].to < edits[l].from /\ edits[k].finalTo < edits[l].finalFrom
    <3>1. PICK i \in 1..c : i = at[k] /\ edits[k] = gaps[i]
      BY <2>5, <2>6
    <3>2. PICK j \in 1..c : j = at[l] /\ edits[l] = gaps[j]
      BY <2>5, <2>6
    <3>3. i < j
      BY <2>6, <2>8, <3>1, <3>2
    <3> QED  BY <2>2, <3>1, <3>2, <3>3 DEF GapsOf
  <2>9. EditsApart(edits, raw, final)
    BY <2>6, <2>7, <2>8 DEF EditsApart
  <2> QED  BY <2>3, <2>9
<1> QED  BY <1>1, <1>2

(* Where the elements of the sequences of q are in their join f: by the sequence and by the  *)
(* place in it                                                               *)
Places(f, q, m, of, nth) ==
    /\ \E l \in Nat : l = Len(f) /\ DOMAIN f = 1..l
    /\ \A k \in DOMAIN f : of[k] \in 1..m /\ nth[k] \in DOMAIN q[of[k]] /\ f[k] = q[of[k]][nth[k]]
    /\ \A k, l \in DOMAIN f : k < l <=> of[k] < of[l] \/ (of[k] = of[l] /\ nth[k] < nth[l])
    /\ \A n \in 1..m : \A j \in DOMAIN q[n] : \E k \in DOMAIN f : of[k] = n /\ nth[k] = j

(* One sequence more is joined. *)
LEMMA PlacesStep ==
    ASSUME NEW S, NEW q, NEW m \in Nat, NEW f \in Seq(S), q[m + 1] \in Seq(S),
           NEW of, NEW nth, Places(f, q, m, of, nth)
    PROVE  \E of2, nth2 : Places(f \o q[m + 1], q, m + 1, of2, nth2)
<1>1. PICK w \in Seq(S) : w = q[m + 1]
  OBVIOUS
<1>2. PICK p \in Nat : p = Len(f) /\ DOMAIN f = 1..p
  BY LenProperties
<1>3. PICK r \in Nat : r = Len(w) /\ DOMAIN w = 1..r
  BY LenProperties
<1>4. PICK g \in Seq(S) : g = f \o w
  BY ConcatProperties
<1>5. /\ Len(g) = p + r /\ DOMAIN g = 1..(p + r)
      /\ \A k \in 1..p : g[k] = f[k]
      /\ \A k \in (p + 1)..(p + r) : g[k] = w[k - p] /\ k - p \in 1..r
  <2>1. Len(g) = p + r /\ \A k \in 1..(p + r) : g[k] = IF k <= p THEN f[k] ELSE w[k - p]
    BY <1>2, <1>3, <1>4, ConcatProperties
  <2>2. DOMAIN g = 1..(p + r)
    BY <2>1, LenProperties
  <2>3. ASSUME NEW k \in 1..p PROVE g[k] = f[k]
    BY <2>1
  <2>4. ASSUME NEW k \in (p + 1)..(p + r) PROVE g[k] = w[k - p] /\ k - p \in 1..r
    BY <2>1
  <2> QED  BY <2>1, <2>2, <2>3, <2>4
<1>6. PICK n \in Nat : n = m + 1
  OBVIOUS
<1>7. PICK of2 : of2 = [k \in 1..(p + r) |-> IF k <= p THEN of[k] ELSE n]
  OBVIOUS
<1>8. PICK nth2 : nth2 = [k \in 1..(p + r) |-> IF k <= p THEN nth[k] ELSE k - p]
  OBVIOUS
<1>9. ASSUME NEW k \in 1..p
      PROVE  k \in 1..(p + r) /\ of2[k] = of[k] /\ nth2[k] = nth[k] /\ of[k] \in 1..m /\ of2[k] \in 1..n
             /\ nth2[k] \in DOMAIN q[of2[k]] /\ g[k] = q[of2[k]][nth2[k]]
  <2>1. k \in 1..(p + r) /\ k <= p
    OBVIOUS
  <2>2. of2[k] = of[k] /\ nth2[k] = nth[k]
    BY <1>7, <1>8, <2>1
  <2>3. of[k] \in 1..m /\ nth[k] \in DOMAIN q[of[k]] /\ f[k] = q[of[k]][nth[k]]
    BY <1>2 DEF Places
  <2>4. of[k] \in 1..n
    BY <1>6, <2>3
  <2>5. g[k] = f[k]
    BY <1>5
  <2> QED  BY <2>1, <2>2, <2>3, <2>4, <2>5
<1>10. ASSUME NEW k \in (p + 1)..(p + r)
       PROVE  k \in 1..(p + r) /\ of2[k] = n /\ nth2[k] = k - p /\ k - p \in 1..r
              /\ nth2[k] \in DOMAIN q[of2[k]] /\ g[k] = q[of2[k]][nth2[k]]
  <2>1. k \in 1..(p + r) /\ ~(k <= p)
    OBVIOUS
  <2>2. of2[k] = n /\ nth2[k] = k - p
    BY <1>7, <1>8, <2>1
  <2> QED  BY <1>1, <1>3, <1>5, <1>6, <2>1, <2>2
<1>11. \A k \in 1..(p + r) : k \in 1..p \/ k \in (p + 1)..(p + r)
  OBVIOUS
<1>12. \A k \in DOMAIN g : of2[k] \in 1..n /\ nth2[k] \in DOMAIN q[of2[k]] /\ g[k] = q[of2[k]][nth2[k]]
  BY <1>5, <1>6, <1>9, <1>10, <1>11, SMTT(30)
<1>13. ASSUME NEW k \in DOMAIN g, NEW l \in DOMAIN g
       PROVE  k < l <=> of2[k] < of2[l] \/ (of2[k] = of2[l] /\ nth2[k] < nth2[l])
  <2>1. k \in 1..(p + r) /\ l \in 1..(p + r)
    BY <1>5
  <2>2. CASE k \in 1..p /\ l \in 1..p
    <3>1. k < l <=> of[k] < of[l] \/ (of[k] = of[l] /\ nth[k] < nth[l])
      BY <1>2, <2>2 DEF Places
    <3> QED  BY <1>9, <2>2, <3>1
  <2>3. CASE k \in 1..p /\ l \in (p + 1)..(p + r)
    <3>1. k < l /\ of2[k] \in 1..m /\ of2[l] = n
      BY <1>9, <1>10, <2>3, SMTT(30)
    <3> QED  BY <1>6, <3>1
  <2>4. CASE k \in (p + 1)..(p + r) /\ l \in 1..p
    <3>1. ~(k < l)
      BY <2>4
    <3>2. of2[l] \in 1..m /\ of2[k] = n
      BY <1>9, <1>10, <2>4
    <3> QED  BY <1>6, <3>1, <3>2
  <2>5. CASE k \in (p + 1)..(p + r) /\ l \in (p + 1)..(p + r)
    <3>1. of2[k] = n /\ of2[l] = n /\ nth2[k] = k - p /\ nth2[l] = l - p
      BY <1>10, <2>5
    <3>3. k \in Int /\ l \in Int /\ p \in Int
      BY <2>5
    <3>2. k < l <=> k - p < l - p
      BY <3>3
    <3> QED  BY <1>6, <3>1, <3>2
  <2> QED  BY <1>11, <2>1, <2>2, <2>3, <2>4, <2>5
<1>14. ASSUME NEW i \in 1..n, NEW j \in DOMAIN q[i]
       PROVE  \E k \in DOMAIN g : of2[k] = i /\ nth2[k] = j
  <2>1. CASE i = n
    <3>1. j \in 1..r
      BY <1>1, <1>3, <1>6, <2>1
    <3>2. PICK k \in (p + 1)..(p + r) : k = p + j /\ k - p = j
      BY <3>1
    <3>3. of2[k] = n /\ nth2[k] = j
      BY <1>10, <3>2
    <3>4. k \in DOMAIN g
      BY <1>5, <1>10, <3>2
    <3> QED  BY <2>1, <3>3, <3>4
  <2>2. CASE i # n
    <3>1. i \in 1..m
      BY <1>6, <2>2
    <3>4. \A x \in 1..m : \A y \in DOMAIN q[x] : \E k \in DOMAIN f : of[k] = x /\ nth[k] = y
      BY Zenon DEF Places
    <3>2. \E k \in DOMAIN f : of[k] = i /\ nth[k] = j
      BY <3>1, <3>4, Zenon
    <3>3. PICK k \in 1..p : of[k] = i /\ nth[k] = j
      BY <1>2, <3>2, Zenon
    <3> QED  BY <1>5, <1>9, <3>3
  <2> QED  BY <2>1, <2>2
<1>15. \E l \in Nat : l = Len(g) /\ DOMAIN g = 1..l
  BY <1>5
<1>16. Places(g, q, n, of2, nth2)
  BY <1>12, <1>13, <1>14, <1>15 DEF Places
<1> QED  BY <1>1, <1>4, <1>6, <1>16

(* The elements of the sequences of q, one sequence after another *)
LEMMA FlattenPlaces ==
    ASSUME NEW S, NEW q \in Seq(Seq(S)), NEW m \in Nat, m = Len(q)
    PROVE  FlattenSeq(q) \in Seq(S) /\ \E of, nth : Places(FlattenSeq(q), q, m, of, nth)
<1>1. \A i \in 1..m : q[i] \in Seq(S)
  OBVIOUS
<1>2. FlattenSeq(q) \in Seq(S)
  BY FlattenType
<1>3. Places(<< >>, q, 0, << >>, << >>)
  <2>1. DOMAIN << >> = 1..0 /\ Len(<< >>) = 0
    OBVIOUS
  <2> QED  BY <2>1 DEF Places
<1>4. CASE m = 0
  <2>1. q = <<>>
    BY <1>4, EmptySeq
  <2>2. FlattenSeq(q) = q
    BY <1>4, Zenon DEF FlattenSeq
  <2>3. Places(FlattenSeq(q), q, m, << >>, << >>)
    BY <1>3, <1>4, <2>1, <2>2
  <2> QED  BY <1>2, <2>3
<1>5. CASE m # 0
  <2> DEFINE flatten == CHOOSE f : f = [i \in 1..m |-> IF i = 1 THEN q[i] ELSE f[i - 1] \o q[i]]
  <2>1. FlattenSeq(q) = flatten[m]
    BY <1>5, Zenon DEF FlattenSeq
  <2>2. PICK g \in [1..m -> Seq(S)] : Joins(g, q, m)
    BY JoinsExist DEF Joinable
  <2>3. g = [i \in 1..m |-> IF i = 1 THEN q[i] ELSE g[i - 1] \o q[i]]
    BY <2>2 DEF Joins
  <2>4. flatten = [i \in 1..m |-> IF i = 1 THEN q[i] ELSE flatten[i - 1] \o q[i]]
    BY <2>3, Zenon
  <2> HIDE DEF flatten
  <2>5. \A i \in 1..m : flatten[i] = IF i = 1 THEN q[i] ELSE flatten[i - 1] \o q[i]
    BY <2>4
  <2> DEFINE G == {i \in Nat : 1 <= i /\ i <= m =>
                      flatten[i] \in Seq(S) /\ \E of, nth : Places(flatten[i], q, i, of, nth)}
  <2>6. 0 \in G
    OBVIOUS
  <2>7. ASSUME NEW i \in Nat, i \in G PROVE i + 1 \in G
    <3> SUFFICES ASSUME i + 1 <= m
                 PROVE  flatten[i + 1] \in Seq(S) /\ \E of, nth : Places(flatten[i + 1], q, i + 1, of, nth)
      OBVIOUS
    <3>1. i + 1 \in 1..m /\ q[i + 1] \in Seq(S)
      BY <1>1
    <3>2. CASE i = 0
      <4>1. PICK w \in Seq(S) : w = q[1] /\ flatten[1] = w
        BY <2>5, <3>1, <3>2
      <4>2. << >> \o w = w
        OBVIOUS
      <4>3. << >> \in Seq(S) /\ i + 1 = 1 /\ q[0 + 1] = w /\ 0 + 1 = 1
        BY <3>2, <4>1
      <4>4. \E of, nth : Places(<< >> \o q[0 + 1], q, 0 + 1, of, nth)
        BY <1>3, <4>1, <4>3, PlacesStep
      <4>5. \E of, nth : Places(w, q, 1, of, nth)
        BY <4>2, <4>3, <4>4
      <4> QED  BY <4>1, <4>3, <4>5
    <3>3. CASE i # 0
      <4>1. PICK f \in Seq(S) : f = flatten[i] /\ \E of, nth : Places(f, q, i, of, nth)
        BY <2>7, <3>3
      <4>2. PICK of, nth : Places(f, q, i, of, nth)
        BY <4>1
      <4>3. flatten[i + 1] = f \o q[i + 1]
        <5>1. i + 1 # 1 /\ (i + 1) - 1 = i
          BY <3>3
        <5> QED  BY <2>5, <3>1, <4>1, <5>1
      <4>4. f \o q[i + 1] \in Seq(S)
        BY <3>1, <4>1
      <4>5. \E of2, nth2 : Places(f \o q[i + 1], q, i + 1, of2, nth2)
        BY <3>1, <4>1, <4>2, PlacesStep
      <4> QED  BY <4>3, <4>4, <4>5
    <3> QED  BY <3>2, <3>3
  <2>8. m \in G
    <3> HIDE DEF G
    <3> QED  BY <2>6, <2>7, NatSet
  <2> QED  BY <1>2, <1>5, <2>1, <2>8
<1> QED  BY <1>4, <1>5

-----------------------------------------------------------------------------
(***************************************************************************)
(* What a case would replace is not what it would put there                  *)
(***************************************************************************)
(* Where a detector of exact matches finds a form, the text is not the canonical term.     *)
LEMMA ExactDiffers ==
    ASSUME NEW segs, Texts(segs), NEW ents \in Seq(Entry), NEW detector \in {Glossary, Observed},
           FormsDiffer(ents), NEW c \in ExactSpans(segs, ents, detector)
    PROVE  Slice(segs[c.segment].text, c.start, c.end) # c.replacement
<1>1. PICK n \in DOMAIN segs, e \in Range(ents) :
          c \in UNION {{Span(n, start, start + Len(form), detector, e.canonical) :
                           start \in MatchStarts(segs[n].text, form)}
                       : form \in Range(FormsOf(detector, e)) \ {e.canonical}}
  BY DEF ExactSpans
<1>2. PICK form \in Range(FormsOf(detector, e)) \ {e.canonical} :
          \E start \in MatchStarts(segs[n].text, form) :
              c = Span(n, start, start + Len(form), detector, e.canonical)
  BY <1>1
<1>3. PICK start \in MatchStarts(segs[n].text, form) :
          c = Span(n, start, start + Len(form), detector, e.canonical)
  BY <1>2
<1>4. e \in Entry
  BY DEF Range
<1>5. form \in Seq(Byte)
  <2>1. FormsOf(detector, e) \in Seq(Seq(Byte))
    BY <1>4 DEF FormsOf, Entry
  <2> QED  BY <2>1 DEF Range
<1>6. Occurs(segs[n].text, form, start)
  <2>1. segs[n].text \in Seq(Byte)
    BY TextType
  <2> QED  BY <1>3, <1>5, <2>1, MatchesType
<1>7. c.segment = n /\ c.start = start /\ c.end = start + Len(form) /\ c.replacement = e.canonical
  BY <1>3 DEF Span
<1> QED  BY <1>2, <1>6, <1>7 DEF Occurs

(* A key that begins with a greater number does not come before. *)
LEMMA RankFirst ==
    ASSUME NEW a \in Seq(Int), NEW b \in Seq(Int), Len(a) >= 1, Len(b) >= 1, a[1] > b[1]
    PROVE  ~LexLess(a, b)
<1>1. ~IsStrictPrefix(a, b)
  <2>1. 1 \in 1..Len(a) /\ a[1] # b[1]
    <3>1. a[1] \in Int /\ b[1] \in Int
      BY ElementOfSeq
    <3>2. Len(a) \in Nat
      BY LenProperties
    <3> QED  BY <3>1, <3>2
  <2> QED  BY <2>1, StrictPrefix
<1>2. ASSUME NEW k \in DOMAIN a \cap DOMAIN b, \A j \in 1..(k - 1) : a[j] = b[j], a[k] < b[k] PROVE FALSE
  <2>1. k \in Nat /\ k >= 1 /\ a[1] \in Int /\ b[1] \in Int
    <3>1. k \in 1..Len(a) /\ Len(a) \in Nat
      BY LenProperties
    <3>2. a[1] \in Int /\ b[1] \in Int
      BY ElementOfSeq
    <3> QED  BY <3>1, <3>2
  <2>2. CASE k = 1
    BY <1>2, <2>1, <2>2
  <2>3. CASE k # 1
    <3>1. 1 \in 1..(k - 1)
      BY <2>1, <2>3
    <3>2. a[1] = b[1]
      BY <1>2, <3>1
    <3> QED  BY <2>1, <3>2
  <2> QED  BY <2>2, <2>3
<1> QED  BY <1>1, <1>2 DEF LexLess

(* What follows does not change how a sequence begins. *)
Begins(s, x) == Len(s) >= 1 /\ s[1] = x

(* A sequence that begins with x still does when another is joined to it.    *)
LEMMA JoinHead ==
    ASSUME NEW a \in Seq(Int), NEW b \in Seq(Int), NEW x, Begins(a, x), NEW s, s = a \o b
    PROVE  s \in Seq(Int) /\ Begins(s, x)
<1>1. /\ a \o b \in Seq(Int) /\ Len(a \o b) = Len(a) + Len(b)
      /\ \A i \in 1..(Len(a) + Len(b)) : (a \o b)[i] = IF i <= Len(a) THEN a[i] ELSE b[i - Len(a)]
  BY ConcatProperties
<1>2. Len(a) \in Nat /\ Len(b) \in Nat
  BY LenProperties
<1>3. 1 \in 1..(Len(a) + Len(b)) /\ 1 <= Len(a)
  BY <1>2 DEF Begins
<1> QED  BY <1>1, <1>2, <1>3 DEF Begins

(* A target's key is a key, and begins with its rank. *)
LEMMA TargetKeyType ==
    ASSUME NEW t, t.rank \in Int, t.surface \in Seq(Byte)
    PROVE  TargetKey(t) \in Seq(Int) /\ Len(TargetKey(t)) >= 1 /\ TargetKey(t)[1] = t.rank
<1>1. PICK a \in Seq(Int) : a = <<t.rank>>
  <2>1. <<t.rank>> \in Seq(Int)
    OBVIOUS
  <2> QED  BY <2>1
<1>2. Len(a) >= 1 /\ a[1] = t.rank
  BY <1>1
<1>3. PICK text \in Seq(Byte) : text = t.surface
  OBVIOUS
<1>4. \A x \in Byte : x \in Int
  BY DEF Byte
<1>5. PICK b \in Seq(Int) : b = Lowercase(text)
  <2>1. PICK n \in Nat : n = Len(text) /\ DOMAIN text = 1..n
    BY LenProperties
  <2>2. \A i \in 1..n : text[i] \in Int
    BY <1>4, <2>1, ElementOfSeq
  <2>3. PICK lower : lower = [i \in 1..n |-> IF text[i] \in Upper THEN text[i] + 32 ELSE text[i]]
    OBVIOUS
  <2>4. \A i \in 1..n : lower[i] \in Int
    BY <2>2, <2>3
  <2>5. lower \in Seq(Int)
    BY <2>3, <2>4
  <2>6. Lowercase(text) = lower
    BY <2>1, <2>3 DEF Lowercase
  <2> QED  BY <2>5, <2>6
<1>6. PICK c \in Seq(Int) : c = <<-1>>
  <2>1. <<-1>> \in Seq(Int)
    OBVIOUS
  <2> QED  BY <2>1
<1>7. PICK d \in Seq(Int) : d = text
  <2>1. text \in Seq(Int)
    BY <1>4
  <2> QED  BY <2>1
<1>8. PICK ab : ab = a \o b
  OBVIOUS
<1>9. ab \in Seq(Int) /\ Begins(ab, t.rank)
  <2>1. Begins(a, t.rank)
    BY <1>2 DEF Begins
  <2> QED  BY <1>8, <2>1, JoinHead
<1>10. PICK abc : abc = ab \o c
  OBVIOUS
<1>12. abc \in Seq(Int) /\ Begins(abc, t.rank)
  BY <1>9, <1>10, JoinHead
<1>13. PICK abcd : abcd = abc \o d
  OBVIOUS
<1>14. abcd \in Seq(Int) /\ Begins(abcd, t.rank)
  BY <1>12, <1>13, JoinHead
<1>11. TargetKey(t) = a \o b \o c \o d
  BY <1>1, <1>3, <1>5, <1>6, <1>7 DEF TargetKey
<1> QED  BY <1>8, <1>10, <1>11, <1>13, <1>14 DEF Begins

(* A canonical term with the form of a surface is a target. *)
LEMMA CanonicalIsTarget ==
    ASSUME NEW ents \in Seq(Entry), NEW e \in Range(ents), IsStructural(e.canonical)
    PROVE  \E t \in TargetsOf(ents) : t.tokens = Tokens(e.canonical)
<1> DEFINE named == UNION {{<<f.canonical, 0, f.canonical>>}
                            \cup {<<a, 1, f.canonical>> : a \in Range(f.aliases)}
                            : f \in Range(ents)}
           ours == {f \in named : IsStructural(f[1])}
           all == {Target(f[1], f[2], f[3], Tokens(f[1])) : f \in ours}
<1>1. TargetsOf(ents) = FirstOfEach(all)
  BY DEF TargetsOf
<1>2. ASSUME NEW f \in named
      PROVE  f[1] \in Seq(Byte) /\ ((f[2] = 0 /\ f[1] = f[3]) \/ f[2] = 1)
  <2>1. PICK g \in Range(ents) : f \in {<<g.canonical, 0, g.canonical>>}
                            \cup {<<a, 1, g.canonical>> : a \in Range(g.aliases)}
    BY <1>2
  <2>2. g.canonical \in Seq(Byte) /\ \A a \in Range(g.aliases) : a \in Seq(Byte)
    <3>1. g \in Entry
      BY DEF Range
    <3> QED  BY <3>1 DEF Entry, Range
  <2> HIDE DEF named
  <2> QED  BY <2>1, <2>2
<1>3. PICK own \in named : own = <<e.canonical, 0, e.canonical>>
  <2>1. <<e.canonical, 0, e.canonical>> \in named
    OBVIOUS
  <2> QED  BY <2>1
<1> HIDE DEF named
<1>4. own \in ours /\ own[1] = e.canonical /\ own[2] = 0 /\ own[3] = e.canonical
  BY <1>3
<1>5. PICK t \in all : t = Target(e.canonical, 0, e.canonical, Tokens(e.canonical))
  BY <1>4
<1>6. ASSUME NEW u \in all PROVE u.rank \in {0, 1} /\ u.surface \in Seq(Byte)
                                 /\ (u.rank = 0 => u.surface = u.owner)
  <2>1. PICK f \in ours : u = Target(f[1], f[2], f[3], Tokens(f[1]))
    BY <1>6
  <2>2. u.rank = f[2] /\ u.surface = f[1] /\ u.owner = f[3]
    BY <2>1 DEF Target
  <2>3. f \in named
    OBVIOUS
  <2> HIDE DEF ours, all
  <2> QED  BY <1>2, <2>2, <2>3
<1>7. t.rank = 0 /\ t.surface = e.canonical /\ t.owner = e.canonical /\ t.tokens = Tokens(e.canonical)
  BY <1>5 DEF Target
<1> HIDE DEF ours, all
<1>8. ASSUME NEW u \in all, u.owner = t.owner PROVE ~LexLess(TargetKey(u), TargetKey(t))
  <2>1. /\ TargetKey(u) \in Seq(Int) /\ Len(TargetKey(u)) >= 1 /\ TargetKey(u)[1] = u.rank
        /\ TargetKey(t) \in Seq(Int) /\ Len(TargetKey(t)) >= 1 /\ TargetKey(t)[1] = t.rank
    <3>1. u.rank \in Int /\ u.surface \in Seq(Byte) /\ t.rank \in Int /\ t.surface \in Seq(Byte)
      BY <1>6
    <3> QED  BY <3>1, TargetKeyType
  <2>2. CASE u.rank = 0
    <3>1. u.surface = t.surface
      BY <1>6, <1>7, <1>8, <2>2
    <3>2. TargetKey(u) = TargetKey(t)
      BY <1>7, <2>2, <3>1 DEF TargetKey
    <3> QED  BY <2>1, <3>2, LexOrder
  <2>3. CASE u.rank = 1
    <3>1. TargetKey(u)[1] > TargetKey(t)[1]
      BY <1>7, <2>1, <2>3
    <3> QED  BY <2>1, <3>1, RankFirst
  <2> QED  BY <1>6, <2>2, <2>3
<1>9. t \in TargetsOf(ents)
  BY <1>1, <1>8 DEF FirstOfEach
<1> QED  BY <1>7, <1>9

(* Where the phonetic detector finds a term, the text is not that term.                *)
LEMMA NearDiffers ==
    ASSUME NEW segs, NEW ents \in Seq(Entry), NEW c, Similar(c, segs, TargetsOf(ents))
    PROVE  Slice(segs[c.segment].text, c.start, c.end) # c.replacement
<1>1. PICK n \in DOMAIN segs : \E w \in Windows(segs[n].text) :
        \E owner \in NearOwners(segs, n, w, TargetsOf(ents)) : c = Span(n, w.start, w.end, Phonetic, owner)
  BY DEF Similar
<1>2. PICK w \in Windows(segs[n].text) :
        \E owner \in NearOwners(segs, n, w, TargetsOf(ents)) : c = Span(n, w.start, w.end, Phonetic, owner)
  BY <1>1
<1>3. PICK owner \in NearOwners(segs, n, w, TargetsOf(ents)) : c = Span(n, w.start, w.end, Phonetic, owner)
  BY <1>2
<1>4. PICK surface : surface = Slice(segs[n].text, w.start, w.end)
  OBVIOUS
<1>5. c.segment = n /\ c.start = w.start /\ c.end = w.end /\ c.replacement = owner
  BY <1>3 DEF Span
<1>6. IsStructural(surface)
  BY <1>4 DEF Windows
<1>7. owner \in Owners(Tokens(surface), TargetsOf(ents))
  BY <1>3, <1>4 DEF NearOwners, SingleOwner
<1>8. ~\E t \in TargetsOf(ents) : t.tokens = Tokens(surface)
  BY <1>7 DEF Owners
<1>9. PICK t \in TargetsOf(ents) : owner = t.owner
  BY <1>7, <1>8 DEF Owners
<1>10. PICK e \in Range(ents) : owner = e.canonical
  BY <1>9, TargetOwners
<1>11. surface # owner
  BY <1>6, <1>8, <1>10, CanonicalIsTarget
<1> QED  BY <1>4, <1>5, <1>11

(* A case's text is never what it would be replaced by. *)
LEMMA CasesDiffer ==
    ASSUME NEW segs, Texts(segs), NEW ents \in Seq(Entry),
           DetectionError(RunFor(segs, ents), segs, ents) = None,
           NEW c \in CanonicalSpans(segs, ents)
    PROVE  Slice(segs[c.segment].text, c.start, c.end) # c.replacement
<1>1. FormsDiffer(ents)
  BY DetectedForms
<1>2. \/ c \in ExactSpans(segs, ents, Glossary) \/ c \in ExactSpans(segs, ents, Observed)
      \/ Similar(c, segs, TargetsOf(ents))
  BY NearSpan DEF CanonicalSpans, PhoneticSpans
<1> QED  BY <1>1, <1>2, ExactDiffers, NearDiffers

-----------------------------------------------------------------------------
(***************************************************************************)
(* A text in which ranges are replaced                                       *)
(***************************************************************************)
(* A text in which the bytes from..to are replaced *)
SpliceAt(r, t) == SubSeq(t, 1, r.edit.from) \o r.text \o SubSeq(t, r.edit.to + 1, Len(t))
Replaced(s, t, from, to, new, n, m) ==
    /\ s \in Seq(Byte) /\ n = Len(t) /\ m = Len(new) /\ n \in Nat /\ m \in Nat
    /\ Len(s) = from + m + (n - to)
    /\ \A i \in 1..from : s[i] = t[i]
    /\ \A i \in 1..m : s[from + i] = new[i]
    /\ \A i \in 1..(n - to) : s[from + m + i] = t[to + i]

(* Of two texts joined, the bytes of each *)
JoinOf(s, a, b, n, m) ==
    /\ s \in Seq(Byte) /\ n \in Nat /\ m \in Nat /\ n = Len(a) /\ m = Len(b) /\ Len(s) = n + m
    /\ \A i \in 1..n : s[i] = a[i]
    /\ \A i \in 1..m : s[n + i] = b[i]

(* Joined texts are such a text.                                             *)
LEMMA JoinedTexts ==
    ASSUME NEW a \in Seq(Byte), NEW b \in Seq(Byte), NEW n, n = Len(a), NEW m, m = Len(b), NEW s, s = a \o b
    PROVE  JoinOf(s, a, b, n, m)
<1>1. n \in Nat /\ m \in Nat
  BY LenProperties
<1>2. /\ s \in Seq(Byte) /\ Len(s) = n + m
      /\ \A i \in 1..(n + m) : s[i] = IF i <= n THEN a[i] ELSE b[i - n]
  BY ConcatProperties
<1>3. ASSUME NEW i \in 1..n PROVE s[i] = a[i]
  BY <1>1, <1>2
<1>4. ASSUME NEW i \in 1..m PROVE s[n + i] = b[i]
  <2>1. n + i \in 1..(n + m) /\ ~(n + i <= n) /\ (n + i) - n = i
    BY <1>1
  <2> QED  BY <1>2, <2>1
<1> QED  BY <1>1, <1>2, <1>3, <1>4 DEF JoinOf

(* A part of a text, by its bytes *)
PartOf(s, t, from, n) ==
    s \in Seq(Byte) /\ n \in Nat /\ Len(s) = n /\ \A i \in 1..n : s[i] = t[from + i]

(* SubSeq cuts out such a part.                                              *)
LEMMA PartIs ==
    ASSUME NEW t \in Seq(Byte), NEW from \in Nat, NEW to \in Nat, from <= to, to <= Len(t),
           NEW s, s = SubSeq(t, from + 1, to)
    PROVE  PartOf(s, t, from, to - from)
<1>1. s = Slice(t, from, to)
  BY DEF Slice
<1>2. to \in 0..Len(t)
  BY LenProperties
<1>3. CASE from < to
  <2>1. s \in Seq(Byte) /\ Len(s) = to - from /\ \A i \in 1..(to - from) : s[i] = t[from + i]
    BY <1>1, <1>2, <1>3, SliceType
  <2>2. to - from \in Nat
    BY <1>3
  <2> QED  BY <2>1, <2>2 DEF PartOf
<1>4. CASE from = to
  <2>1. s = << >>
    BY <1>4
  <2>2. to - from = 0 /\ << >> \in Seq(Byte) /\ Len(<< >>) = 0
    BY <1>4
  <2> QED  BY <2>1, <2>2 DEF PartOf
<1> QED  BY <1>3, <1>4

(* What splicing makes of a text                                             *)
LEMMA SpliceAtIs ==
    ASSUME NEW t \in Seq(Byte), NEW r, r.text \in Seq(Byte), r.edit.from \in Nat, r.edit.to \in Nat,
           r.edit.from <= r.edit.to, r.edit.to <= Len(t),
           NEW n, n = Len(t), NEW m, m = Len(r.text)
    PROVE  Replaced(SpliceAt(r, t), t, r.edit.from, r.edit.to, r.text, n, m)
<1>1. PICK from \in Nat : from = r.edit.from
  OBVIOUS
<1>2. PICK to \in Nat : to = r.edit.to
  OBVIOUS
<1>3. PICK new \in Seq(Byte) : new = r.text
  OBVIOUS
<1>4. n \in Nat /\ m \in Nat /\ from <= to /\ to <= n /\ m = Len(new)
  BY <1>1, <1>2, <1>3, LenProperties
<1>5. PICK a : a = SubSeq(t, 1, from)
  OBVIOUS
<1>6. PartOf(a, t, 0, from - 0)
  <2>1. a = SubSeq(t, 0 + 1, from) /\ 0 <= from /\ from <= Len(t) /\ 0 \in Nat
    BY <1>4, <1>5
  <2> QED  BY <2>1, PartIs
<1>7. PICK c : c = SubSeq(t, to + 1, n)
  OBVIOUS
<1>8. PartOf(c, t, to, n - to)
  <2>1. n \in Nat /\ to <= n /\ n <= Len(t)
    BY <1>4
  <2> QED  BY <1>7, <2>1, PartIs
<1>9. a \in Seq(Byte) /\ c \in Seq(Byte) /\ Len(a) = from /\ Len(c) = n - to
      /\ (\A i \in 1..from : a[i] = t[i]) /\ \A i \in 1..(n - to) : c[i] = t[to + i]
  <2>1. from - 0 = from /\ \A i \in 1..from : 0 + i = i
    OBVIOUS
  <2> QED  BY <1>6, <1>8, <2>1 DEF PartOf
<1>10. PICK ab : ab = a \o new
  OBVIOUS
<1>11. JoinOf(ab, a, new, from, m)
  BY <1>4, <1>9, <1>10, JoinedTexts
<1>12. PICK abc : abc = ab \o c
  OBVIOUS
<1>13. PICK fm \in Nat : fm = from + m
  BY <1>4
<1>14. JoinOf(abc, ab, c, fm, n - to)
  <2>1. ab \in Seq(Byte) /\ Len(ab) = fm
    BY <1>11, <1>13 DEF JoinOf
  <2> QED  BY <1>9, <1>12, <2>1, JoinedTexts
<1>15. abc = SpliceAt(r, t)
  BY <1>1, <1>2, <1>3, <1>4, <1>5, <1>7, <1>10, <1>12 DEF SpliceAt
<1>16. abc \in Seq(Byte) /\ Len(abc) = from + m + (n - to)
  BY <1>13, <1>14 DEF JoinOf
<1>17. ASSUME NEW i \in 1..from PROVE abc[i] = t[i]
  <2>1. i \in 1..fm
    BY <1>4, <1>13
  <2> QED  BY <1>9, <1>11, <1>14, <2>1 DEF JoinOf
<1>18. ASSUME NEW i \in 1..m PROVE abc[from + i] = new[i]
  <2>1. from + i \in 1..fm
    BY <1>4, <1>13
  <2> QED  BY <1>11, <1>14, <2>1 DEF JoinOf
<1>19. ASSUME NEW i \in 1..(n - to) PROVE abc[from + m + i] = t[to + i]
  <2>1. abc[fm + i] = c[i]
    BY <1>14 DEF JoinOf
  <2> QED  BY <1>9, <1>13, <2>1
<1>20. Replaced(abc, t, from, to, new, n, m)
  BY <1>4, <1>16, <1>17, <1>18, <1>19 DEF Replaced
<1> QED  BY <1>1, <1>2, <1>3, <1>15, <1>20

(* Edits of a text, from left to right *)
Spliceable(text, rs, n) ==
    /\ text \in Seq(Byte) /\ n \in Nat /\ DOMAIN rs = 1..n
    /\ \A k \in 1..n : /\ rs[k].text \in Seq(Byte) /\ rs[k].edit.from \in Nat /\ rs[k].edit.to \in Nat
                       /\ rs[k].edit.from <= rs[k].edit.to /\ rs[k].edit.to <= Len(text)
    /\ \A k, l \in 1..n : k < l => rs[k].edit.to <= rs[l].edit.from

(* What is made of it by the last edits *)
SplicedFrom(h, text, rs, n) ==
    /\ h[n + 1] = text /\ Spliced(text, rs) = h[1]
    /\ \A k \in 1..n : h[k] = SpliceAt(rs[k], h[k + 1])

(* The texts in the making, by the edits that were made *)
Reaches(h, rs, n, s) ==
    h[s] \in Seq(Byte) /\ \A i \in 1..n : (\A j \in s : i < j) => rs[i].edit.to <= Len(h[s])

(* After one edit more the next one to the left still fits.                  *)
LEMMA SpliceReaches ==
    ASSUME NEW text, NEW rs, NEW n, Spliceable(text, rs, n),
           NEW h, NEW s \in SUBSET (1..n), NEW i \in s, \A j \in s : i <= j,
           Reaches(h, rs, n, s \ {i}), h[s] = SpliceAt(rs[i], h[s \ {i}])
    PROVE  Reaches(h, rs, n, s)
<1>1. PICK t \in Seq(Byte) : t = h[s \ {i}]
  BY DEF Reaches
<1>2. i \in 1..n /\ n \in Nat
  BY DEF Spliceable
<1>3. rs[i].edit.to <= Len(t)
  <2>1. \A j \in s \ {i} : i < j
    <3>1. \A j \in s : j \in 1..n
      OBVIOUS
    <3> QED  BY <1>2, <3>1
  <2> QED  BY <1>1, <1>2, <2>1 DEF Reaches
<1>4. rs[i].text \in Seq(Byte) /\ rs[i].edit.from \in Nat /\ rs[i].edit.to \in Nat /\ rs[i].edit.from <= rs[i].edit.to
  BY <1>2 DEF Spliceable
<1>5. PICK u : u = SpliceAt(rs[i], t)
  OBVIOUS
<1>6. Replaced(u, t, rs[i].edit.from, rs[i].edit.to, rs[i].text, Len(t), Len(rs[i].text))
  BY <1>3, <1>4, <1>5, SpliceAtIs
<1>7. u \in Seq(Byte) /\ rs[i].edit.from <= Len(u)
  <2>1. PICK m \in Nat : m = Len(t)
    BY LenProperties
  <2>2. PICK l \in Nat : l = Len(rs[i].text)
    BY <1>4, LenProperties
  <2>3. PICK from \in Nat : from = rs[i].edit.from
    BY <1>4
  <2>4. PICK to \in Nat : to = rs[i].edit.to /\ to <= m
    BY <1>3, <1>4, <2>1
  <2>5. u \in Seq(Byte) /\ Len(u) = from + l + (m - to)
    BY <1>6, <2>1, <2>2, <2>3, <2>4 DEF Replaced
  <2>6. from <= Len(u)
    BY <2>4, <2>5, SMTT(30)
  <2> QED  BY <2>3, <2>5, <2>6
<1>8. ASSUME NEW k \in 1..n, \A j \in s : k < j PROVE rs[k].edit.to <= Len(u)
  <2>1. k < i
    BY <1>8
  <2>2. rs[k].edit.to <= rs[i].edit.from /\ rs[k].edit.to \in Nat
    BY <1>2, <2>1 DEF Spliceable
  <2>3. Len(u) \in Nat
    BY <1>7, LenProperties
  <2> QED  BY <1>4, <1>7, <2>2, <2>3
<1> QED  BY <1>1, <1>5, <1>7, <1>8 DEF Reaches

(* The least of some places is among them. *)
LEMMA LeastPlace ==
    ASSUME NEW n \in Nat, NEW s \in SUBSET (1..n), s # {}
    PROVE  Min(s) \in s /\ \A j \in s : Min(s) <= j
<1>1. s \in SUBSET Nat
  OBVIOUS
<1>2. \E x \in s : \A y \in s : x <= y
  BY <1>1, LeastOf
<1> QED  BY <1>2 DEF Min

(* What the edits make of a text, one by one from the last *)
LEMMA SplicedIs ==
    ASSUME NEW text, NEW rs, NEW n, Spliceable(text, rs, n)
    PROVE  \E h : SplicedFrom(h, text, rs, n)
<1> DEFINE V == Seq(Byte)
           base == text
           D == DOMAIN rs
           Is(iter) == iter = [s \in SUBSET D |-> IF s = {} THEN base
                                   ELSE LET i == Min(s) IN SpliceAt(rs[i], iter[s \ {i}])]
           pick == [s \in SUBSET (1..n) |-> Min(s)]
           step == [i \in 1..n |-> [t \in V |-> IF rs[i].edit.to <= Len(t) THEN SpliceAt(rs[i], t) ELSE t]]
<1>1. Spliced(text, rs) = (CHOOSE iter : Is(iter))[D]
  BY Zenon DEF Spliced, FoldRight, MapThenFoldSet, SpliceAt
<1>2. n \in Nat /\ D = 1..n /\ base \in V
  BY DEF Spliceable
<1>3. ASSUME NEW i \in 1..n, NEW t \in V, rs[i].edit.to <= Len(t) PROVE SpliceAt(rs[i], t) \in V
  <2>1. Replaced(SpliceAt(rs[i], t), t, rs[i].edit.from, rs[i].edit.to, rs[i].text, Len(t), Len(rs[i].text))
    BY <1>3, SpliceAtIs DEF Spliceable
  <2> QED  BY <2>1 DEF Replaced
<1>4. PICK h \in [SUBSET (1..n) -> V] : IsFold(h, 1..n, pick, base, step)
  <2>1. \A s \in SUBSET (1..n) : s # {} => pick[s] \in s
    BY <1>2, Extremes
  <2>2. \A i \in 1..n : step[i] \in [V -> V]
    BY <1>3
  <2>3. IsFiniteSet(1..n)
    BY <1>2, Extremes
  <2> HIDE DEF V, base, pick, step
  <2>4. Foldable(1..n, V, pick, base, step)
    BY <1>2, <2>1, <2>2, <2>3 DEF Foldable
  <2> QED  BY <2>4, FoldExists
<1>5. ASSUME NEW s \in SUBSET (1..n), s # {}, NEW i, i = Min(s), Reaches(h, rs, n, s \ {i})
      PROVE  h[s] = SpliceAt(rs[i], h[s \ {i}]) /\ i \in s
  <2>1. i \in 1..n /\ i \in s /\ i = pick[s] /\ h[s \ {i}] \in V
    BY <1>2, <1>5, Extremes
  <2>2. h[s] = step[i][h[s \ {i}]]
    BY <1>4, <1>5, <2>1 DEF IsFold
  <2>3. PICK t \in V : t = h[s \ {i}]
    BY <2>1
  <2>4. \A j \in s \ {i} : i < j
    <3>1. \A j \in s : i <= j /\ j \in 1..n
      BY <1>2, <1>5, LeastPlace
    <3> QED  BY <2>1, <3>1
  <2>5. rs[i].edit.to <= Len(t)
    BY <1>5, <2>1, <2>3, <2>4 DEF Reaches
  <2>6. step[i][t] = SpliceAt(rs[i], t)
    BY <2>1, <2>5
  <2> HIDE DEF step, V, pick
  <2> QED  BY <2>1, <2>2, <2>3, <2>6
<1>6. \A s \in SUBSET (1..n) : Reaches(h, rs, n, s)
  <2> DEFINE rank == [s \in SUBSET (1..n) |-> Cardinality(s)]
             G == {s \in SUBSET (1..n) : Reaches(h, rs, n, s)}
  <2>1. ASSUME NEW s \in SUBSET (1..n)
        PROVE  rank[s] = Cardinality(s) /\ Cardinality(s) \in Nat
               /\ \A i \in s : Cardinality(s \ {i}) < Cardinality(s)
    <3>1. IsFiniteSet(1..n)
      BY <1>2, Extremes
    <3>2. IsFiniteSet(s)
      BY <3>1, FS_Subset, Zenon
    <3>3. Cardinality(s) \in Nat
      BY <3>2, FS_CardinalityType
    <3>4. ASSUME NEW i \in s PROVE Cardinality(s \ {i}) < Cardinality(s)
      <4>1. Cardinality(s \ {i}) = Cardinality(s) - 1
        BY <3>2, FS_RemoveElement
      <4> QED  BY <3>3, <4>1
    <3> QED  BY <3>3, <3>4
  <2>2. rank \in [SUBSET (1..n) -> Nat]
    BY <2>1
  <2>3. ASSUME NEW s \in SUBSET (1..n), \A e \in SUBSET (1..n) : rank[e] < rank[s] => e \in G
        PROVE  s \in G
    <3>1. CASE s = {}
      <4>1. h[s] = text
        BY <1>4, <3>1 DEF IsFold
      <4>2. \A k \in 1..n : rs[k].edit.to <= Len(text)
        BY DEF Spliceable
      <4>3. Reaches(h, rs, n, s)
        <5> HIDE DEF Is, D, pick, step
        <5> QED  BY <1>2, <4>1, <4>2 DEF Reaches
      <4> QED  BY <4>3
    <3>2. CASE s # {}
      <4>1. PICK i : i = Min(s)
        OBVIOUS
      <4>2. i \in s /\ \A j \in s : i <= j
        BY <1>2, <3>2, <4>1, LeastPlace
      <4>3. s \ {i} \in SUBSET (1..n) /\ rank[s \ {i}] < rank[s]
        <5>1. s \ {i} \in SUBSET (1..n)
          OBVIOUS
        <5>2. Cardinality(s \ {i}) < Cardinality(s)
          BY <2>1, <4>2
        <5> HIDE DEF rank
        <5> QED  BY <2>1, <5>1, <5>2
      <4>4. Reaches(h, rs, n, s \ {i})
        <5> HIDE DEF rank
        <5> QED  BY <2>3, <4>3
      <4>5. h[s] = SpliceAt(rs[i], h[s \ {i}])
        BY <1>5, <3>2, <4>1, <4>4
      <4>6. Reaches(h, rs, n, s)
        BY <4>2, <4>4, <4>5, SpliceReaches
      <4> QED  BY <4>6
    <3> QED  BY <3>1, <3>2
  <2>4. \A s \in SUBSET (1..n) : s \in G
    <3> HIDE DEF rank, G
    <3>1. PICK all : all = SUBSET (1..n)
      OBVIOUS
    <3>2. rank \in [all -> Nat] /\ \A s \in all : (\A e \in all : rank[e] < rank[s] => e \in G) => s \in G
      BY <2>2, <2>3, <3>1
    <3>3. \A s \in all : s \in G
      BY <3>2, RankSet
    <3> QED  BY <3>1, <3>3
  <2> QED  BY <2>4
<1>7. Is(h)
  <2>1. ASSUME NEW s \in SUBSET (1..n), s # {}, NEW i, i = Min(s)
        PROVE  h[s] = SpliceAt(rs[i], h[s \ {i}])
    <3>1. s \ {i} \in SUBSET (1..n)
      OBVIOUS
    <3> QED  BY <1>5, <1>6, <2>1, <3>1
  <2>2. h[{}] = base
    BY <1>4 DEF IsFold
  <2>3. h = [s \in SUBSET (1..n) |-> h[s]]
    OBVIOUS
  <2> HIDE DEF base, D
  <2> QED  BY <1>2, <2>1, <2>2, <2>3
<1>8. PICK c : Spliced(text, rs) = c[1..n] /\ Is(c)
  <2> HIDE DEF D, Is
  <2> QED  BY <1>1, <1>2, <1>7, Zenon
<1>9. c[{}] = text
  <2> HIDE DEF D
  <2> QED  BY <1>2, <1>8
<1>10. ASSUME NEW k \in 1..n PROVE c[k..n] = SpliceAt(rs[k], c[(k + 1)..n])
  <2>1. Min(k..n) = k /\ (k..n) \ {k} = (k + 1)..n
    BY <1>2, Extremes
  <2>2. k \in k..n /\ \A i \in k..n : i \in 1..n
    BY <1>2
  <2> HIDE DEF base
  <2> QED  BY <1>2, <1>8, <2>1, <2>2
<1> DEFINE g == [k \in 1..(n + 1) |-> c[k..n]]
<1>11. ASSUME NEW k \in 1..(n + 1) PROVE g[k] = c[k..n]
  OBVIOUS
<1>12. 1 \in 1..(n + 1) /\ n + 1 \in 1..(n + 1) /\ (n + 1)..n = {} /\ \A k \in 1..n : k \in 1..(n + 1) /\ k + 1 \in 1..(n + 1)
  BY <1>2
<1> HIDE DEF g, V, base, D, Is, pick, step
<1>13. SplicedFrom(g, text, rs, n)
  BY <1>8, <1>9, <1>10, <1>11, <1>12 DEF SplicedFrom
<1> QED  BY <1>13

-----------------------------------------------------------------------------
(***************************************************************************)
(* The records of the edits                                                  *)
(***************************************************************************)
(* Transcripts that can be compared, and terms the detectors run with *)
Comparable(raw, final, terms) ==
    /\ Texts(raw) /\ Texts(final) /\ Len(raw) = Len(final) /\ DOMAIN raw = DOMAIN final
    /\ terms \in Seq(Entry) /\ DetectionError(RunFor(raw, terms), raw, terms) = None

(* The edit records of a cue, in the order of its edits *)
RecordsMade(rs, es, final, n) ==
    /\ DOMAIN rs = DOMAIN es /\ rs \in Seq(Range(rs))
    /\ \A k \in DOMAIN es : /\ rs[k].segment = n /\ rs[k].edit = es[k]
                            /\ rs[k].text = Slice(final[n].text, es[k].finalFrom, es[k].finalTo)
                            /\ rs[k].text \in Seq(Byte)

(* The records of a cue are made of its edits.                               *)
LEMMA RecordsAre ==
    ASSUME NEW raw, NEW final, NEW terms, Comparable(raw, final, terms), NEW n \in DOMAIN raw,
           NEW es, es = LocalEdits(raw[n].text, final[n].text),
           NEW rs, rs = RecordsOf(raw, final, terms, n, es)
    PROVE  EditsApart(es, raw[n].text, final[n].text) /\ RecordsMade(rs, es, final, n)
<1>1. raw[n].text \in Seq(Byte) /\ final[n].text \in Seq(Byte)
  BY TextType DEF Comparable
<1>2. EditsApart(es, raw[n].text, final[n].text)
  BY <1>1, EditsAre
<1>3. PICK c \in Nat : DOMAIN es = 1..c
  BY <1>2 DEF EditsApart
<1>4. DOMAIN rs = 1..c /\ rs = [k \in 1..c |-> EditRecord(raw, final, terms, n, es[k])]
  BY <1>3 DEF RecordsOf
<1>5. ASSUME NEW k \in 1..c
      PROVE  /\ rs[k].segment = n /\ rs[k].edit = es[k]
             /\ rs[k].text = Slice(final[n].text, es[k].finalFrom, es[k].finalTo)
             /\ rs[k].text \in Seq(Byte)
  <2>1. rs[k].segment = n /\ rs[k].edit = es[k]
             /\ rs[k].text = Slice(final[n].text, es[k].finalFrom, es[k].finalTo)
    <3>1. rs[k] = EditRecord(raw, final, terms, n, es[k])
      BY <1>4
    <3> QED  BY <3>1 DEF EditRecord
  <2>2. PICK text \in Seq(Byte) : text = final[n].text
    BY <1>1
  <2>4. PICK e : e = es[k]
    OBVIOUS
  <2>5. e.finalFrom \in 0..Len(text) /\ e.finalTo \in 0..Len(text)
    BY <1>2, <1>3, <2>2, <2>4 DEF EditsApart
  <2>6. e.finalFrom \in Nat
    BY <2>5
  <2>3. Slice(final[n].text, es[k].finalFrom, es[k].finalTo) \in Seq(Byte)
    BY <2>2, <2>4, <2>5, <2>6, SliceType
  <2> QED  BY <2>1, <2>3
<1>6. rs \in Seq(Range(rs))
  <2>1. \A k \in 1..c : rs[k] \in Range(rs)
    BY <1>4 DEF Range
  <2>2. rs = [k \in 1..c |-> rs[k]]
    BY <1>4
  <2> QED  BY <1>3, <2>1, <2>2
<1> QED  BY <1>2, <1>3, <1>4, <1>5, <1>6 DEF RecordsMade

(* The records of all cues: which cue and which of its edits each is *)
Recorded(edits, raw, final, of, nth) ==
    /\ \E l \in Nat : l = Len(edits) /\ DOMAIN edits = 1..l
    /\ \A k \in DOMAIN edits :
           /\ of[k] \in DOMAIN raw /\ nth[k] \in DOMAIN LocalEdits(raw[of[k]].text, final[of[k]].text)
           /\ edits[k].segment = of[k]
           /\ edits[k].edit = LocalEdits(raw[of[k]].text, final[of[k]].text)[nth[k]]
           /\ edits[k].text = Slice(final[of[k]].text, edits[k].edit.finalFrom, edits[k].edit.finalTo)
           /\ edits[k].text \in Seq(Byte)
    /\ \A k, l \in DOMAIN edits : k < l <=> of[k] < of[l] \/ (of[k] = of[l] /\ nth[k] < nth[l])
    /\ \A n \in DOMAIN raw : \A j \in DOMAIN LocalEdits(raw[n].text, final[n].text) :
           \E k \in DOMAIN edits : of[k] = n /\ nth[k] = j

(* The records of all cues are in the order of the cues and of their edits.  *)
LEMMA RecordsInOrder ==
    ASSUME NEW raw, NEW final, NEW terms, Comparable(raw, final, terms)
    PROVE  \E of, nth : Recorded(EditRecords(raw, final, terms), raw, final, of, nth)
<1>1. PICK m \in Nat : DOMAIN raw = 1..m
  BY DEF Comparable, Texts
<1>2. PICK es : es = [n \in 1..m |-> LocalEdits(raw[n].text, final[n].text)]
  OBVIOUS
<1>3. PICK q : q = [n \in 1..m |-> RecordsOf(raw, final, terms, n, LocalEdits(raw[n].text, final[n].text))]
  OBVIOUS
<1>4. ASSUME NEW n \in 1..m
      PROVE  /\ DOMAIN q[n] = DOMAIN es[n] /\ q[n] \in Seq(Range(q[n]))
             /\ \A k \in DOMAIN es[n] : /\ q[n][k].segment = n /\ q[n][k].edit = es[n][k]
                                   /\ q[n][k].text = Slice(final[n].text, es[n][k].finalFrom, es[n][k].finalTo)
                                   /\ q[n][k].text \in Seq(Byte)
  <2>1. PICK e : e = es[n] /\ e = LocalEdits(raw[n].text, final[n].text)
    BY <1>2
  <2>2. PICK r : r = q[n] /\ r = RecordsOf(raw, final, terms, n, e)
    BY <1>3, <2>1
  <2>3. n \in DOMAIN raw
    BY <1>1
  <2>4. /\ DOMAIN r = DOMAIN e /\ r \in Seq(Range(r))
        /\ \A k \in DOMAIN e : /\ r[k].segment = n /\ r[k].edit = e[k]
                               /\ r[k].text = Slice(final[n].text, e[k].finalFrom, e[k].finalTo)
                               /\ r[k].text \in Seq(Byte)
    <3>1. RecordsMade(r, e, final, n)
      BY <2>1, <2>2, <2>3, RecordsAre
    <3> QED  BY <3>1 DEF RecordsMade
  <2> QED  BY <2>1, <2>2, <2>4
<1>5. PICK S : S = UNION {Range(q[n]) : n \in 1..m}
  OBVIOUS
<1>6. q \in Seq(Seq(S)) /\ m = Len(q)
  <2>1. ASSUME NEW n \in 1..m PROVE q[n] \in Seq(S)
    <3>1. Range(q[n]) \subseteq S
      BY <1>5
    <3> QED  BY <1>4, <3>1
  <2>2. q = [n \in 1..m |-> q[n]]
    BY <1>3
  <2> QED  BY <2>1, <2>2
<1>7. PICK f : f = FlattenSeq(q)
  OBVIOUS
<1>8. PICK of, nth : Places(f, q, m, of, nth)
  BY <1>6, <1>7, FlattenPlaces
<1>9. EditRecords(raw, final, terms) = f
  BY <1>1, <1>3, <1>7 DEF EditRecords
<1>10. ASSUME NEW k \in DOMAIN f
       PROVE  /\ of[k] \in 1..m /\ nth[k] \in DOMAIN es[of[k]]
              /\ f[k].segment = of[k]
              /\ f[k].edit = es[of[k]][nth[k]]
              /\ f[k].text = Slice(final[of[k]].text, f[k].edit.finalFrom, f[k].edit.finalTo)
              /\ f[k].text \in Seq(Byte)
  <2>1. PICK n \in 1..m : n = of[k]
    BY <1>8 DEF Places
  <2>2. PICK j \in DOMAIN q[n] : j = nth[k] /\ f[k] = q[n][j]
    BY <1>8, <2>1 DEF Places
  <2>3. j \in DOMAIN es[n]
    BY <1>4
  <2> QED  BY <1>4, <2>1, <2>2, <2>3, SMTT(30)
<1>11. ASSUME NEW n \in 1..m, NEW j \in DOMAIN es[n] PROVE \E k \in DOMAIN f : of[k] = n /\ nth[k] = j
  <2>1. j \in DOMAIN q[n]
    BY <1>4
  <2>2. \A x \in 1..m : \A y \in DOMAIN q[x] : \E k \in DOMAIN f : of[k] = x /\ nth[k] = y
    BY <1>8, Zenon DEF Places
  <2> QED  BY <2>1, <2>2, Zenon
<1>12. \A n \in 1..m : es[n] = LocalEdits(raw[n].text, final[n].text)
  BY <1>2
<1>14. /\ \E l \in Nat : l = Len(f) /\ DOMAIN f = 1..l
       /\ \A k, l \in DOMAIN f : k < l <=> of[k] < of[l] \/ (of[k] = of[l] /\ nth[k] < nth[l])
  BY <1>8 DEF Places
<1>15. ASSUME NEW k \in DOMAIN f
       PROVE  /\ of[k] \in DOMAIN raw /\ nth[k] \in DOMAIN LocalEdits(raw[of[k]].text, final[of[k]].text)
              /\ f[k].edit = LocalEdits(raw[of[k]].text, final[of[k]].text)[nth[k]]
  BY <1>1, <1>10, <1>12
<1>16. ASSUME NEW n \in DOMAIN raw, NEW j \in DOMAIN LocalEdits(raw[n].text, final[n].text)
       PROVE  \E k \in DOMAIN f : of[k] = n /\ nth[k] = j
  BY <1>1, <1>11, <1>12
<1>13. Recorded(f, raw, final, of, nth)
  BY <1>10, <1>14, <1>15, <1>16 DEF Recorded
<1> QED  BY <1>9, <1>13

(* An edit that has a case's range is the only edit the case overlaps with.              *)
LEMMA OneOverlap ==
    ASSUME NEW raw, NEW final, NEW terms, Comparable(raw, final, terms),
           NEW edits, NEW of, NEW nth, Recorded(edits, raw, final, of, nth),
           NEW k \in DOMAIN edits, NEW l \in DOMAIN edits, NEW c, c.start \in Nat, c.end \in Nat,
           c.start = edits[k].edit.from, c.end = edits[k].edit.to,
           Overlaps(c, edits[k]), Overlaps(c, edits[l])
    PROVE  k = l
<1>1. PICK n \in DOMAIN raw : n = of[k]
  BY DEF Recorded
<1>2. of[l] = n
  BY <1>1 DEF Recorded, Overlaps
<1>3. PICK es : es = LocalEdits(raw[n].text, final[n].text)
  OBVIOUS
<1>4. PICK i \in DOMAIN es : i = nth[k] /\ edits[k].edit = es[i]
  BY <1>1, <1>3 DEF Recorded
<1>5. PICK j \in DOMAIN es : j = nth[l] /\ edits[l].edit = es[j]
  BY <1>2, <1>3 DEF Recorded
<1>6. EditsApart(es, raw[n].text, final[n].text)
  BY <1>3, RecordsAre
<1>7. i \in Nat /\ j \in Nat
  BY <1>6 DEF EditsApart
<1>8. es[i].from \in Nat /\ es[i].to \in Nat /\ es[j].from \in Nat /\ es[j].to \in Nat
  BY <1>6 DEF EditsApart
<1>9. c.start = es[i].from /\ c.end = es[i].to /\ c.start < es[j].to /\ es[j].from < c.end
  BY <1>4, <1>5 DEF Overlaps
<1>10. ~(i < j)
  <2> SUFFICES ASSUME i < j PROVE FALSE
    OBVIOUS
  <2>1. es[i].to < es[j].from
    BY <1>6 DEF EditsApart
  <2> QED  BY <1>8, <1>9, <2>1
<1>11. ~(j < i)
  <2> SUFFICES ASSUME j < i PROVE FALSE
    OBVIOUS
  <2>1. es[j].to < es[i].from
    BY <1>6 DEF EditsApart
  <2> QED  BY <1>8, <1>9, <2>1
<1>12. i = j
  BY <1>7, <1>10, <1>11
<1>13. k \in Nat /\ l \in Nat
  BY DEF Recorded
<1>14. of[k] \in Int
  <2>1. \E m \in Nat : DOMAIN raw = 1..m
    BY DEF Comparable, Texts
  <2> QED  BY <1>1, <2>1
<1>15. ~(k < l) /\ ~(l < k)
  <2>1. of[k] = of[l] /\ nth[k] = nth[l] /\ nth[k] \in Int
    BY <1>1, <1>2, <1>4, <1>5, <1>7, <1>12
  <2>2. ~(of[k] < of[l] \/ (of[k] = of[l] /\ nth[k] < nth[l])) /\ ~(of[l] < of[k] \/ (of[l] = of[k] /\ nth[l] < nth[k]))
    BY <1>14, <2>1
  <2>3. \A x, y \in DOMAIN edits : x < y <=> of[x] < of[y] \/ (of[x] = of[y] /\ nth[x] < nth[y])
    BY DEF Recorded
  <2> QED  BY <2>2, <2>3
<1> QED  BY <1>13, <1>15

(* One edit of a text *)
LEMMA SplicedOnce ==
    ASSUME NEW text \in Seq(Byte), NEW r, r.text \in Seq(Byte), r.edit.from \in Nat, r.edit.to \in Nat,
           r.edit.from <= r.edit.to, r.edit.to <= Len(text)
    PROVE  Spliced(text, <<r>>) = SpliceAt(r, text)
<1>1. PICK rs : rs = <<r>>
  OBVIOUS
<1>2. DOMAIN rs = 1..1 /\ rs[1] = r /\ \A k \in 1..1 : k = 1
  BY <1>1
<1>3. Spliceable(text, rs, 1)
  BY <1>2 DEF Spliceable
<1>4. PICK h : SplicedFrom(h, text, rs, 1)
  BY <1>3, SplicedIs
<1>5. 1 \in 1..1 /\ 1 + 1 = 2
  OBVIOUS
<1> QED  BY <1>1, <1>2, <1>4, <1>5 DEF SplicedFrom

(* Where what is put in is not what was there, the text is another. *)
LEMMA SplicedDiffers ==
    ASSUME NEW text \in Seq(Byte), NEW r, r.text \in Seq(Byte), r.edit.from \in Nat, r.edit.to \in Nat,
           r.edit.from < r.edit.to, r.edit.to <= Len(text),
           Slice(text, r.edit.from, r.edit.to) # r.text
    PROVE  text # SpliceAt(r, text)
<1> SUFFICES ASSUME text = SpliceAt(r, text) PROVE FALSE
  OBVIOUS
<1>1. PICK from \in Nat : from = r.edit.from
  OBVIOUS
<1>2. PICK to \in Nat : to = r.edit.to /\ from < to
  BY <1>1
<1>3. PICK new \in Seq(Byte) : new = r.text
  OBVIOUS
<1>4. PICK n \in Nat : n = Len(text) /\ to <= n
  BY <1>2, LenProperties
<1>5. PICK m \in Nat : m = Len(new) /\ DOMAIN new = 1..m
  BY LenProperties
<1>6. Replaced(text, text, from, to, new, n, m)
  <2>1. m = Len(r.text) /\ from <= to /\ r.edit.from <= r.edit.to
    BY <1>1, <1>2, <1>3, <1>5
  <2>2. Replaced(SpliceAt(r, text), text, r.edit.from, r.edit.to, r.text, n, m)
    BY <1>4, <2>1, SpliceAtIs
  <2> QED  BY <1>1, <1>2, <1>3, <2>2
<1>7. m = to - from
  <2>1. n = from + m + (n - to)
    BY <1>4, <1>6 DEF Replaced
  <2> QED  BY <1>4, <2>1
<1>8. PICK old : old = Slice(text, from, to)
  OBVIOUS
<1>9. PartOf(old, text, from, m)
  <2>1. from <= to /\ to <= Len(text)
    BY <1>2, <1>4
  <2> QED  BY <1>7, <1>8, <2>1, PartIs DEF Slice
<1>10. old \in Seq(Byte) /\ Len(old) = m /\ \A i \in 1..m : old[i] = new[i]
  BY <1>6, <1>9 DEF PartOf, Replaced
<1>11. DOMAIN old = 1..m
  BY <1>10, LenProperties
<1>12. old = new
  <2>1. old = [i \in 1..m |-> old[i]] /\ new = [i \in 1..m |-> new[i]]
    BY <1>5, <1>10, <1>11
  <2> QED  BY <1>10, <2>1
<1> QED  BY <1>1, <1>2, <1>3, <1>8, <1>12

-----------------------------------------------------------------------------
(***************************************************************************)
(* The exact relations                                                       *)
(***************************************************************************)
(* The cases are places of the raw transcript, where something else stands than what would  *)
(* replace it.                                                               *)
Raised(cases, raw) ==
    /\ \E n \in Nat : n = Len(cases) /\ DOMAIN cases = 1..n
    /\ \A i \in DOMAIN cases : /\ Detected(cases[i], raw)
                               /\ Slice(raw[cases[i].segment].text, cases[i].start, cases[i].end) # cases[i].replacement

(* The cases of a transcript are such places.                                *)
LEMMA CasesAreRaised ==
    ASSUME NEW raw, NEW final, NEW terms, Comparable(raw, final, terms)
    PROVE  Raised(TermReview(raw, terms), raw)
<1>1. PICK S : S = CanonicalSpans(raw, terms)
  OBVIOUS
<1>2. (\A c \in S : Detected(c, raw)) /\ \A c, d \in S : SpanKey(c) = SpanKey(d) => c = d
  BY <1>1, SpansDetected DEF Comparable
<1>3. PICK cases : cases = TermReview(raw, terms)
  OBVIOUS
<1>4. cases \in Seq(S) /\ DOMAIN cases = 1..Len(cases)
  <2>1. InSpanOrder(S) \in Seq(S) /\ DOMAIN InSpanOrder(S) = 1..Len(InSpanOrder(S))
    BY <1>2, SpansInOrder DEF Comparable
  <2> QED  BY <1>1, <1>3, <2>1 DEF TermReview
<1>5. \A i \in DOMAIN cases : cases[i] \in S
  BY <1>4, ElementOfSeq
<1>6. \A c \in S : Slice(raw[c.segment].text, c.start, c.end) # c.replacement
  BY <1>1, CasesDiffer DEF Comparable
<1>7. PICK n \in Nat : n = Len(cases)
  BY <1>4, LenProperties
<1> QED  BY <1>2, <1>3, <1>4, <1>5, <1>6, <1>7 DEF Raised

(* What an exact relation says *)
SameChange(raw, cases, edits, x) ==
    LET c == cases[x[1]]
        r == edits[x[2]]
    IN  /\ raw[c.segment].text # Spliced(raw[c.segment].text, <<r>>)
        /\ Spliced(raw[c.segment].text, <<r>>)
             = SubSeq(raw[c.segment].text, 1, c.start) \o c.replacement
               \o SubSeq(raw[c.segment].text, c.end + 1, Len(raw[c.segment].text))
        /\ CaseGeometry(cases, edits, x[1]) = "exact"
        /\ \A e \in Edges(cases, edits) : e[1] = x[1] => e[2] = x[2]

(* Every exact relation says so.                                             *)
LEMMA ExactAreTheSame ==
    ASSUME NEW raw, NEW final, NEW terms, Comparable(raw, final, terms),
           NEW cases, Raised(cases, raw), NEW edits, edits = EditRecords(raw, final, terms),
           NEW x \in ExactRelations(cases, edits)
    PROVE  SameChange(raw, cases, edits, x) /\ x[1] \in DOMAIN cases
<1>1. PICK of, nth : Recorded(edits, raw, final, of, nth)
  BY RecordsInOrder
<1>2. PICK edge \in Edges(cases, edits) :
          /\ x = <<edge[1], edge[2], 1>> /\ GeometryOf(cases[edge[1]], edits[edge[2]]) = "exact"
          /\ cases[edge[1]].replacement = edits[edge[2]].text
  BY DEF ExactRelations
<1>3. PICK i \in DOMAIN cases : i = edge[1]
  BY DEF Edges
<1>4. PICK k \in DOMAIN edits : k = edge[2]
  BY DEF Edges
<1>5. x[1] = i /\ x[2] = k /\ edge = <<i, k>>
  BY <1>2, <1>3, <1>4 DEF Edges
<1>6. PICK c : c = cases[i]
  OBVIOUS
<1>7. PICK r : r = edits[k]
  OBVIOUS
<1>8. Overlaps(c, r) /\ GeometryOf(c, r) = "exact" /\ c.replacement = r.text
  BY <1>2, <1>3, <1>4, <1>6, <1>7 DEF Edges
<1>9. c.start = r.edit.from /\ c.end = r.edit.to
  BY <1>8 DEF GeometryOf
<1>10. /\ c.segment \in DOMAIN raw /\ c.start \in Nat /\ c.end \in Nat /\ c.start < c.end
       /\ c.end <= Len(raw[c.segment].text) /\ c.replacement \in Seq(Byte)
       /\ Slice(raw[c.segment].text, c.start, c.end) # c.replacement
  BY <1>6 DEF Raised, Detected, Placed
<1>11. PICK text \in Seq(Byte) : text = raw[c.segment].text
  BY <1>10, TextType DEF Comparable
<1>12. r.text \in Seq(Byte) /\ r.edit.from \in Nat /\ r.edit.to \in Nat /\ r.edit.from < r.edit.to
       /\ r.edit.from <= r.edit.to /\ r.edit.to <= Len(text) /\ Slice(text, r.edit.from, r.edit.to) # r.text
  BY <1>8, <1>9, <1>10, <1>11
<1>13. Spliced(text, <<r>>) = SpliceAt(r, text) /\ text # SpliceAt(r, text)
  <2>1. Spliced(text, <<r>>) = SpliceAt(r, text)
    BY <1>12, SplicedOnce
  <2>2. text # SpliceAt(r, text)
    BY <1>12, SplicedDiffers
  <2> QED  BY <2>1, <2>2
<1>14. SpliceAt(r, text) = SubSeq(text, 1, c.start) \o c.replacement \o SubSeq(text, c.end + 1, Len(text))
  BY <1>8, <1>9 DEF SpliceAt
<1>15. ASSUME NEW e \in Edges(cases, edits), e[1] = i PROVE e[2] = k
  <2>1. PICK l \in DOMAIN edits : l = e[2]
    BY DEF Edges
  <2>2. Overlaps(c, edits[l])
    BY <1>6, <1>15, <2>1 DEF Edges
  <2>3. k = l
    BY <1>1, <1>7, <1>8, <1>9, <1>10, <2>2, OneOverlap
  <2> QED  BY <2>1, <2>3
<1>16. CaseGeometry(cases, edits, i) = "exact"
  <2> DEFINE all == {GeometryOf(cases[i], edits[e[2]]) : e \in {e \in Edges(cases, edits) : e[1] = i}}
  <2>1. all = {"exact"}
    <3>1. \A e \in Edges(cases, edits) : e[1] = i => GeometryOf(cases[i], edits[e[2]]) = "exact"
      BY <1>6, <1>7, <1>8, <1>15
    <3>2. edge \in Edges(cases, edits) /\ edge[1] = i
      BY <1>3
    <3> QED  BY <3>1, <3>2
  <2>2. Cardinality(all) = 1
    BY <2>1, FS_Singleton
  <2>3. CaseGeometry(cases, edits, i)
            = CASE all = {} -> None
                [] Cardinality(all) = 1 -> CHOOSE g \in all : TRUE
                [] OTHER -> "partial-overlap"
    BY DEF CaseGeometry
  <2> HIDE DEF all
  <2>4. all # {} /\ (CHOOSE g \in all : TRUE) = "exact"
    BY <2>1
  <2> QED  BY <2>2, <2>3, <2>4
<1>17. SameChange(raw, cases, edits, x)
  BY <1>5, <1>6, <1>7, <1>11, <1>13, <1>14, <1>15, <1>16 DEF SameChange
<1> QED  BY <1>5, <1>17

(* When a report is to be written, it is the evaluation of input files that were not      *)
(* refused.                                                                  *)
EvaluatedInv ==
    /\ input \in Inputs /\ DOMAIN phase = Commands
    /\ Evaluated => /\ Refusal(Raw, Final, ParseTerms(input.terms)) = None
                    /\ report = Evaluation(Raw, Final, ParseTerms(input.terms))

(* Each step keeps this.                                                     *)
LEMMA EvaluatedStep ==
    ASSUME EvaluatedInv, [Next]_vars PROVE EvaluatedInv'
<1>1. CASE UNCHANGED vars
  BY <1>1 DEF EvaluatedInv, vars, Evaluated, Raw, Final
<1>2. CASE Next
  <2> PICK c \in Commands :
          Start(c) \/ Parse(c) \/ Build(c) \/ Create(c) \/ Write(c) \/ RemovePart(c) \/ Announce(c)
    BY <1>2 DEF Next
  <2>1. input' = input /\ Raw' = Raw /\ Final' = Final
    <3>1. input' = input
      BY DEF Start, Parse, Build, Create, Write, RemovePart, Announce
    <3> QED  BY <3>1 DEF Raw, Final
  <2>2. ASSUME NEW next, Proceed(c, next)
        PROVE  DOMAIN phase' = Commands /\ \A d \in Commands : phase'[d] = IF d = c THEN next ELSE phase[d]
    BY <2>2 DEF Proceed, EvaluatedInv
  <2>3. DOMAIN phase' = Commands
    BY <2>2 DEF Start, Parse, Build, Create, Write, RemovePart, Announce
  <2>4. ASSUME Evaluated'
        PROVE  /\ Refusal(Raw, Final, ParseTerms(input.terms)) = None
               /\ report' = Evaluation(Raw, Final, ParseTerms(input.terms))
    <3>1. phase'[Evaluate] = "create" /\ Evaluate \in Commands
      BY <2>4 DEF Evaluated, Commands
    <3>2. CASE Build(c) /\ c = Evaluate
      <4>1. c # Compare
        BY <3>2, CommandsAssumption
      <4>2. ~Proceed(c, "error")
        BY <2>2, <3>1, <3>2
      <4> QED  BY <3>2, <4>1, <4>2 DEF Build
    <3>3. CASE Build(c) /\ c # Evaluate
      <4>1. phase[Evaluate] = "create"
        BY <2>2, <3>1, <3>3 DEF Build
      <4>2. report' = report
        BY <3>3 DEF Build
      <4> QED  BY <4>1, <4>2 DEF EvaluatedInv, Evaluated
    <3>4. CASE ~Build(c)
      <4>1. report' = report
        BY <3>4 DEF Start, Parse, Create, Write, RemovePart, Announce
      <4>2. phase[Evaluate] = "create"
        BY <2>2, <3>1, <3>4 DEF Start, Parse, Create, Write, RemovePart, Announce
      <4> QED  BY <4>1, <4>2 DEF EvaluatedInv, Evaluated
    <3> QED  BY <3>2, <3>3, <3>4
  <2> QED  BY <2>1, <2>3, <2>4 DEF EvaluatedInv
<1> QED  BY <1>1, <1>2

(* It always holds.                                                          *)
LEMMA EvaluatedInvariant == Spec => []EvaluatedInv
<1>1. Init => EvaluatedInv
  <2> SUFFICES ASSUME Init PROVE EvaluatedInv
    OBVIOUS
  <2>1. phase[Evaluate] = "start"
    BY DEF Init, Commands
  <2>2. ~Evaluated
    BY <2>1 DEF Evaluated
  <2> QED  BY <2>2 DEF Init, EvaluatedInv
<1> QED  BY <1>1, EvaluatedStep, PTL DEF Spec

(* What is not refused can be compared.                                           *)
LEMMA EvaluatedIsComparable ==
    ASSUME EvaluatedInv, Evaluated
    PROVE  Comparable(Raw, Final, ParseTerms(input.terms))
<1>1. input.raw \in Seq(SrtLine) /\ input.final \in Seq(SrtLine) /\ input.terms \in Seq(TermLine)
  BY InputsAssumption DEF EvaluatedInv
<1>2. PICK raw : raw = Raw /\ Texts(raw)
  BY <1>1, SegmentsType DEF Raw
<1>3. PICK final : final = Final /\ Texts(final)
  BY <1>1, SegmentsType DEF Final
<1>4. PICK terms \in Seq(Entry) : terms = ParseTerms(input.terms)
  BY <1>1, EntriesType
<1>5. Refusal(raw, final, terms) = None
  BY <1>2, <1>3, <1>4 DEF EvaluatedInv
<1>6. None \notin Refusals
  BY NoRefusalAssumption
<1>7. Incompatibility(raw, final) = None
  BY <1>5 DEF Refusal
<1>8. DetectionError(RunFor(raw, terms), raw, terms) = None
  BY <1>5, <1>6, <1>7 DEF Refusal, Refusals
<1>9. Len(raw) = Len(final)
  BY <1>6, <1>7 DEF Incompatibility, Refusals
<1>10. DOMAIN raw = DOMAIN final
  <2>1. PICK n \in Nat : DOMAIN raw = 1..n
    BY <1>2 DEF Texts
  <2>2. PICK m \in Nat : DOMAIN final = 1..m
    BY <1>3 DEF Texts
  <2>3. Len(raw) = n /\ Len(final) = m
    BY <1>2, <1>3, <2>1, <2>2 DEF Raw, Final, ParseSrt
  <2> QED  BY <1>9, <2>1, <2>2, <2>3
<1> QED  BY <1>2, <1>3, <1>4, <1>8, <1>9, <1>10 DEF Comparable

(* An exact relation of a report says that accepting the case and making the edit are the   *)
(* same change, one that does change the text, and that the case overlaps with no other     *)
(* edit, for all transcripts and terms (overlap_geometry, build_report_from_owned_run).     *)
THEOREM ExactIsTheSameChange == Spec => []ExactMeansTheSameChange
<1>1. ASSUME EvaluatedInv PROVE ExactMeansTheSameChange
  <2> SUFFICES ASSUME Evaluated, NEW x \in report.exact
               PROVE  LET c == report.cases[x[1]]
                          r == report.edits[x[2]]
                      IN  /\ Raw[c.segment].text # Spliced(Raw[c.segment].text, <<r>>)
                          /\ Spliced(Raw[c.segment].text, <<r>>)
                               = SubSeq(Raw[c.segment].text, 1, c.start) \o c.replacement
                                 \o SubSeq(Raw[c.segment].text, c.end + 1, Len(Raw[c.segment].text))
                          /\ report.geometry[x[1]] = "exact"
                          /\ \A e \in report.edges : e[1] = x[1] => e[2] = x[2]
    BY DEF ExactMeansTheSameChange
  <2>1. PICK terms : terms = ParseTerms(input.terms) /\ Comparable(Raw, Final, terms)
    BY <1>1, EvaluatedIsComparable
  <2>2. PICK cases : cases = TermReview(Raw, terms) /\ Raised(cases, Raw)
    BY <2>1, CasesAreRaised
  <2>3. PICK edits : edits = EditRecords(Raw, Final, terms)
    OBVIOUS
  <2>4. /\ report.cases = cases /\ report.edits = edits
        /\ report.exact = ExactRelations(cases, edits) /\ report.edges = Edges(cases, edits)
        /\ \A i \in DOMAIN cases : report.geometry[i] = CaseGeometry(cases, edits, i)
    <3>1. report = EvaluationOf(Raw, Final, cases, edits, Edges(cases, edits))
      BY <1>1, <2>1, <2>2, <2>3 DEF EvaluatedInv, Evaluation, Related
    <3> QED  BY <3>1 DEF EvaluationOf
  <2>5. SameChange(Raw, cases, edits, x) /\ x[1] \in DOMAIN cases
    BY <2>1, <2>2, <2>3, <2>4, ExactAreTheSame
  <2> QED  BY <2>4, <2>5 DEF SameChange
<1> QED  BY <1>1, EvaluatedInvariant, PTL

-----------------------------------------------------------------------------
(***************************************************************************)
(* The texts between the raw and the final one                               *)
(***************************************************************************)
(* The raw text up to x and the final text from y on *)
HalfOf(s, raw, final, x, y) ==
    /\ s \in Seq(Byte) /\ x \in 0..Len(raw) /\ y \in 0..Len(final)
    /\ Len(s) = x + (Len(final) - y)
    /\ \A i \in 1..x : s[i] = raw[i]
    /\ \A i \in 1..(Len(final) - y) : s[x + i] = final[y + i]

(* What both texts have alike may be taken from either.                          *)
LEMMA HalfMoves ==
    ASSUME NEW raw \in Seq(Byte), NEW final \in Seq(Byte), NEW s, NEW x, NEW y, HalfOf(s, raw, final, x, y),
           NEW v \in Nat, NEW w \in Nat, v < x, w < y, Slice(raw, v, x) = Slice(final, w, y)
    PROVE  HalfOf(s, raw, final, v, w)
<1>1. PICK n \in Nat : n = Len(raw)
  BY LenProperties
<1>2. PICK m \in Nat : m = Len(final)
  BY LenProperties
<1>3. /\ s \in Seq(Byte) /\ x \in 0..n /\ y \in 0..m /\ Len(s) = x + (m - y)
      /\ \A i \in 1..x : s[i] = raw[i]
      /\ \A i \in 1..(m - y) : s[x + i] = final[y + i]
  BY <1>1, <1>2 DEF HalfOf
<1>4. PICK p : p = Slice(raw, v, x)
  OBVIOUS
<1>5. Len(p) = x - v /\ \A i \in 1..(x - v) : p[i] = raw[v + i]
  BY <1>1, <1>3, <1>4, SliceType
<1>6. Len(p) = y - w /\ \A i \in 1..(y - w) : p[i] = final[w + i]
  <2>1. p = Slice(final, w, y)
    BY <1>4
  <2>2. y \in 0..Len(final)
    BY <1>2, <1>3
  <2> QED  BY <2>1, <2>2, SliceType
<1>0. n \in Int /\ m \in Int /\ x \in Nat /\ y \in Nat /\ x - v = y - w
  BY <1>3, <1>5, <1>6
<1>7. PICK d \in Nat : d = x - v /\ d = y - w /\ x = v + d /\ y = w + d
  <2>1. x - v \in Nat /\ x = v + (x - v) /\ y = w + (x - v)
    BY <1>0
  <2> QED  BY <1>0, <2>1
<1>8. v \in 0..n /\ w \in 0..m /\ Len(s) = v + (m - w)
  <2>1. v <= n /\ w <= m
    BY <1>3, <1>0
  <2>2. v + (m - w) = x + (m - y)
    BY <1>0
  <2> QED  BY <1>3, <2>1, <2>2
<1>9. ASSUME NEW i \in 1..v PROVE s[i] = raw[i]
  BY <1>3, <1>9
<1>10. ASSUME NEW i \in 1..(m - w) PROVE s[v + i] = final[w + i]
  <2>1. CASE i <= d
    <3>1. i \in 1..d /\ v + i \in 1..x
      BY <1>7, <2>1
    <3>2. p[i] = raw[v + i] /\ p[i] = final[w + i]
      BY <1>5, <1>6, <1>7, <3>1
    <3> QED  BY <1>3, <3>1, <3>2
  <2>2. CASE ~(i <= d)
    <3>1. PICK j \in 1..(m - y) : j = i - d
      BY <1>3, <1>7, <2>2
    <3>2. v + i = x + j /\ w + i = y + j
      BY <1>7, <3>1
    <3> QED  BY <1>3, <3>1, <3>2
  <2> QED  BY <2>1, <2>2
<1> QED  BY <1>1, <1>2, <1>3, <1>8, <1>9, <1>10 DEF HalfOf

(* An edit takes its bytes of the raw text away and puts its bytes of the final one in their  *)
(* place.                                                                    *)
LEMMA HalfEdited ==
    ASSUME NEW raw \in Seq(Byte), NEW final \in Seq(Byte), NEW s, NEW r,
           HalfOf(s, raw, final, r.edit.to, r.edit.finalTo), r.edit.from \in Nat, r.edit.finalFrom \in Nat,
           r.edit.from <= r.edit.to, r.edit.finalFrom <= r.edit.finalTo,
           r.text = Slice(final, r.edit.finalFrom, r.edit.finalTo)
    PROVE  HalfOf(SpliceAt(r, s), raw, final, r.edit.from, r.edit.finalFrom)
<1>1. PICK n \in Nat : n = Len(raw)
  BY LenProperties
<1>2. PICK m \in Nat : m = Len(final)
  BY LenProperties
<1>3. PICK v \in Nat : v = r.edit.from
  OBVIOUS
<1>4. PICK w \in Nat : w = r.edit.finalFrom
  OBVIOUS
<1>5. PICK x \in 0..n : x = r.edit.to /\ v <= x
  BY <1>1, <1>3 DEF HalfOf
<1>6. PICK y \in 0..m : y = r.edit.finalTo /\ w <= y
  BY <1>2, <1>4 DEF HalfOf
<1>7. /\ s \in Seq(Byte) /\ Len(s) = x + (m - y)
      /\ \A i \in 1..x : s[i] = raw[i]
      /\ \A i \in 1..(m - y) : s[x + i] = final[y + i]
  BY <1>1, <1>2, <1>5, <1>6 DEF HalfOf
<1>8. PICK p : p = r.text
  OBVIOUS
<1>9. PartOf(p, final, w, y - w)
  <2>1. p = SubSeq(final, w + 1, y)
    BY <1>4, <1>6, <1>8 DEF Slice
  <2>2. w <= y /\ y <= Len(final) /\ y \in Nat
    BY <1>2, <1>6
  <2> QED  BY <2>1, <2>2, PartIs
<1>10. PICK l \in Nat : l = y - w /\ y = w + l /\ p \in Seq(Byte) /\ Len(p) = l /\ \A i \in 1..l : p[i] = final[w + i]
  BY <1>6, <1>9 DEF PartOf
<1>11. PICK k \in Nat : k = Len(s)
  BY <1>7, LenProperties
<1>12. PICK u : u = SpliceAt(r, s)
  OBVIOUS
<1>13. Replaced(u, s, v, x, p, k, l)
  <2>1. r.text \in Seq(Byte) /\ r.edit.from \in Nat /\ r.edit.to \in Nat /\ r.edit.from <= r.edit.to
        /\ r.edit.to <= Len(s)
    <3>1. x <= Len(s) /\ x \in Nat
      BY <1>7
    <3> QED  BY <1>3, <1>5, <1>8, <1>10, <3>1
  <2> QED  BY <1>3, <1>5, <1>7, <1>8, <1>10, <1>11, <1>12, <2>1, SpliceAtIs
<1>14. /\ u \in Seq(Byte) /\ Len(u) = v + l + (k - x)
       /\ \A i \in 1..v : u[i] = s[i]
       /\ \A i \in 1..l : u[v + i] = p[i]
       /\ \A i \in 1..(k - x) : u[v + l + i] = s[x + i]
  BY <1>13 DEF Replaced
<1>15. k = x + (m - y) /\ k - x = m - y
  BY <1>7, <1>11
<1>16. Len(u) = v + (m - w) /\ v \in 0..n /\ w \in 0..m
  <2>1. y \in Nat /\ x \in Nat /\ y <= m /\ x <= n /\ y = w + l
    BY <1>5, <1>6, <1>10
  <2>2. v + l + (m - y) = v + (m - w) /\ v <= n /\ w <= m
    BY <1>5, <2>1
  <2>3. Len(u) = v + l + (m - y)
    BY <1>14, <1>15
  <2> QED  BY <2>2, <2>3
<1>17. ASSUME NEW i \in 1..v PROVE u[i] = raw[i]
  <2>1. i \in 1..x
    BY <1>5
  <2> QED  BY <1>7, <1>14, <2>1
<1>18. ASSUME NEW i \in 1..(m - w) PROVE u[v + i] = final[w + i]
  <2>1. CASE i <= l
    <3>1. i \in 1..l
      BY <2>1
    <3> QED  BY <1>10, <1>14, <3>1
  <2>2. CASE ~(i <= l)
    <3>1. PICK j \in 1..(m - y) : j = i - l /\ i = l + j
      <4>1. m - y = (m - w) - l
        BY <1>6, <1>10
      <4>2. i - l \in 1..(m - y) /\ i = l + (i - l)
        BY <1>10, <2>2, <4>1
      <4> QED  BY <4>2
    <3>2. v + i = v + l + j /\ w + i = y + j
      BY <1>10, <3>1
    <3>3. u[v + l + j] = s[x + j]
      BY <1>14, <1>15, <3>1
    <3>4. s[x + j] = final[y + j]
      BY <1>7, <3>1
    <3> QED  BY <3>2, <3>3, <3>4
  <2> QED  BY <2>1, <2>2
<1>19. HalfOf(u, raw, final, v, w)
  BY <1>1, <1>2, <1>14, <1>16, <1>17, <1>18 DEF HalfOf
<1> QED  BY <1>3, <1>4, <1>12, <1>19

-----------------------------------------------------------------------------
(***************************************************************************)
(* Gap by gap                                                                *)
(***************************************************************************)
(* Records of the gaps P, in their order *)
Makes(rs, gaps, P, final, n, at) ==
    /\ n \in Nat /\ DOMAIN rs = 1..n
    /\ \A k \in 1..n : /\ at[k] \in P /\ rs[k].edit = gaps[at[k]]
                       /\ rs[k].text = Slice(final, rs[k].edit.finalFrom, rs[k].edit.finalTo)
    /\ \A k, l \in 1..n : k < l <=> at[k] < at[l]
    /\ \A x \in P : \E k \in 1..n : at[k] = x

(* The records before k are those of gaps before g. *)
Before(k, at, n, g) == \A j \in 1..n : j < k <=> at[j] < g

(* When the gaps from g on are done, the text is half the raw one and half the final one.   *)
LEMMA GapIsMade ==
    ASSUME NEW raw \in Seq(Byte), NEW final \in Seq(Byte), NEW gaps, NEW c, GapsOf(gaps, raw, final, c),
           NEW rs, NEW n, NEW at, Makes(rs, gaps, Edited(gaps), final, n, at),
           NEW h, SplicedFrom(h, raw, rs, n), NEW g \in 1..c,
           \A k \in 1..(n + 1) : Before(k, at, n, g + 1) => HalfOf(h[k], raw, final, gaps[g].to, gaps[g].finalTo),
           NEW k \in 1..(n + 1), Before(k, at, n, g)
    PROVE  HalfOf(h[k], raw, final, gaps[g].from, gaps[g].finalFrom)
<1>1. n \in Nat /\ \A j \in 1..n : at[j] \in 1..c
  BY DEF Makes, Edited, GapsOf
<1>2. c \in Nat /\ g \in Nat
  BY DEF GapsOf
<1>3. PICK e : e = gaps[g]
  OBVIOUS
<1>4. /\ e.from \in 0..Len(raw) /\ e.to \in 0..Len(raw) /\ e.finalFrom \in 0..Len(final) /\ e.finalTo \in 0..Len(final)
      /\ e.from <= e.to /\ e.finalFrom <= e.finalTo
  BY <1>3 DEF GapsOf
<1>5. CASE g \in Edited(gaps)
  <2>1. PICK j \in 1..n : at[j] = g
    BY <1>5 DEF Makes
  <2>2. ~(j < k)
    BY <1>2, <2>1 DEF Before
  <2>3. k \in 1..n /\ k <= j
    BY <1>1, <2>2
  <2>4. k = j
    <3>1. ~(at[k] < g)
      BY <2>3 DEF Before
    <3>2. ~(k < j)
      BY <2>1, <2>3, <3>1 DEF Makes
    <3> QED  BY <2>3, <3>2
  <2>5. Before(k + 1, at, n, g + 1)
    <3> SUFFICES ASSUME NEW i \in 1..n PROVE i < k + 1 <=> at[i] < g + 1
      BY DEF Before
    <3>1. k < i <=> g < at[i]
      BY <2>1, <2>3, <2>4 DEF Makes
    <3>2. PICK a \in 1..c : a = at[i]
      BY <1>1
    <3>3. i < k + 1 <=> ~(k < i)
      BY <2>3
    <3>4. a < g + 1 <=> ~(g < a)
      BY <1>2
    <3> QED  BY <3>1, <3>2, <3>3, <3>4
  <2>6. k + 1 \in 1..(n + 1)
    BY <1>1, <2>3
  <2>7. HalfOf(h[k + 1], raw, final, e.to, e.finalTo)
    BY <1>3, <2>5, <2>6
  <2>8. rs[k].edit = e /\ rs[k].text = Slice(final, e.finalFrom, e.finalTo)
    BY <1>3, <2>1, <2>3, <2>4 DEF Makes
  <2>9. h[k] = SpliceAt(rs[k], h[k + 1])
    BY <2>3 DEF SplicedFrom
  <2>10. e.from \in Nat /\ e.finalFrom \in Nat
    BY <1>4
  <2>11. PICK r : r = rs[k]
    OBVIOUS
  <2>12. PICK s : s = h[k + 1]
    OBVIOUS
  <2>13. HalfOf(SpliceAt(r, s), raw, final, e.from, e.finalFrom)
    BY <1>4, <2>7, <2>8, <2>10, <2>11, <2>12, HalfEdited
  <2> QED  BY <1>3, <2>9, <2>11, <2>12, <2>13
<1>6. CASE g \notin Edited(gaps)
  <2>1. e.from = e.to /\ e.finalFrom = e.finalTo
    <3>1. ~(e.from < e.to) /\ ~(e.finalFrom < e.finalTo)
      BY <1>3, <1>6 DEF Edited, GapsOf
    <3>2. e.from \in Int /\ e.to \in Int /\ e.finalFrom \in Int /\ e.finalTo \in Int
      BY <1>4, LenProperties
    <3> QED  BY <1>4, <3>1, <3>2
  <2>2. Before(k, at, n, g + 1)
    <3> SUFFICES ASSUME NEW i \in 1..n PROVE i < k <=> at[i] < g + 1
      BY DEF Before
    <3>1. at[i] # g
      BY <1>6 DEF Makes
    <3>2. PICK a \in 1..c : a = at[i]
      BY <1>1
    <3>3. a < g + 1 <=> a < g
      BY <1>2, <3>1, <3>2
    <3> QED  BY <3>2, <3>3 DEF Before
  <2>3. HalfOf(h[k], raw, final, e.to, e.finalTo)
    BY <1>3, <2>2
  <2> QED  BY <1>3, <2>1, <2>3
<1> QED  BY <1>5, <1>6

(* The edits of all gaps that are not empty make the final text.                 *)
LEMMA AllAreMade ==
    ASSUME NEW raw \in Seq(Byte), NEW final \in Seq(Byte), NEW gaps, NEW c, GapsOf(gaps, raw, final, c),
           NEW rs, NEW n, NEW at, Makes(rs, gaps, Edited(gaps), final, n, at)
    PROVE  Spliced(raw, rs) = final
<1>1. n \in Nat /\ \A j \in 1..n : at[j] \in 1..c
  BY DEF Makes, Edited, GapsOf
<1>2. c \in Nat \ {0}
  BY DEF GapsOf
<1>3. ASSUME NEW k \in 1..n
      PROVE  /\ rs[k].text \in Seq(Byte) /\ rs[k].edit.from \in Nat /\ rs[k].edit.to \in Nat
             /\ rs[k].edit.from <= rs[k].edit.to /\ rs[k].edit.to <= Len(raw)
  <2>1. PICK e : e = gaps[at[k]] /\ e = rs[k].edit /\ rs[k].text = Slice(final, e.finalFrom, e.finalTo)
    BY DEF Makes
  <2>2. /\ e.from \in 0..Len(raw) /\ e.to \in 0..Len(raw) /\ e.finalFrom \in 0..Len(final) /\ e.finalTo \in 0..Len(final)
        /\ e.from <= e.to /\ e.finalFrom <= e.finalTo
    BY <1>1, <2>1 DEF GapsOf
  <2>3. Slice(final, e.finalFrom, e.finalTo) \in Seq(Byte)
    <3>1. e.finalFrom \in Nat
      BY <2>2
    <3>2. PICK f \in Nat : f = e.finalFrom
      BY <3>1
    <3>3. PICK g \in 0..Len(final) : g = e.finalTo
      BY <2>2
    <3> QED  BY <3>2, <3>3, SliceType
  <2>4. PICK l \in Nat : l = Len(raw)
    BY LenProperties
  <2>5. e.from \in Nat /\ e.to \in Nat /\ e.to <= Len(raw)
    BY <2>2, <2>4
  <2> QED  BY <2>1, <2>2, <2>3, <2>5
<1>4. ASSUME NEW k \in 1..n, NEW l \in 1..n, k < l PROVE rs[k].edit.to <= rs[l].edit.from
  <2>1. at[k] < at[l] /\ at[k] \in 1..c /\ at[l] \in 1..c
    BY <1>1, <1>4 DEF Makes
  <2>2. gaps[at[k]].to < gaps[at[l]].from
    BY <2>1 DEF GapsOf
  <2>3. rs[k].edit = gaps[at[k]] /\ rs[l].edit = gaps[at[l]]
    BY DEF Makes
  <2>4. rs[k].edit.to < rs[l].edit.from
    BY <2>2, <2>3
  <2>5. rs[k].edit.to \in Nat /\ rs[l].edit.from \in Nat
    BY <1>3
  <2> QED  BY <2>4, <2>5
<1>5. Spliceable(raw, rs, n)
  BY <1>1, <1>3, <1>4 DEF Spliceable, Makes
<1>6. PICK h : SplicedFrom(h, raw, rs, n)
  BY <1>5, SplicedIs
<1> DEFINE Done(g) == \A k \in 1..(n + 1) : Before(k, at, n, g)
                          => HalfOf(h[k], raw, final, gaps[g].from, gaps[g].finalFrom)
           G == {d \in Nat : d < c => Done(c - d)}
<1>7. Done(c)
  <2>1. ASSUME NEW k \in 1..(n + 1), Before(k, at, n, c + 1)
        PROVE  HalfOf(h[k], raw, final, gaps[c].to, gaps[c].finalTo)
    <3>1. ~(k \in 1..n)
      <4> SUFFICES ASSUME k \in 1..n PROVE FALSE
        OBVIOUS
      <4>1. PICK a \in 1..c : a = at[k]
        BY <1>1
      <4>2. a < c + 1
        BY <1>2
      <4>3. k < k
        BY <2>1, <4>1, <4>2 DEF Before
      <4> QED  BY <4>3
    <3>2. k = n + 1
      BY <1>1, <3>1
    <3>3. h[k] = raw
      BY <3>2, <1>6 DEF SplicedFrom
    <3>4. PICK l \in Nat : l = Len(raw)
      BY LenProperties
    <3>5. PICK m \in Nat : m = Len(final)
      BY LenProperties
    <3>6. HalfOf(raw, raw, final, l, m)
      <4>1. l \in 0..l /\ m \in 0..m /\ l = l + (m - m) /\ 1..(m - m) = {}
        OBVIOUS
      <4> QED  BY <3>4, <3>5, <4>1 DEF HalfOf
    <3>7. gaps[c].to = l /\ gaps[c].finalTo = m
      BY <3>4, <3>5 DEF GapsOf
    <3> QED  BY <3>3, <3>6, <3>7
  <2>2. c \in 1..c
    BY <1>2
  <2> SUFFICES ASSUME NEW k \in 1..(n + 1), Before(k, at, n, c)
               PROVE  HalfOf(h[k], raw, final, gaps[c].from, gaps[c].finalFrom)
    OBVIOUS
  <2> HIDE DEF Done
  <2>3. \A i \in 1..(n + 1) : Before(i, at, n, c + 1) => HalfOf(h[i], raw, final, gaps[c].to, gaps[c].finalTo)
    BY <2>1
  <2> QED  BY <1>6, <2>2, <2>3, GapIsMade
<1>8. ASSUME NEW g \in 1..(c - 1), Done(g + 1) PROVE Done(g)
  <2>1. g \in 1..c /\ g + 1 \in 1..c /\ g < g + 1
    BY <1>2
  <2>2. PICK e : e = gaps[g]
    OBVIOUS
  <2>3. PICK f : f = gaps[g + 1]
    OBVIOUS
  <2>4. e.to < f.from /\ e.finalTo < f.finalFrom /\ Slice(raw, e.to, f.from) = Slice(final, e.finalTo, f.finalFrom)
    BY <2>1, <2>2, <2>3 DEF GapsOf
  <2>5. e.to \in Nat /\ e.finalTo \in Nat
    BY <2>1, <2>2 DEF GapsOf
  <2>6. ASSUME NEW k \in 1..(n + 1), Before(k, at, n, g + 1)
        PROVE  HalfOf(h[k], raw, final, e.to, e.finalTo)
    <3>1. HalfOf(h[k], raw, final, f.from, f.finalFrom)
      BY <1>8, <2>3, <2>6
    <3>2. PICK s : s = h[k]
      OBVIOUS
    <3> QED  BY <2>4, <2>5, <3>1, <3>2, HalfMoves
  <2> SUFFICES ASSUME NEW k \in 1..(n + 1), Before(k, at, n, g)
               PROVE  HalfOf(h[k], raw, final, gaps[g].from, gaps[g].finalFrom)
    OBVIOUS
  <2> HIDE DEF Done
  <2>7. \A i \in 1..(n + 1) : Before(i, at, n, g + 1) => HalfOf(h[i], raw, final, gaps[g].to, gaps[g].finalTo)
    BY <2>2, <2>6
  <2> QED  BY <1>6, <2>1, <2>7, GapIsMade
<1> HIDE DEF Done
<1>9. \A d \in Nat : d \in G
  <2>1. 0 \in G
    BY <1>2, <1>7
  <2>2. ASSUME NEW d \in Nat, d \in G PROVE d + 1 \in G
    <3>1. CASE d + 1 < c
      <4>1. PICK g \in 1..(c - 1) : g = c - (d + 1) /\ g + 1 = c - d
        BY <1>2, <3>1
      <4>2. Done(g + 1)
        BY <1>2, <2>2, <3>1, <4>1
      <4> QED  BY <1>8, <4>1, <4>2
    <3> QED  BY <3>1
  <2> HIDE DEF G
  <2> QED  BY <2>1, <2>2, NatSet
<1>10. Done(1)
  <2>1. PICK d \in Nat : d = c - 1 /\ d < c /\ c - d = 1
    BY <1>2
  <2> QED  BY <1>9, <2>1
<1>11. Before(1, at, n, 1) /\ 1 \in 1..(n + 1)
  <2>1. ASSUME NEW j \in 1..n PROVE ~(j < 1) /\ ~(at[j] < 1)
    BY <1>1
  <2> QED  BY <1>1, <2>1 DEF Before
<1>12. HalfOf(h[1], raw, final, 0, 0)
  <2>1. gaps[1].from = 0 /\ gaps[1].finalFrom = 0
    BY DEF GapsOf
  <2> QED  BY <1>10, <1>11, <2>1 DEF Done
<1>13. h[1] = final
  <2>1. PICK s : s = h[1]
    OBVIOUS
  <2>2. PICK m \in Nat : m = Len(final)
    BY LenProperties
  <2>3. s \in Seq(Byte) /\ Len(s) = m /\ \A i \in 1..m : s[i] = final[i]
    <3>1. s \in Seq(Byte) /\ Len(s) = 0 + (m - 0) /\ \A i \in 1..(m - 0) : s[0 + i] = final[0 + i]
      BY <1>12, <2>1, <2>2 DEF HalfOf
    <3>2. ASSUME NEW i \in 1..m PROVE s[i] = final[i]
      <4>1. i \in 1..(m - 0) /\ 0 + i = i
        OBVIOUS
      <4> QED  BY <3>1, <4>1
    <3> QED  BY <3>1, <3>2
  <2>4. s = final
    BY <2>2, <2>3, SeqEqual
  <2> QED  BY <2>1, <2>4
<1> QED  BY <1>6, <1>13 DEF SplicedFrom

-----------------------------------------------------------------------------
(***************************************************************************)
(* The edits make the final text                                             *)
(***************************************************************************)
(* The places of the records of a cue *)
OfCue(edits, n) == {k \in DOMAIN edits : edits[k].segment = n}

(* The records of a cue are its edits, in their order. *)
LEMMA RecordsOfCue ==
    ASSUME NEW raw, NEW final, NEW terms, Comparable(raw, final, terms),
           NEW edits, NEW of, NEW nth, Recorded(edits, raw, final, of, nth),
           NEW n \in DOMAIN raw, NEW rs, rs = AtPlaces(edits, OfCue(edits, n)),
           NEW es, es = LocalEdits(raw[n].text, final[n].text)
    PROVE  \E r, which : Makes(rs, es, DOMAIN es, final[n].text, r, which)
<1>1. PICK b : b = final[n].text
  OBVIOUS
<1>2. PICK l \in Nat : DOMAIN edits = 1..l
  BY DEF Recorded
<1>3. PICK Q \in SUBSET (1..l) : Q = OfCue(edits, n)
  BY <1>2 DEF OfCue
<1>4. PICK r \in Nat : \E pos : Selected(rs, edits, Q, r, pos)
  BY <1>3, GapsInOrder
<1>5. PICK pos : Selected(rs, edits, Q, r, pos)
  BY <1>4
<1>6. /\ DOMAIN rs = 1..r
      /\ \A k \in 1..r : pos[k] \in Q /\ rs[k] = edits[pos[k]]
      /\ \A k, j \in 1..r : k < j <=> pos[k] < pos[j]
      /\ \A x \in Q : \E k \in 1..r : pos[k] = x
  BY <1>5 DEF Selected
<1>7. ASSUME NEW k \in Q
      PROVE  /\ k \in DOMAIN edits /\ of[k] = n /\ nth[k] \in DOMAIN es /\ edits[k].edit = es[nth[k]]
             /\ edits[k].text = Slice(b, edits[k].edit.finalFrom, edits[k].edit.finalTo)
  <2>1. k \in DOMAIN edits /\ edits[k].segment = n
    BY <1>3 DEF OfCue
  <2>2. of[k] = n
    BY <2>1 DEF Recorded
  <2>3. /\ nth[k] \in DOMAIN LocalEdits(raw[of[k]].text, final[of[k]].text)
        /\ edits[k].edit = LocalEdits(raw[of[k]].text, final[of[k]].text)[nth[k]]
        /\ edits[k].text = Slice(final[of[k]].text, edits[k].edit.finalFrom, edits[k].edit.finalTo)
    BY <2>1 DEF Recorded
  <2> QED  BY <1>1, <2>1, <2>2, <2>3
<1>8. PICK which : which = [k \in 1..r |-> nth[pos[k]]]
  OBVIOUS
<1>9. ASSUME NEW k \in 1..r
      PROVE  /\ which[k] \in DOMAIN es /\ rs[k].edit = es[which[k]]
             /\ rs[k].text = Slice(b, rs[k].edit.finalFrom, rs[k].edit.finalTo)
  <2>1. PICK q \in Q : q = pos[k] /\ rs[k] = edits[q]
    BY <1>6
  <2> QED  BY <1>7, <1>8, <2>1
<1>10. ASSUME NEW k \in 1..r, NEW j \in 1..r PROVE k < j <=> which[k] < which[j]
  <2>1. PICK p \in Q : p = pos[k]
    BY <1>6
  <2>2. PICK q \in Q : q = pos[j]
    BY <1>6
  <2>3. p < q <=> nth[p] < nth[q]
    <3>1. p < q <=> of[p] < of[q] \/ (of[p] = of[q] /\ nth[p] < nth[q])
      BY <1>7 DEF Recorded
    <3>2. of[p] = n /\ of[q] = n /\ ~(n < n)
      <4>1. n \in Nat
        BY DEF Comparable, Texts
      <4> QED  BY <1>7, <4>1
    <3> QED  BY <3>1, <3>2
  <2>4. k < j <=> p < q
    BY <1>6, <2>1, <2>2
  <2>5. which[k] = nth[p] /\ which[j] = nth[q]
    BY <1>8, <2>1, <2>2
  <2> QED  BY <2>3, <2>4, <2>5
<1>11. ASSUME NEW x \in DOMAIN es PROVE \E k \in 1..r : which[k] = x
  <2>1. x \in DOMAIN LocalEdits(raw[n].text, final[n].text)
    OBVIOUS
  <2>2. PICK k \in DOMAIN edits : of[k] = n /\ nth[k] = x
    BY <2>1 DEF Recorded
  <2>3. edits[k].segment = n
    BY <2>2 DEF Recorded
  <2>4. k \in Q
    BY <1>3, <2>3 DEF OfCue
  <2>5. PICK i \in 1..r : pos[i] = k
    BY <1>6, <2>4
  <2> QED  BY <1>8, <2>2, <2>5
<1>12. Makes(rs, es, DOMAIN es, b, r, which)
  BY <1>6, <1>9, <1>10, <1>11 DEF Makes
<1> QED  BY <1>1, <1>12

(* The records of a cue whose text differs are those of the gaps that are not empty.     *)
LEMMA RecordsOfGaps ==
    ASSUME NEW raw, NEW final, NEW terms, Comparable(raw, final, terms),
           NEW edits, NEW of, NEW nth, Recorded(edits, raw, final, of, nth),
           NEW n \in DOMAIN raw, NEW rs, rs = AtPlaces(edits, OfCue(edits, n)),
           NEW a \in Seq(Byte), a = raw[n].text, NEW b \in Seq(Byte), b = final[n].text, a # b,
           NEW gaps, gaps = GapsBetween(a, b)
    PROVE  \E r, which : Makes(rs, gaps, Edited(gaps), b, r, which)
<1>1. PICK es : es = LocalEdits(raw[n].text, final[n].text)
  OBVIOUS
<1>2. PICK r, mth : Makes(rs, es, DOMAIN es, b, r, mth)
  BY <1>1, RecordsOfCue
<1>3. PICK c \in Nat : GapsOf(gaps, a, b, c)
  BY GapsOfTexts
<1>4. es = AtPlaces(gaps, Edited(gaps))
  BY <1>1, GapsOfTexts
<1>5. PICK P \in SUBSET (1..c) : P = Edited(gaps)
  BY <1>3 DEF GapsOf, Edited
<1>6. PICK m \in Nat : \E at : Selected(es, gaps, P, m, at)
  BY <1>4, <1>5, GapsInOrder
<1>7. PICK at : Selected(es, gaps, P, m, at)
  BY <1>6
<1>8. /\ DOMAIN es = 1..m
      /\ \A k \in 1..m : at[k] \in P /\ es[k] = gaps[at[k]]
      /\ \A k, j \in 1..m : k < j <=> at[k] < at[j]
      /\ \A x \in P : \E k \in 1..m : at[k] = x
  BY <1>7 DEF Selected
<1>9. PICK which : which = [k \in 1..r |-> at[mth[k]]]
  OBVIOUS
<1>10. ASSUME NEW k \in 1..r
       PROVE  /\ which[k] \in P /\ rs[k].edit = gaps[which[k]]
              /\ rs[k].text = Slice(b, rs[k].edit.finalFrom, rs[k].edit.finalTo)
  <2>1. PICK j \in 1..m : j = mth[k] /\ rs[k].edit = es[j]
    BY <1>2, <1>8 DEF Makes
  <2>2. rs[k].text = Slice(b, rs[k].edit.finalFrom, rs[k].edit.finalTo)
    BY <1>2 DEF Makes
  <2> QED  BY <1>8, <1>9, <2>1, <2>2
<1>11. ASSUME NEW k \in 1..r, NEW j \in 1..r PROVE k < j <=> which[k] < which[j]
  <2>1. PICK p \in 1..m : p = mth[k]
    BY <1>2, <1>8 DEF Makes
  <2>2. PICK q \in 1..m : q = mth[j]
    BY <1>2, <1>8 DEF Makes
  <2>3. k < j <=> p < q
    BY <1>2, <2>1, <2>2 DEF Makes
  <2> QED  BY <1>8, <1>9, <2>1, <2>2, <2>3
<1>12. ASSUME NEW x \in P PROVE \E k \in 1..r : which[k] = x
  <2>1. PICK j \in 1..m : at[j] = x
    BY <1>8
  <2>2. PICK k \in 1..r : mth[k] = j
    BY <1>2, <1>8 DEF Makes
  <2> QED  BY <1>9, <2>1, <2>2
<1>13. Makes(rs, gaps, P, b, r, which)
  BY <1>2, <1>10, <1>11, <1>12 DEF Makes
<1> QED  BY <1>5, <1>13

(* The records of a cue make its final text of its raw one.                       *)
LEMMA RecordsMakeFinal ==
    ASSUME NEW raw, NEW final, NEW terms, Comparable(raw, final, terms),
           NEW edits, NEW of, NEW nth, Recorded(edits, raw, final, of, nth),
           NEW n \in DOMAIN raw, NEW rs, rs = AtPlaces(edits, OfCue(edits, n))
    PROVE  Spliced(raw[n].text, rs) = final[n].text
<1>1. PICK a \in Seq(Byte) : a = raw[n].text
  BY TextType DEF Comparable
<1>2. PICK b \in Seq(Byte) : b = final[n].text
  BY TextType DEF Comparable
<1>3. CASE a = b
  <2>1. PICK es : es = LocalEdits(raw[n].text, final[n].text)
    OBVIOUS
  <2>2. PICK r, which : Makes(rs, es, DOMAIN es, final[n].text, r, which)
    BY <2>1, RecordsOfCue
  <2>3. es = <<>>
    BY <1>1, <1>2, <1>3, <2>1, GapsOfTexts
  <2>4. DOMAIN es = {}
    BY <2>3
  <2>5. r = 0 /\ DOMAIN rs = 1..r
    BY <2>2, <2>4 DEF Makes
  <2>6. Spliceable(a, rs, 0)
    BY <2>5 DEF Spliceable
  <2>7. PICK h : SplicedFrom(h, a, rs, 0)
    BY <2>6, SplicedIs
  <2>8. 0 + 1 = 1
    OBVIOUS
  <2>9. Spliced(a, rs) = a
    BY <2>7, <2>8 DEF SplicedFrom
  <2> QED  BY <1>1, <1>2, <1>3, <2>9
<1>4. CASE a # b
  <2>1. PICK gaps : gaps = GapsBetween(a, b)
    OBVIOUS
  <2>2. PICK c \in Nat : GapsOf(gaps, a, b, c)
    BY <2>1, GapsOfTexts
  <2>3. PICK r, which : Makes(rs, gaps, Edited(gaps), b, r, which)
    BY <1>1, <1>2, <1>4, <2>1, RecordsOfGaps
  <2>4. Spliced(a, rs) = b
    BY <2>2, <2>3, AllAreMade
  <2> QED  BY <1>1, <1>2, <2>4
<1> QED  BY <1>3, <1>4

(* The edits that are reported for a cue make its final text of its raw one, for all    *)
(* transcripts (hirschberg_matches, edits_from_matches, ScalarText::byte_range).      *)
THEOREM EditsMakeFinal == Spec => []EditsMakeTheFinalText
<1>1. ASSUME EvaluatedInv PROVE EditsMakeTheFinalText
  <2> SUFFICES ASSUME Evaluated, NEW n \in DOMAIN Raw
               PROVE  Spliced(Raw[n].text, EditsIn(n)) = Final[n].text
    BY DEF EditsMakeTheFinalText
  <2>1. PICK terms : terms = ParseTerms(input.terms) /\ Comparable(Raw, Final, terms)
    BY <1>1, EvaluatedIsComparable
  <2>2. PICK edits : edits = EditRecords(Raw, Final, terms)
    OBVIOUS
  <2>3. report.edits = edits
    <3>1. report = EvaluationOf(Raw, Final, TermReview(Raw, terms), edits, Edges(TermReview(Raw, terms), edits))
      BY <1>1, <2>1, <2>2 DEF EvaluatedInv, Evaluation, Related
    <3> QED  BY <3>1 DEF EvaluationOf
  <2>4. PICK of, nth : Recorded(edits, Raw, Final, of, nth)
    BY <2>1, <2>2, RecordsInOrder
  <2>5. EditsIn(n) = AtPlaces(edits, OfCue(edits, n))
    BY <2>3 DEF EditsIn, OfCue
  <2>6. PICK raw : raw = Raw
    OBVIOUS
  <2>7. PICK final : final = Final
    OBVIOUS
  <2>8. Spliced(raw[n].text, EditsIn(n)) = final[n].text
    BY <2>1, <2>4, <2>5, <2>6, <2>7, RecordsMakeFinal
  <2> QED  BY <2>6, <2>7, <2>8
<1> QED  BY <1>1, EvaluatedInvariant, PTL

-----------------------------------------------------------------------------
(***************************************************************************)
(* A forest of roots                                                         *)
(***************************************************************************)
(* Some edges join nodes among N. *)
EdgesAmong(E, N) == \A e \in E : CaseNode(e[1]) \in N /\ EditNode(e[2]) \in N

(* Trees: each node's root, and how deep it is at most *)
Forest(parent, N, root, deep) ==
    /\ DOMAIN parent = N /\ parent = [n \in N |-> parent[n]] /\ deep \in [N -> Nat]
    /\ \A n \in N : parent[n] \in N /\ root[n] \in N
    /\ \A n \in N : parent[n] = n => root[n] = n
    /\ \A n \in N : parent[n] # n => root[n] = root[parent[n]] /\ deep[parent[n]] < deep[n]

(* Find finds the root.                                                      *)
LEMMA FindIs ==
    ASSUME NEW parent, NEW N, NEW root, NEW deep, Forest(parent, N, root, deep), NEW node \in N
    PROVE  Find(parent, node) = root[node]
<1> DEFINE D == DOMAIN parent
           Is(g) == g = [n \in D |-> IF parent[n] = n THEN n ELSE g[parent[n]]]
           r == [n \in N |-> root[n]]
<1>1. Find(parent, node) = (CHOOSE g : Is(g))[node]
  BY Zenon DEF Find
<1>2. /\ D = N /\ deep \in [N -> Nat]
      /\ \A n \in N : parent[n] \in N
      /\ \A n \in N : parent[n] = n => root[n] = n
      /\ \A n \in N : parent[n] # n => root[n] = root[parent[n]] /\ deep[parent[n]] < deep[n]
  BY DEF Forest
<1>3. Is(r)
  <2>1. \A n \in N : r[n] = root[n]
    OBVIOUS
  <2>2. \A n \in N : r[n] = IF parent[n] = n THEN n ELSE r[parent[n]]
    BY <1>2, <2>1
  <2>3. r = [n \in N |-> r[n]]
    OBVIOUS
  <2> HIDE DEF r, D
  <2> QED  BY <1>2, <2>2, <2>3
<1>4. PICK c : Find(parent, node) = c[node] /\ Is(c)
  <2> HIDE DEF Is, D, r
  <2> QED  BY <1>1, <1>3, Zenon
<1>5. \A n \in N : c[n] = IF parent[n] = n THEN n ELSE c[parent[n]]
  BY <1>2, <1>4
<1> DEFINE G == {n \in N : c[n] = root[n]}
<1>6. ASSUME NEW n \in N, \A m \in N : deep[m] < deep[n] => m \in G PROVE n \in G
  <2>1. CASE parent[n] = n
    BY <1>2, <1>5, <2>1
  <2>2. CASE parent[n] # n
    <3>1. c[parent[n]] = root[parent[n]]
      BY <1>2, <1>6, <2>2
    <3> QED  BY <1>2, <1>5, <2>2, <3>1
  <2> QED  BY <2>1, <2>2
<1>7. \A n \in N : n \in G
  <2> HIDE DEF G
  <2> QED  BY <1>2, <1>6, RankSet
<1> QED  BY <1>4, <1>7

(* A root is its own root and has no other parent.                                *)
LEMMA RootsAreRoots ==
    ASSUME NEW parent, NEW N, NEW root, NEW deep, Forest(parent, N, root, deep)
    PROVE  \A n \in N : root[n] \in N /\ parent[root[n]] = root[n] /\ root[root[n]] = root[n]
<1> DEFINE G == {n \in N : parent[root[n]] = root[n]}
<1>1. /\ deep \in [N -> Nat]
      /\ \A n \in N : parent[n] \in N /\ root[n] \in N
      /\ \A n \in N : parent[n] = n => root[n] = n
      /\ \A n \in N : parent[n] # n => root[n] = root[parent[n]] /\ deep[parent[n]] < deep[n]
  BY DEF Forest
<1>2. ASSUME NEW n \in N, \A m \in N : deep[m] < deep[n] => m \in G PROVE n \in G
  <2>1. CASE parent[n] = n
    BY <1>1, <2>1
  <2>2. CASE parent[n] # n
    BY <1>1, <1>2, <2>2
  <2> QED  BY <2>1, <2>2
<1>3. \A n \in N : n \in G
  <2> HIDE DEF G
  <2> QED  BY <1>1, <1>2, RankSet
<1> QED  BY <1>1, <1>3

(* The roots when two trees are joined *)
RootsJoined(root, N, e) ==
    [n \in N |-> IF root[n] = root[EditNode(e[2])] THEN root[CaseNode(e[1])] ELSE root[n]]

(* Joining the roots of an edge's ends joins their trees.                          *)
LEMMA UnionIs ==
    ASSUME NEW parent, NEW N, NEW root, NEW deep, Forest(parent, N, root, deep),
           NEW e, CaseNode(e[1]) \in N, EditNode(e[2]) \in N
    PROVE  \E deeper : Forest(Union(parent, e), N, RootsJoined(root, N, e), deeper)
<1>1. PICK a \in N : a = root[CaseNode(e[1])]
  BY DEF Forest
<1>2. PICK b \in N : b = root[EditNode(e[2])]
  BY DEF Forest
<1>3. Union(parent, e) = [parent EXCEPT ![b] = a]
  <2>1. Find(parent, CaseNode(e[1])) = a /\ Find(parent, EditNode(e[2])) = b
    BY <1>1, <1>2, FindIs
  <2> QED  BY <2>1 DEF Union
<1>4. /\ DOMAIN parent = N /\ deep \in [N -> Nat] /\ parent = [n \in N |-> parent[n]]
      /\ \A n \in N : parent[n] \in N /\ root[n] \in N
      /\ \A n \in N : parent[n] = n => root[n] = n
      /\ \A n \in N : parent[n] # n => root[n] = root[parent[n]] /\ deep[parent[n]] < deep[n]
  BY DEF Forest
<1>5. PICK p : p = [n \in N |-> IF n = b THEN a ELSE parent[n]]
  OBVIOUS
<1>6. Union(parent, e) = p
  BY <1>3, <1>4, <1>5
<1>7. root[a] = a /\ root[b] = b /\ parent[a] = a /\ parent[b] = b
  BY <1>1, <1>2, RootsAreRoots
<1>8. PICK r : r = [n \in N |-> IF root[n] = b THEN a ELSE root[n]]
  OBVIOUS
<1>9. r = RootsJoined(root, N, e)
  BY <1>1, <1>2, <1>8 DEF RootsJoined
<1>10. PICK d : d = [n \in N |-> IF a # b /\ root[n] = b THEN deep[n] + deep[a] + 1 ELSE deep[n]]
  OBVIOUS
<1>11. d \in [N -> Nat]
  <2>1. \A n \in N : deep[n] \in Nat
    BY <1>4
  <2> QED  BY <1>10, <2>1
<1>12. ASSUME NEW n \in N PROVE p[n] \in N /\ r[n] \in N
  BY <1>4, <1>5, <1>8
<1>13. ASSUME NEW n \in N, p[n] = n PROVE r[n] = n
  <2>1. CASE n = b
    <3>1. a = b
      BY <1>5, <1>13, <2>1
    <3> QED  BY <1>7, <1>8, <2>1, <3>1
  <2>2. CASE n # b
    <3>1. parent[n] = n
      BY <1>5, <1>13, <2>2
    <3>2. root[n] = n
      BY <1>4, <3>1
    <3> QED  BY <1>8, <2>2, <3>2
  <2> QED  BY <2>1, <2>2
<1>14. ASSUME NEW n \in N, p[n] # n PROVE r[n] = r[p[n]] /\ d[p[n]] < d[n]
  <2>1. CASE n = b
    <3>1. p[n] = a /\ a # b
      BY <1>5, <1>14, <2>1
    <3>2. r[n] = a /\ r[a] = a
      BY <1>7, <1>8, <2>1
    <3>3. d[a] = deep[a] /\ d[n] = deep[n] + deep[a] + 1
      BY <1>7, <1>10, <2>1, <3>1
    <3>4. deep[a] \in Nat /\ deep[n] \in Nat
      BY <1>4
    <3> QED  BY <3>1, <3>2, <3>3, <3>4
  <2>2. CASE n # b
    <3>1. PICK m \in N : m = parent[n] /\ p[n] = m /\ m # n
      BY <1>4, <1>5, <1>14, <2>2
    <3>2. root[n] = root[m] /\ deep[m] < deep[n]
      BY <1>4, <3>1
    <3>3. r[n] = r[m]
      BY <1>8, <3>2
    <3>4. deep[m] \in Nat /\ deep[n] \in Nat /\ deep[a] \in Nat
      BY <1>4
    <3>5. d[m] < d[n]
      <4>1. CASE a # b /\ root[n] = b
        <5>1. d[m] = deep[m] + deep[a] + 1 /\ d[n] = deep[n] + deep[a] + 1
          BY <1>10, <3>2, <4>1
        <5> QED  BY <3>2, <3>4, <5>1
      <4>2. CASE ~(a # b /\ root[n] = b)
        <5>1. d[m] = deep[m] /\ d[n] = deep[n]
          BY <1>10, <3>2, <4>2
        <5> QED  BY <3>2, <5>1
      <4> QED  BY <4>1, <4>2
    <3> QED  BY <3>1, <3>3, <3>5
  <2> QED  BY <2>1, <2>2
<1>15. DOMAIN p = N /\ p = [n \in N |-> p[n]]
  BY <1>5
<1>16. Forest(p, N, r, d)
  BY <1>11, <1>12, <1>13, <1>14, <1>15 DEF Forest
<1> QED  BY <1>6, <1>9, <1>16

-----------------------------------------------------------------------------
(***************************************************************************)
(* An overlap more                                                           *)
(***************************************************************************)
Closed(S, J) == \A e \in J : CaseNode(e[1]) \in S <=> EditNode(e[2]) \in S

(* The edges J have been joined, and nothing else: a set that no edge of J leaves has with a  *)
(* node its root, and with a root its nodes.                                         *)
Joined2(parent, N, J, root) ==
    /\ \E deep : Forest(parent, N, root, deep)
    /\ \A e \in J : root[CaseNode(e[1])] = root[EditNode(e[2])]
    /\ \A S \in SUBSET N : Closed(S, J) => \A n \in N : n \in S <=> root[n] \in S

(* With no edge each node is its own root.                                          *)
LEMMA NothingJoined ==
    ASSUME NEW N
    PROVE  Joined2([n \in N |-> n], N, {}, [n \in N |-> n])
<1>1. PICK p : p = [n \in N |-> n]
  OBVIOUS
<1>2. PICK d : d = [n \in N |-> 0]
  OBVIOUS
<1>3. \A n \in N : p[n] = n
  BY <1>1
<1>4. d \in [N -> Nat] /\ DOMAIN p = N /\ p = [n \in N |-> p[n]]
  BY <1>1, <1>2
<1>5. Forest(p, N, p, d)
  BY <1>3, <1>4 DEF Forest
<1>6. Joined2(p, N, {}, p)
  BY <1>3, <1>5 DEF Joined2
<1> QED  BY <1>1, <1>6

(* An edge more is joined by Union.                                              *)
LEMMA OneEdgeMore ==
    ASSUME NEW parent, NEW N, NEW J, NEW root, Joined2(parent, N, J, root), EdgesAmong(J, N),
           NEW e, CaseNode(e[1]) \in N, EditNode(e[2]) \in N
    PROVE  Joined2(Union(parent, e), N, J \cup {e}, RootsJoined(root, N, e))
<1>1. PICK deep : Forest(parent, N, root, deep)
  BY DEF Joined2
<1>2. PICK r : r = RootsJoined(root, N, e)
  OBVIOUS
<1>3. \E deeper : Forest(Union(parent, e), N, r, deeper)
  BY <1>1, <1>2, UnionIs
<1>4. PICK a \in N : a = CaseNode(e[1])
  OBVIOUS
<1>5. PICK b \in N : b = EditNode(e[2])
  OBVIOUS
<1>6. \A n \in N : r[n] = IF root[n] = root[b] THEN root[a] ELSE root[n]
  BY <1>2, <1>4, <1>5 DEF RootsJoined
<1>7. ASSUME NEW f \in J \cup {e} PROVE r[CaseNode(f[1])] = r[EditNode(f[2])]
  <2>1. CASE f \in J
    <3>1. CaseNode(f[1]) \in N /\ EditNode(f[2]) \in N
      BY <2>1 DEF EdgesAmong
    <3>2. root[CaseNode(f[1])] = root[EditNode(f[2])]
      BY <2>1 DEF Joined2
    <3> QED  BY <1>6, <3>1, <3>2
  <2>2. CASE f = e
    BY <1>4, <1>5, <1>6, <2>2
  <2> QED  BY <2>1, <2>2
<1>8. ASSUME NEW S \in SUBSET N, Closed(S, J \cup {e}), NEW n \in N PROVE n \in S <=> r[n] \in S
  <2>1. Closed(S, J) /\ (a \in S <=> b \in S)
    BY <1>4, <1>5, <1>8 DEF Closed
  <2>2. \A m \in N : m \in S <=> root[m] \in S
    BY <2>1 DEF Joined2
  <2> QED  BY <1>6, <2>1, <2>2
<1>9. Joined2(Union(parent, e), N, J \cup {e}, r)
  BY <1>3, <1>7, <1>8 DEF Joined2
<1> QED  BY <1>2, <1>9

(* Edges as pairs of places, finitely many *)
EdgeSet(E) == IsFiniteSet(E) /\ \A e \in E : e[1] \in Nat /\ e[2] \in Nat /\ e = <<e[1], e[2]>>

(* All edges in their order are all edges.                                         *)
LEMMA EdgesInOrder ==
    ASSUME NEW E, EdgeSet(E), NEW at, at = Sorted(E, LexLess)
    PROVE  /\ \E n \in Nat : DOMAIN at = 1..n
           /\ \A i \in DOMAIN at : at[i] \in E
           /\ \A e \in E : \E i \in DOMAIN at : at[i] = e
<1>1. IsFiniteSet(E) /\ E \in SUBSET Seq(Int)
  <2>1. ASSUME NEW e \in E PROVE e \in Seq(Int)
    <3>1. PICK a \in Int : a = e[1]
      BY DEF EdgeSet
    <3>2. PICK b \in Int : b = e[2]
      BY DEF EdgeSet
    <3>3. <<a, b>> \in Seq(Int)
      OBVIOUS
    <3>4. e = <<a, b>>
      BY <3>1, <3>2 DEF EdgeSet
    <3> QED  BY <3>3, <3>4
  <2> QED  BY <2>1 DEF EdgeSet
<1>2. PICK below : below = [x \in E |-> {y \in E : LexLess(y, x)}]
  OBVIOUS
<1>3. \A x \in E : below[x] = {y \in E : LexLess(y, x)}
  BY <1>2
<1>4. Orders(below, E)
  <2>1. below \in [E -> SUBSET E]
    BY <1>2
  <2>2. \A x \in E : ~LexLess(x, x)
    BY <1>1, LexOrder
  <2>3. \A x, y, z \in E : LexLess(x, y) /\ LexLess(y, z) => LexLess(x, z)
    BY <1>1, LexOrder
  <2>4. \A x, y \in E : x # y => LexLess(x, y) \/ LexLess(y, x)
    BY <1>1, LexOrder
  <2>5. \A x \in E : x \notin below[x]
    BY <1>3, <2>2
  <2>6. \A x, y \in E : x \in below[y] => below[x] \subseteq below[y]
    BY <1>3, <2>3
  <2>7. \A x, y \in E : x # y => x \in below[y] \/ y \in below[x]
    BY <1>3, <2>4
  <2> QED  BY <2>1, <2>5, <2>6, <2>7 DEF Orders
<1>5. PlacedBy(below, at, E)
  <2>1. at = [i \in 1..Cardinality(E) |-> CHOOSE x \in E : Cardinality({y \in E : LexLess(y, x)}) = i - 1]
    BY Zenon DEF Sorted
  <2>2. at = [i \in 1..Cardinality(E) |-> at[i]]
    BY <2>1
  <2>3. ASSUME NEW i \in 1..Cardinality(E), NEW x \in E, Cardinality(below[x]) = i - 1
        PROVE  at[i] \in E /\ Cardinality(below[at[i]]) = i - 1
    <3>1. at[i] = CHOOSE z \in E : Cardinality({y \in E : LexLess(y, z)}) = i - 1
      BY <2>1
    <3>2. Cardinality({y \in E : LexLess(y, x)}) = i - 1
      BY <1>3, <2>3
    <3>3. at[i] \in E /\ Cardinality({y \in E : LexLess(y, at[i])}) = i - 1
      BY <3>1, <3>2, Zenon
    <3> QED  BY <1>3, <3>3
  <2> QED  BY <2>2, <2>3 DEF PlacedBy
<1>6. Lists(below, at, E)
  BY <1>1, <1>4, <1>5, Ordered
<1>7. PICK n \in Nat : n = Len(at) /\ DOMAIN at = 1..n
  BY <1>6, LenProperties DEF Lists
<1>8. \A i \in DOMAIN at : at[i] \in E
  BY <1>6, <1>7, ElementOfSeq DEF Lists
<1> QED  BY <1>6, <1>7, <1>8 DEF Lists

-----------------------------------------------------------------------------
(***************************************************************************)
(* All overlaps joined                                                       *)
(***************************************************************************)
(* The parents when all edges were joined, in the order of a list                *)
ParentsOf(N, at) == FoldLeft(Union, [n \in N |-> n], at)
FirstOf(at, k) == {at[i] : i \in 1..k}
Forests(N) == {p \in [N -> N] : \E root, deep : Forest(p, N, root, deep)}
JoinedTo(N, J) == {p \in Forests(N) : \E root : Joined2(p, N, J, root)}

(* What has joined something is a forest. *)
LEMMA JoinedIsForest ==
    ASSUME NEW N, NEW J, NEW p, NEW root, Joined2(p, N, J, root)
    PROVE  p \in JoinedTo(N, J)
<1>1. PICK deep : Forest(p, N, root, deep)
  BY DEF Joined2
<1>2. p \in [N -> N]
  BY <1>1 DEF Forest
<1>3. p \in Forests(N)
  BY <1>1, <1>2 DEF Forests
<1> QED  BY <1>3 DEF JoinedTo

(* Joining one after the other joins them all.                                    *)
LEMMA AllAreJoined ==
    ASSUME NEW N, NEW at, NEW n \in Nat, DOMAIN at = 1..n,
           \A i \in 1..n : CaseNode(at[i][1]) \in N /\ EditNode(at[i][2]) \in N
    PROVE  ParentsOf(N, at) \in JoinedTo(N, FirstOf(at, n))
<1> DEFINE V == Forests(N)
           base == [x \in N |-> x]
           D == DOMAIN at
           Is(iter) == iter = [s \in SUBSET D |-> IF s = {} THEN base
                                   ELSE LET i == Max(s) IN Union(iter[s \ {i}], at[i])]
           pick == [s \in SUBSET (1..n) |-> Max(s)]
           step == [i \in 1..n |-> [v \in V |-> Union(v, at[i])]]
<1>1. ParentsOf(N, at) = (CHOOSE iter : Is(iter))[D]
  BY Zenon DEF ParentsOf, FoldLeft, MapThenFoldSet
<1>2. base \in JoinedTo(N, {}) /\ base \in V
  <2>1. base \in JoinedTo(N, {})
    BY NothingJoined, JoinedIsForest
  <2> QED  BY <2>1 DEF JoinedTo
<1>3. ASSUME NEW v \in V, NEW i \in 1..n PROVE Union(v, at[i]) \in V
  <2>1. PICK root, deep : Forest(v, N, root, deep)
    BY DEF Forests
  <2>2. PICK e : e = at[i]
    OBVIOUS
  <2>3. CaseNode(e[1]) \in N /\ EditNode(e[2]) \in N
    BY <2>2
  <2>4. PICK deeper : Forest(Union(v, e), N, RootsJoined(root, N, e), deeper)
    BY <2>1, <2>3, UnionIs
  <2>5. Union(v, e) \in [N -> N]
    BY <2>4 DEF Forest
  <2>6. Union(v, e) \in V
    BY <2>4, <2>5 DEF Forests
  <2> QED  BY <2>2, <2>6
<1>4. PICK h \in [SUBSET (1..n) -> V] : IsFold(h, 1..n, pick, base, step)
  <2>1. \A s \in SUBSET (1..n) : s # {} => pick[s] \in s
    BY Extremes
  <2>2. \A i \in 1..n : step[i] \in [V -> V]
    BY <1>3
  <2>3. IsFiniteSet(1..n)
    BY Extremes
  <2> HIDE DEF V, base, pick, step
  <2>4. Foldable(1..n, V, pick, base, step)
    BY <1>2, <2>1, <2>2, <2>3 DEF Foldable
  <2> QED  BY <2>4, FoldExists
<1>5. Is(h)
  <2>1. ASSUME NEW s \in SUBSET (1..n), s # {}, NEW i, i = Max(s)
        PROVE  h[s] = Union(h[s \ {i}], at[i])
    <3>1. i \in 1..n /\ i = pick[s] /\ h[s \ {i}] \in V
      BY <2>1, Extremes
    <3>2. h[s] = step[i][h[s \ {i}]]
      BY <1>4, <2>1, <3>1 DEF IsFold
    <3>3. PICK v \in V : v = h[s \ {i}]
      BY <3>1
    <3>4. step[i][v] = Union(v, at[i])
      BY <3>1
    <3> HIDE DEF step, V
    <3> QED  BY <3>1, <3>2, <3>3, <3>4
  <2>2. h[{}] = base
    BY <1>4 DEF IsFold
  <2>3. h = [s \in SUBSET (1..n) |-> h[s]]
    OBVIOUS
  <2> HIDE DEF base
  <2> QED  BY <2>1, <2>2, <2>3
<1>6. PICK c : ParentsOf(N, at) = c[1..n] /\ Is(c)
  <2>1. D = 1..n
    OBVIOUS
  <2> HIDE DEF D, Is
  <2> QED  BY <1>1, <1>5, <2>1, Zenon
<1>7. c[1..0] = base
  <2>1. 1..0 = {} /\ {} \in SUBSET D
    OBVIOUS
  <2> HIDE DEF base, V
  <2> QED  BY <1>2, <1>6, <2>1
<1>8. ASSUME NEW k \in 1..n PROVE c[1..k] = Union(c[1..(k - 1)], at[k])
  <2>1. Max(1..k) = k /\ (1..k) \ {k} = 1..(k - 1)
    BY Extremes
  <2>2. k \in 1..k /\ \A i \in 1..k : i \in 1..n
    OBVIOUS
  <2> HIDE DEF base, V
  <2> QED  BY <1>6, <2>1, <2>2
<1> DEFINE W == [k \in 0..n |-> JoinedTo(N, FirstOf(at, k))]
<1>9. c[1..0] \in W[0]
  <2>1. FirstOf(at, 0) = {}
    BY DEF FirstOf
  <2>2. W[0] = JoinedTo(N, FirstOf(at, 0))
    <3>1. 0 \in 0..n
      OBVIOUS
    <3> QED  BY <3>1
  <2> HIDE DEF W, base
  <2> QED  BY <1>2, <1>7, <2>1, <2>2
<1>10. ASSUME NEW k \in 1..n, c[1..(k - 1)] \in W[k - 1] PROVE c[1..k] \in W[k]
  <2>1. PICK J : J = FirstOf(at, k - 1)
    OBVIOUS
  <2>2. PICK e : e = at[k]
    OBVIOUS
  <2>3. FirstOf(at, k) = J \cup {e}
    <3>1. 1..k = (1..(k - 1)) \cup {k}
      OBVIOUS
    <3> QED  BY <2>1, <2>2, <3>1 DEF FirstOf
  <2>4. W[k - 1] = JoinedTo(N, J) /\ W[k] = JoinedTo(N, J \cup {e})
    <3>1. k - 1 \in 0..n /\ k \in 0..n
      OBVIOUS
    <3>2. W[k - 1] = JoinedTo(N, FirstOf(at, k - 1)) /\ W[k] = JoinedTo(N, FirstOf(at, k))
      BY <3>1
    <3> QED  BY <2>1, <2>3, <3>2
  <2> HIDE DEF W, V, base, Is
  <2>5. PICK p : p = c[1..(k - 1)]
    OBVIOUS
  <2>6. PICK root : Joined2(p, N, J, root)
    BY <1>10, <2>4, <2>5 DEF JoinedTo
  <2>7. EdgesAmong(J, N)
    <3>1. \A i \in 1..(k - 1) : i \in 1..n
      OBVIOUS
    <3> QED  BY <2>1, <3>1 DEF EdgesAmong, FirstOf
  <2>8. CaseNode(e[1]) \in N /\ EditNode(e[2]) \in N
    BY <2>2
  <2>9. Joined2(Union(p, e), N, J \cup {e}, RootsJoined(root, N, e))
    BY <2>6, <2>7, <2>8, OneEdgeMore
  <2>10. Union(p, e) \in JoinedTo(N, J \cup {e})
    BY <2>9, JoinedIsForest
  <2> QED  BY <1>8, <2>2, <2>4, <2>5, <2>10
<1>11. c[1..n] \in W[n]
  <2> HIDE DEF W
  <2>1. n \in 0..n
    OBVIOUS
  <2> QED  BY <1>9, <1>10, <2>1, PrefixFold
<1>12. W[n] = JoinedTo(N, FirstOf(at, n))
  OBVIOUS
<1> HIDE DEF W
<1> QED  BY <1>6, <1>11, <1>12

-----------------------------------------------------------------------------
(***************************************************************************)
(* What chains of overlaps reach                                             *)
(***************************************************************************)
(* The nodes that n chains of overlaps reach, one further at each step                 *)
Reaching(reach, E, node, n) ==
    /\ reach[0] = {node} /\ \A k \in 0..n : reach[k] \in SUBSET NodesOf(E)
    /\ \A k \in 1..n : reach[k] = Beside(E, reach[k - 1])

(* A component is what is reached in as many steps as there are overlaps.             *)
LEMMA ComponentReaches ==
    ASSUME NEW E, NEW n \in Nat, n = Cardinality(E), NEW node \in NodesOf(E)
    PROVE  \E reach : Reaching(reach, E, node, n) /\ Component(E, node) = reach[n]
<1> DEFINE V == SUBSET NodesOf(E)
           base == {node}
           pick == [s \in SUBSET (1..n) |-> Max(s)]
           step == [i \in 1..n |-> [v \in V |-> Beside(E, v)]]
           Is(g) == g = [k \in 0..n |-> IF k = 0 THEN base ELSE Beside(E, g[k - 1])]
<1>1. PICK h \in [SUBSET (1..n) -> V] : IsFold(h, 1..n, pick, base, step)
  <2>1. \A s \in SUBSET (1..n) : s # {} => pick[s] \in s
    BY Extremes
  <2>2. \A i \in 1..n : step[i] \in [V -> V]
    BY DEF Beside
  <2>3. IsFiniteSet(1..n)
    BY Extremes
  <2>4. base \in V
    OBVIOUS
  <2> HIDE DEF V, base, pick, step
  <2>5. Foldable(1..n, V, pick, base, step)
    BY <2>1, <2>2, <2>3, <2>4 DEF Foldable
  <2> QED  BY <2>5, FoldExists
<1>2. PICK g : g = [k \in 0..n |-> h[1..k]]
  OBVIOUS
<1>3. ASSUME NEW k \in 0..n PROVE g[k] = h[1..k] /\ g[k] \in V
  <2>1. 1..k \in SUBSET (1..n)
    OBVIOUS
  <2> HIDE DEF V
  <2> QED  BY <1>1, <1>2, <2>1
<1>4. g[0] = base
  <2>1. 0 \in 0..n /\ 1..0 = {} /\ {} \in SUBSET (1..n)
    OBVIOUS
  <2> HIDE DEF base, V, pick, step
  <2> QED  BY <1>1, <1>3, <2>1 DEF IsFold
<1>5. ASSUME NEW k \in 1..n PROVE g[k] = Beside(E, g[k - 1])
  <2>1. Max(1..k) = k /\ (1..k) \ {k} = 1..(k - 1)
    BY Extremes
  <2>2. PICK s \in SUBSET (1..n) : s = 1..k
    OBVIOUS
  <2>3. s # {} /\ k \in 0..n /\ k - 1 \in 0..n
    BY <2>2
  <2>4. pick[s] = k
    BY <2>1, <2>2
  <2>5. PICK v \in V : v = g[k - 1] /\ v = h[1..(k - 1)]
    BY <1>3, <2>3
  <2>6. step[k][v] = Beside(E, v)
    OBVIOUS
  <2> HIDE DEF base, V, pick, step
  <2>7. h[s] = step[k][h[s \ {k}]]
    BY <1>1, <2>3, <2>4 DEF IsFold
  <2> QED  BY <1>3, <2>1, <2>2, <2>3, <2>5, <2>6, <2>7
<1>6. Is(g)
  <2>1. ASSUME NEW k \in 0..n PROVE g[k] = IF k = 0 THEN base ELSE Beside(E, g[k - 1])
    <3>1. CASE k = 0
      BY <1>4, <3>1
    <3>2. CASE k # 0
      <4>1. k \in 1..n
        BY <3>2
      <4> QED  BY <1>5, <3>2, <4>1
    <3> QED  BY <3>1, <3>2
  <2>2. g = [k \in 0..n |-> g[k]]
    BY <1>2
  <2> HIDE DEF base
  <2> QED  BY <2>1, <2>2
<1>7. Component(E, node) = (CHOOSE f : Is(f))[n]
  <2>1. Component(E, node) = (CHOOSE f : f = [k \in 0..Cardinality(E) |-> IF k = 0 THEN {node} ELSE Beside(E, f[k - 1])])[Cardinality(E)]
    BY Zenon DEF Component
  <2> QED  BY <2>1
<1>8. PICK c : Component(E, node) = c[n] /\ Is(c)
  <2> HIDE DEF Is
  <2> QED  BY <1>6, <1>7, Zenon
<1>9. c[0] = base /\ \A k \in 1..n : c[k] = Beside(E, c[k - 1])
  <2>1. \A k \in 0..n : c[k] = IF k = 0 THEN base ELSE Beside(E, c[k - 1])
    BY <1>8
  <2>2. 0 \in 0..n /\ \A k \in 1..n : k \in 0..n /\ k # 0
    OBVIOUS
  <2> HIDE DEF base
  <2> QED  BY <2>1, <2>2
<1>10. \A k \in 0..n : c[k] \in V
  <2> DEFINE G == {k \in Nat : k <= n => c[k] \in V}
  <2>1. 0 \in G
    BY <1>9
  <2>2. ASSUME NEW k \in Nat, k \in G PROVE k + 1 \in G
    <3> SUFFICES ASSUME k + 1 <= n PROVE c[k + 1] \in V
      OBVIOUS
    <3>1. PICK m \in 1..n : m = k + 1
      OBVIOUS
    <3>2. m - 1 = k /\ c[k] \in V
      BY <2>2, <3>1
    <3>3. c[m] = Beside(E, c[k])
      BY <1>9, <3>2
    <3> QED  BY <3>1, <3>2, <3>3 DEF Beside
  <2>3. \A k \in Nat : k \in G
    <3> HIDE DEF G
    <3> QED  BY <2>1, <2>2, NatSet
  <2> QED  BY <2>3
<1>11. Reaching(c, E, node, n)
  BY <1>9, <1>10 DEF Reaching
<1> QED  BY <1>8, <1>11

(* The overlaps among some nodes *)
Among(E, S) == {e \in E : CaseNode(e[1]) \in S /\ EditNode(e[2]) \in S}

(* Each step takes in another overlap, until none leads further.                   *)
LEMMA ReachGrows ==
    ASSUME NEW E, EdgeSet(E), NEW n \in Nat, NEW reach, NEW node, Reaching(reach, E, node, n)
    PROVE  \A k \in 0..n : Closed(reach[k], E) \/ Cardinality(Among(E, reach[k])) >= k
<1> DEFINE G == {k \in Nat : k <= n => Closed(reach[k], E) \/ Cardinality(Among(E, reach[k])) >= k}
<1>0. \A S : IsFiniteSet(Among(E, S)) /\ Cardinality(Among(E, S)) \in Nat
  <2>1. ASSUME NEW S PROVE IsFiniteSet(Among(E, S)) /\ Cardinality(Among(E, S)) \in Nat
    <3>1. IsFiniteSet(E) /\ Among(E, S) \in SUBSET E
      BY DEF EdgeSet, Among
    <3>2. IsFiniteSet(Among(E, S))
      BY <3>1, FS_Subset, Zenon
    <3> QED  BY <3>2, FS_CardinalityType
  <2> QED  BY <2>1
<1>1. 0 \in G
  BY <1>0
<1>2. ASSUME NEW k \in Nat, k \in G PROVE k + 1 \in G
  <2> SUFFICES ASSUME k + 1 <= n
               PROVE  Closed(reach[k + 1], E) \/ Cardinality(Among(E, reach[k + 1])) >= k + 1
    OBVIOUS
  <2>1. PICK m \in 1..n : m = k + 1
    OBVIOUS
  <2>2. PICK S \in SUBSET NodesOf(E) : S = reach[k]
    BY <2>1 DEF Reaching
  <2>3. PICK T : T = Beside(E, S)
    OBVIOUS
  <2>4. m - 1 = k /\ reach[m] = T
    BY <2>1, <2>2, <2>3 DEF Reaching
  <2>5. Closed(S, E) \/ Cardinality(Among(E, S)) >= k
    BY <1>2, <2>1, <2>2
  <2>6. CASE Closed(S, E)
    <3>1. ASSUME NEW x \in NodesOf(E), NEW y \in S, NEW e \in E,
                 {y, x} = {CaseNode(e[1]), EditNode(e[2])}
          PROVE  x \in S
      <4>1. CaseNode(e[1]) \in S <=> EditNode(e[2]) \in S
        BY <2>6 DEF Closed
      <4> QED  BY <3>1, <4>1
    <3>2. T = S
      BY <2>3, <3>1 DEF Beside
    <3> QED  BY <2>1, <2>4, <2>6, <3>2
  <2>7. CASE ~Closed(S, E)
    <3>1. PICK e \in E : ~(CaseNode(e[1]) \in S <=> EditNode(e[2]) \in S)
      BY <2>7 DEF Closed
    <3>2. CaseNode(e[1]) \in NodesOf(E) /\ EditNode(e[2]) \in NodesOf(E)
      BY DEF NodesOf
    <3>3. CaseNode(e[1]) \in T /\ EditNode(e[2]) \in T /\ S \in SUBSET T
      BY <2>3, <3>1, <3>2 DEF Beside
    <3>4. PICK A : A = Among(E, S)
      OBVIOUS
    <3>5. PICK B : B = Among(E, T)
      OBVIOUS
    <3>6. e \notin A /\ e \in B /\ A \in SUBSET B
      BY <3>1, <3>3, <3>4, <3>5 DEF Among
    <3>7. IsFiniteSet(A) /\ IsFiniteSet(B) /\ Cardinality(A) \in Nat /\ Cardinality(B) \in Nat
      BY <1>0, <3>4, <3>5
    <3>8. IsFiniteSet(B \ {e}) /\ Cardinality(B \ {e}) = Cardinality(B) - 1
      BY <3>6, <3>7, FS_RemoveElement
    <3>9. A \in SUBSET (B \ {e})
      BY <3>6
    <3>10. Cardinality(A) <= Cardinality(B \ {e})
      BY <3>8, <3>9, FS_Subset
    <3>11. Cardinality(A) >= k
      BY <2>5, <2>7, <3>4
    <3> QED  BY <2>1, <2>4, <3>5, <3>7, <3>8, <3>10, <3>11
  <2> QED  BY <2>6, <2>7
<1>3. \A k \in Nat : k \in G
  <2> HIDE DEF G
  <2> QED  BY <1>1, <1>2, NatSet
<1> QED  BY <1>3

(* What is reached in the end is closed.                                          *)
LEMMA ComponentIsClosed ==
    ASSUME NEW E, EdgeSet(E), NEW node \in NodesOf(E)
    PROVE  /\ node \in Component(E, node) /\ Component(E, node) \in SUBSET NodesOf(E)
           /\ Closed(Component(E, node), E)
<1>1. PICK n \in Nat : n = Cardinality(E)
  BY FS_CardinalityType DEF EdgeSet
<1>2. PICK reach : Reaching(reach, E, node, n) /\ Component(E, node) = reach[n]
  BY <1>1, ComponentReaches
<1>3. n \in 0..n
  OBVIOUS
<1>4. PICK S \in SUBSET NodesOf(E) : S = reach[n]
  BY <1>2, <1>3 DEF Reaching
<1>5. Closed(S, E)
  <2> SUFFICES ASSUME ~Closed(S, E) PROVE FALSE
    OBVIOUS
  <2>1. Cardinality(Among(E, S)) >= n
    BY <1>2, <1>3, <1>4, ReachGrows
  <2>2. PICK A : A = Among(E, S)
    OBVIOUS
  <2>3. IsFiniteSet(E) /\ A \in SUBSET E
    BY <2>2 DEF EdgeSet, Among
  <2>4. Cardinality(A) <= Cardinality(E) /\ Cardinality(A) \in Nat
    BY <2>3, FS_Subset, FS_CardinalityType
  <2>5. A = E
    BY <1>1, <2>1, <2>2, <2>3, <2>4, FS_Subset
  <2> QED  BY <2>2, <2>5 DEF Among, Closed
<1>6. node \in S
  <2> DEFINE G == {k \in Nat : k <= n => node \in reach[k]}
  <2>1. 0 \in G
    BY <1>2 DEF Reaching
  <2>2. ASSUME NEW k \in Nat, k \in G PROVE k + 1 \in G
    <3> SUFFICES ASSUME k + 1 <= n PROVE node \in reach[k + 1]
      OBVIOUS
    <3>1. PICK m \in 1..n : m = k + 1
      OBVIOUS
    <3>2. m - 1 = k /\ node \in reach[k]
      BY <2>2, <3>1
    <3>3. reach[m] = Beside(E, reach[k])
      BY <1>2, <3>2 DEF Reaching
    <3> QED  BY <3>1, <3>2, <3>3 DEF Beside
  <2>3. \A k \in Nat : k \in G
    <3> HIDE DEF G
    <3> QED  BY <2>1, <2>2, NatSet
  <2> QED  BY <1>4, <2>3
<1> QED  BY <1>2, <1>4, <1>5, <1>6

-----------------------------------------------------------------------------
(***************************************************************************)
(* Components and their roots                                                *)
(***************************************************************************)
(* A closed set has the whole component of each of its nodes.                           *)
LEMMA ComponentWithin ==
    ASSUME NEW E, EdgeSet(E), NEW node \in NodesOf(E), NEW S, node \in S, Closed(S, E)
    PROVE  Component(E, node) \in SUBSET S
<1>1. PICK n \in Nat : n = Cardinality(E)
  BY FS_CardinalityType DEF EdgeSet
<1>2. PICK reach : Reaching(reach, E, node, n) /\ Component(E, node) = reach[n]
  BY <1>1, ComponentReaches
<1> DEFINE G == {k \in Nat : k <= n => reach[k] \in SUBSET S}
<1>3. 0 \in G
  BY <1>2 DEF Reaching
<1>4. ASSUME NEW k \in Nat, k \in G PROVE k + 1 \in G
  <2> SUFFICES ASSUME k + 1 <= n PROVE reach[k + 1] \in SUBSET S
    OBVIOUS
  <2>1. PICK l \in 1..n : l = k + 1
    OBVIOUS
  <2>2. l - 1 = k /\ reach[k] \in SUBSET S
    BY <1>4, <2>1
  <2>3. reach[l] = Beside(E, reach[k])
    BY <1>2, <2>2 DEF Reaching
  <2>4. ASSUME NEW x \in NodesOf(E), NEW y \in reach[k], NEW e \in E,
               {y, x} = {CaseNode(e[1]), EditNode(e[2])}
        PROVE  x \in S
    <3>1. CaseNode(e[1]) \in S <=> EditNode(e[2]) \in S
      BY DEF Closed
    <3>2. y \in S
      BY <2>2
    <3> QED  BY <2>4, <3>1, <3>2
  <2>5. Beside(E, reach[k]) \in SUBSET S
    BY <2>2, <2>4 DEF Beside
  <2> QED  BY <2>1, <2>3, <2>5
<1>5. \A k \in Nat : k \in G
  <2> HIDE DEF G
  <2> QED  BY <1>3, <1>4, NatSet
<1> QED  BY <1>2, <1>5

(* The nodes with one root                                                      *)
WithRoot(N, root, r) == {n \in N : root[n] = r}

(* A component is the nodes with one root.                                           *)
LEMMA ComponentIs ==
    ASSUME NEW E, EdgeSet(E), NEW parent, NEW root, Joined2(parent, NodesOf(E), E, root),
           NEW node \in NodesOf(E)
    PROVE  Component(E, node) = WithRoot(NodesOf(E), root, root[node])
<1>1. PICK N : N = NodesOf(E)
  OBVIOUS
<1>2. PICK S \in SUBSET N : S = Component(E, node) /\ node \in S /\ Closed(S, E)
  BY <1>1, ComponentIsClosed
<1>3. \A m \in N : m \in S <=> root[m] \in S
  BY <1>1, <1>2 DEF Joined2
<1>4. ASSUME NEW m \in N, root[m] = root[node] PROVE m \in S
  BY <1>2, <1>3, <1>4
<1>5. S \in SUBSET WithRoot(N, root, root[node])
  <2>1. PICK C : C = WithRoot(N, root, root[node])
    OBVIOUS
  <2>2. ASSUME NEW e \in E PROVE CaseNode(e[1]) \in C <=> EditNode(e[2]) \in C
    <3>1. root[CaseNode(e[1])] = root[EditNode(e[2])]
      BY DEF Joined2
    <3>2. CaseNode(e[1]) \in N /\ EditNode(e[2]) \in N
      BY <1>1 DEF NodesOf
    <3> QED  BY <2>1, <3>1, <3>2 DEF WithRoot
  <2>3. Closed(C, E)
    BY <2>2 DEF Closed
  <2>4. node \in C
    BY <1>1, <2>1 DEF WithRoot
  <2> QED  BY <1>2, <2>1, <2>3, <2>4, ComponentWithin
<1>6. S = WithRoot(N, root, root[node])
  BY <1>4, <1>5 DEF WithRoot
<1> QED  BY <1>1, <1>2, <1>6

(* The overlaps of a node; those with more than one                                  *)
OverlapsAt(E, n) == {e \in E : CaseNode(e[1]) = n \/ EditNode(e[2]) = n}
Shared(E) == {n \in NodesOf(E) : Cardinality(OverlapsAt(E, n)) > 1}

(* A set with two members has more than one, and conversely *)
LEMMA MoreThanOne ==
    ASSUME NEW S, IsFiniteSet(S)
    PROVE  Cardinality(S) > 1 <=> \E x, y \in S : x # y
<1>0. Cardinality(S) \in Nat
  BY FS_CardinalityType
<1>1. ASSUME NEW x \in S, NEW y \in S, x # y PROVE Cardinality(S) > 1
  <2>1. PICK R : R = S \ {x}
    OBVIOUS
  <2>2. IsFiniteSet(R) /\ Cardinality(R) = Cardinality(S) - 1
    BY <2>1, FS_RemoveElement
  <2>3. Cardinality(R) \in Nat /\ Cardinality(R) # 0
    BY <1>1, <2>1, <2>2, FS_CardinalityType, FS_EmptySet
  <2> QED  BY <1>0, <2>2, <2>3
<1>2. ASSUME Cardinality(S) > 1 PROVE \E x, y \in S : x # y
  <2>1. S # {}
    BY <1>0, <1>2, FS_EmptySet
  <2>2. PICK x \in S : TRUE
    BY <2>1
  <2>3. S # {x}
    BY <1>2, FS_Singleton
  <2> QED  BY <2>2, <2>3
<1> QED  BY <1>1, <1>2

(* So with two *)
LEMMA MoreThanTwo ==
    ASSUME NEW S, IsFiniteSet(S)
    PROVE  /\ \A x, y, z \in S : x # y /\ x # z /\ y # z => Cardinality(S) > 2
           /\ \A x, y : S \in SUBSET {x, y} => ~(Cardinality(S) > 2)
<1>0. Cardinality(S) \in Nat
  BY FS_CardinalityType
<1>1. ASSUME NEW x \in S, NEW y \in S, NEW z \in S, x # y /\ x # z /\ y # z PROVE Cardinality(S) > 2
  <2>1. PICK R : R = S \ {x}
    OBVIOUS
  <2>2. IsFiniteSet(R) /\ Cardinality(R) = Cardinality(S) - 1
    BY <2>1, FS_RemoveElement
  <2>3. Cardinality(R) > 1
    BY <1>1, <2>1, <2>2, MoreThanOne
  <2> QED  BY <1>0, <2>2, <2>3
<1>2. ASSUME NEW x, NEW y, S \in SUBSET {x, y} PROVE ~(Cardinality(S) > 2)
  <2>1. IsFiniteSet({x}) /\ Cardinality({x}) = 1
    BY FS_Singleton
  <2>2. PICK T : T = {x} \cup {y}
    OBVIOUS
  <2>3. IsFiniteSet(T) /\ Cardinality(T) <= 2
    BY <2>1, <2>2, FS_AddElement
  <2>4. S \in SUBSET T
    BY <1>2, <2>2
  <2>5. Cardinality(S) <= Cardinality(T) /\ Cardinality(T) \in Nat
    BY <2>3, <2>4, FS_Subset, FS_CardinalityType
  <2> QED  BY <1>0, <2>3, <2>5
<1> QED  BY <1>1, <1>2

(* A case and an edit are two nodes, and each is one node.                             *)
LEMMA NodesDiffer ==
    /\ \A i, k : CaseNode(i) # EditNode(k)
    /\ \A i, j : CaseNode(i) = CaseNode(j) => i = j
    /\ \A i, j : EditNode(i) = EditNode(j) => i = j
<1>1. ASSUME NEW i, NEW k PROVE CaseNode(i) # EditNode(k)
  <2>1. CaseNode(i)[1] = "case" /\ EditNode(k)[1] = "edit"
    BY DEF CaseNode, EditNode
  <2> QED  BY <2>1
<1>2. \A i : CaseNode(i)[2] = i /\ EditNode(i)[2] = i
  BY DEF CaseNode, EditNode
<1> QED  BY <1>1, <1>2

(* A component has more than two nodes exactly when one of them is shared.              *)
LEMMA SharedComponents ==
    ASSUME NEW E, EdgeSet(E), NEW node \in NodesOf(E), NEW C, C = Component(E, node)
    PROVE  IsFiniteSet(C) => (Cardinality(C) > 2 <=> C \cap Shared(E) # {})
<1> SUFFICES ASSUME IsFiniteSet(C) PROVE Cardinality(C) > 2 <=> C \cap Shared(E) # {}
  OBVIOUS
<1>1. node \in C /\ C \in SUBSET NodesOf(E) /\ Closed(C, E)
  BY ComponentIsClosed
<1>2. \A n : IsFiniteSet(OverlapsAt(E, n))
  <2>1. ASSUME NEW n PROVE IsFiniteSet(OverlapsAt(E, n))
    <3>1. OverlapsAt(E, n) \in SUBSET E /\ IsFiniteSet(E)
      BY DEF OverlapsAt, EdgeSet
    <3> QED  BY <3>1, FS_Subset, Zenon
  <2> QED  BY <2>1
<1>3. ASSUME NEW n \in C, n \in Shared(E) PROVE Cardinality(C) > 2
  <2>1. PICK S : S = OverlapsAt(E, n)
    OBVIOUS
  <2>2. IsFiniteSet(S) /\ Cardinality(S) > 1
    BY <1>2, <1>3, <2>1 DEF Shared
  <2>3. PICK e \in S, f \in S : e # f
    BY <2>2, MoreThanOne
  <2>4. e \in E /\ f \in E /\ e = <<e[1], e[2]>> /\ f = <<f[1], f[2]>>
    BY <2>1 DEF OverlapsAt, EdgeSet
  <2>5. CaseNode(e[1]) = n \/ EditNode(e[2]) = n
    BY <2>1 DEF OverlapsAt
  <2>6. CaseNode(f[1]) = n \/ EditNode(f[2]) = n
    BY <2>1 DEF OverlapsAt
  <2>7. /\ CaseNode(e[1]) \in C /\ EditNode(e[2]) \in C
        /\ CaseNode(f[1]) \in C /\ EditNode(f[2]) \in C
    BY <1>1, <1>3, <2>4, <2>5, <2>6 DEF Closed
  <2>8. e[1] # f[1] \/ e[2] # f[2]
    BY <2>3, <2>4
  <2>9. CASE CaseNode(e[1]) = n
    <3>1. CaseNode(f[1]) = n /\ e[1] = f[1]
      BY <2>6, <2>9, NodesDiffer
    <3>2. EditNode(e[2]) # EditNode(f[2])
      BY <2>8, <3>1, NodesDiffer
    <3> QED  BY <2>7, <3>2, NodesDiffer, MoreThanTwo
  <2>10. CASE EditNode(e[2]) = n
    <3>1. EditNode(f[2]) = n /\ e[2] = f[2]
      BY <2>6, <2>10, NodesDiffer
    <3>2. CaseNode(e[1]) # CaseNode(f[1])
      BY <2>8, <3>1, NodesDiffer
    <3> QED  BY <2>7, <3>2, NodesDiffer, MoreThanTwo
  <2> QED  BY <2>5, <2>9, <2>10
<1>4. ASSUME C \cap Shared(E) = {} PROVE ~(Cardinality(C) > 2)
  <2>1. PICK e \in E : node = CaseNode(e[1]) \/ node = EditNode(e[2])
    BY DEF NodesOf
  <2>2. PICK a : a = CaseNode(e[1])
    OBVIOUS
  <2>3. PICK b : b = EditNode(e[2])
    OBVIOUS
  <2>4. a \in C /\ b \in C
    BY <1>1, <2>1, <2>2, <2>3 DEF Closed
  <2>5. ASSUME NEW n \in C, NEW f \in E, NEW g \in E,
               CaseNode(f[1]) = n \/ EditNode(f[2]) = n, CaseNode(g[1]) = n \/ EditNode(g[2]) = n
        PROVE  f = g
    <3>1. PICK S : S = OverlapsAt(E, n)
      OBVIOUS
    <3>2. IsFiniteSet(S) /\ ~(Cardinality(S) > 1)
      BY <1>1, <1>2, <1>4, <3>1 DEF Shared
    <3>3. f \in S /\ g \in S
      BY <2>5, <3>1 DEF OverlapsAt
    <3> QED  BY <3>2, <3>3, MoreThanOne
  <2>6. Closed({a, b}, E)
    <3>1. ASSUME NEW f \in E PROVE CaseNode(f[1]) \in {a, b} <=> EditNode(f[2]) \in {a, b}
      <4>1. CASE f = e
        BY <2>2, <2>3, <4>1
      <4>2. CASE f # e
        <5>1. CaseNode(f[1]) # a /\ EditNode(f[2]) # b
          BY <2>2, <2>3, <2>4, <2>5, <4>2
        <5> QED  BY <2>2, <2>3, <5>1, NodesDiffer
      <4> QED  BY <4>1, <4>2
    <3> QED  BY <3>1 DEF Closed
  <2>7. C \in SUBSET {a, b}
    <3>1. PICK S : S = {a, b}
      OBVIOUS
    <3>2. node \in S /\ Closed(S, E)
      BY <2>1, <2>2, <2>3, <2>6, <3>1
    <3> QED  BY <3>1, <3>2, ComponentWithin
  <2> QED  BY <2>7, MoreThanTwo
<1> QED  BY <1>3, <1>4

-----------------------------------------------------------------------------
(***************************************************************************)
(* The ambiguous components                                                  *)
(***************************************************************************)
(* Finitely many nodes *)
LEMMA NodesAreFinite ==
    ASSUME NEW E, IsFiniteSet(E)
    PROVE  IsFiniteSet(NodesOf(E))
<1>1. PICK A : A = {CaseNode(e[1]) : e \in E}
  OBVIOUS
<1>2. PICK B : B = {EditNode(e[2]) : e \in E}
  OBVIOUS
<1>3. IsFiniteSet(A)
  <2>1. PICK f : f = [e \in E |-> CaseNode(e[1])]
    OBVIOUS
  <2>2. f \in Surjection(E, A)
    BY <1>1, <2>1 DEF Surjection
  <2> QED  BY <2>2, FS_Surjection
<1>4. IsFiniteSet(B)
  <2>1. PICK f : f = [e \in E |-> EditNode(e[2])]
    OBVIOUS
  <2>2. f \in Surjection(E, B)
    BY <1>2, <2>1 DEF Surjection
  <2> QED  BY <2>2, FS_Surjection
<1>5. NodesOf(E) = A \cup B
  BY <1>1, <1>2 DEF NodesOf
<1> QED  BY <1>3, <1>4, <1>5, FS_Union

(* As many of one as of the other *)
LEMMA AsMany ==
    ASSUME NEW A, NEW B, NEW f, f \in [A -> B], IsFiniteSet(A),
           \A x, y \in A : f[x] = f[y] => x = y, \A z \in B : \E x \in A : f[x] = z
    PROVE  Cardinality(A) = Cardinality(B)
<1>1. f \in Bijection(A, B)
  BY DEF Bijection, Injection, Surjection, IsInjective
<1>2. ExistsBijection(A, B)
  BY <1>1 DEF ExistsBijection
<1> QED  BY <1>2, FS_Bijection

(* The components with more than two nodes *)
LargeComponents(E) == {S \in {Component(E, n) : n \in NodesOf(E)} : Cardinality(S) > 2}

(* As many of them as roots of nodes with more than one overlap                       *)
LEMMA LargeComponentsAre ==
    ASSUME NEW E, EdgeSet(E), NEW parent, NEW root, Joined2(parent, NodesOf(E), E, root)
    PROVE  Cardinality({root[n] : n \in Shared(E)}) = Cardinality(LargeComponents(E))
<1>1. PICK N : N = NodesOf(E) /\ IsFiniteSet(N)
  BY NodesAreFinite DEF EdgeSet
<1>2. PICK A : A = {root[n] : n \in Shared(E)}
  OBVIOUS
<1>3. PICK f : f = [r \in A |-> WithRoot(N, root, r)]
  OBVIOUS
<1>4. \A n \in N : Component(E, n) = WithRoot(N, root, root[n]) /\ n \in Component(E, n)
  BY <1>1, ComponentIs, ComponentIsClosed
<1>5. \A n \in N : Cardinality(Component(E, n)) > 2 <=> Component(E, n) \cap Shared(E) # {}
  <2>1. ASSUME NEW n \in N PROVE IsFiniteSet(Component(E, n))
    <3>1. Component(E, n) \in SUBSET N
      BY <1>1, ComponentIsClosed
    <3> QED  BY <1>1, <3>1, FS_Subset, Zenon
  <2> QED  BY <1>1, <2>1, SharedComponents
<1>6. \A n \in N : n \in Shared(E) => root[n] \in A /\ f[root[n]] = Component(E, n)
  BY <1>2, <1>3, <1>4
<1>7. Shared(E) \in SUBSET N
  BY <1>1 DEF Shared
<1>8. ASSUME NEW r \in A PROVE f[r] \in LargeComponents(E)
  <2>1. PICK n \in Shared(E) : r = root[n]
    BY <1>2
  <2>2. Cardinality(Component(E, n)) > 2
    BY <1>4, <1>5, <1>7, <2>1
  <2> QED  BY <1>1, <1>6, <1>7, <2>1, <2>2 DEF LargeComponents
<1>9. ASSUME NEW r \in A, NEW s \in A, f[r] = f[s] PROVE r = s
  <2>1. PICK n \in Shared(E) : r = root[n]
    BY <1>2
  <2>2. n \in f[r]
    BY <1>4, <1>6, <1>7, <2>1
  <2>3. n \in WithRoot(N, root, s)
    BY <1>3, <1>9, <2>2
  <2> QED  BY <2>1, <2>3 DEF WithRoot
<1>10. ASSUME NEW S \in LargeComponents(E) PROVE \E r \in A : f[r] = S
  <2>1. PICK n \in N : S = Component(E, n) /\ Cardinality(S) > 2
    BY <1>1 DEF LargeComponents
  <2>2. PICK m \in Shared(E) : m \in S
    BY <1>5, <2>1
  <2>3. root[m] = root[n]
    BY <1>4, <2>1, <2>2 DEF WithRoot
  <2>4. Component(E, m) = S
    BY <1>4, <1>7, <2>1, <2>3
  <2> QED  BY <1>6, <1>7, <2>4
<1>11. IsFiniteSet(A)
  <2>1. IsFiniteSet(Shared(E))
    BY <1>1, <1>7, FS_Subset, Zenon
  <2>2. PICK g : g = [n \in Shared(E) |-> root[n]]
    OBVIOUS
  <2>3. g \in Surjection(Shared(E), A)
    BY <1>2, <2>2 DEF Surjection
  <2> QED  BY <2>1, <2>3, FS_Surjection
<1>12. PICK B : B = LargeComponents(E)
  OBVIOUS
<1>13. f \in [A -> B]
  BY <1>3, <1>8, <1>12
<1>14. Cardinality(A) = Cardinality(B)
  BY <1>9, <1>10, <1>11, <1>12, <1>13, AsMany
<1> QED  BY <1>2, <1>12, <1>14

(* The ambiguous components are those with more than two nodes.                      *)
LEMMA AmbiguousAre ==
    ASSUME NEW E, EdgeSet(E)
    PROVE  AmbiguousComponents(E) = Cardinality(LargeComponents(E))
<1>1. PICK at : at = Sorted(E, LexLess)
  OBVIOUS
<1>2. PICK n \in Nat : DOMAIN at = 1..n
  BY <1>1, EdgesInOrder
<1>3. FirstOf(at, n) = E
  <2>1. (\A i \in 1..n : at[i] \in E) /\ \A e \in E : \E i \in 1..n : at[i] = e
    BY <1>1, <1>2, EdgesInOrder
  <2> QED  BY <2>1 DEF FirstOf
<1>4. PICK N : N = NodesOf(E)
  OBVIOUS
<1>5. PICK p : p = ParentsOf(N, at)
  OBVIOUS
<1>6. p \in JoinedTo(N, E)
  <2>1. \A e \in E : CaseNode(e[1]) \in N /\ EditNode(e[2]) \in N
    BY <1>4 DEF NodesOf
  <2>2. \A i \in 1..n : at[i] \in E
    BY <1>1, <1>2, EdgesInOrder
  <2>3. \A i \in 1..n : CaseNode(at[i][1]) \in N /\ EditNode(at[i][2]) \in N
    BY <2>1, <2>2
  <2> QED  BY <1>2, <1>3, <1>5, <2>3, AllAreJoined
<1>7. PICK root : Joined2(p, N, E, root)
  BY <1>6 DEF JoinedTo
<1>8. \A m \in N : Find(p, m) = root[m]
  <2>1. PICK deep : Forest(p, N, root, deep)
    BY <1>7 DEF Joined2
  <2> QED  BY <2>1, FindIs
<1> DEFINE Degree(m) == IF m[1] = "case" THEN CaseDegree(E, m[2]) ELSE EditDegree(E, m[2])
<1>9. AmbiguousComponents(E) = Cardinality({Find(p, m) : m \in {m \in N : Degree(m) > 1}})
  BY <1>1, <1>4, <1>5, Zenon DEF AmbiguousComponents, ParentsOf
<1>10. ASSUME NEW m \in N PROVE Degree(m) = Cardinality(OverlapsAt(E, m))
  <2>1. PICK e \in E : m = CaseNode(e[1]) \/ m = EditNode(e[2])
    BY <1>4 DEF NodesOf
  <2>2. CASE m = CaseNode(e[1])
    <3>1. m[1] = "case" /\ m[2] = e[1]
      BY <2>2 DEF CaseNode
    <3>2. OverlapsAt(E, m) = {f \in E : f[1] = e[1]}
      BY <2>2, NodesDiffer DEF OverlapsAt
    <3> QED  BY <3>1, <3>2 DEF CaseDegree
  <2>3. CASE m = EditNode(e[2])
    <3>1. m[1] # "case" /\ m[2] = e[2]
      BY <2>3 DEF EditNode
    <3>2. OverlapsAt(E, m) = {f \in E : f[2] = e[2]}
      BY <2>3, NodesDiffer DEF OverlapsAt
    <3> QED  BY <3>1, <3>2 DEF EditDegree
  <2> QED  BY <2>1, <2>2, <2>3
<1>11. {m \in N : Degree(m) > 1} = Shared(E)
  <2> HIDE DEF Degree
  <2> QED  BY <1>4, <1>10 DEF Shared
<1>12. Shared(E) \in SUBSET N
  BY <1>4 DEF Shared
<1>13. {Find(p, m) : m \in Shared(E)} = {root[m] : m \in Shared(E)}
  BY <1>8, <1>12
<1>14. AmbiguousComponents(E) = Cardinality({root[m] : m \in Shared(E)})
  <2> HIDE DEF Degree
  <2> QED  BY <1>9, <1>11, <1>13
<1> QED  BY <1>4, <1>7, <1>14, LargeComponentsAre

-----------------------------------------------------------------------------
(***************************************************************************)
(* What the summary counts                                                   *)
(***************************************************************************)
(* What a summary counts *)
Counted(sum, raw, final, cases, edits, E) ==
    /\ sum.changed = Cardinality(Changed(raw, final))
    /\ sum.insertions = Cardinality({k \in DOMAIN edits : IsInsertion(edits[k].edit)})
    /\ sum.deletions = Cardinality({k \in DOMAIN edits : IsDeletion(edits[k].edit)})
    /\ sum.replacements = Cardinality({k \in DOMAIN edits : ~IsInsertion(edits[k].edit) /\ ~IsDeletion(edits[k].edit)})
    /\ sum.onUnchanged = Cardinality({i \in DOMAIN cases : CaseState(raw, final, cases, E, i) = "on-unchanged-cue"})
    /\ sum.noOverlap = Cardinality({i \in DOMAIN cases : CaseState(raw, final, cases, E, i) = "changed-cue-no-overlap"})
    /\ sum.casesWithOverlap = Cardinality({i \in DOMAIN cases : CaseDegree(E, i) > 0})
    /\ sum.editsWithOverlap = Cardinality({k \in DOMAIN edits : EditDegree(E, k) > 0})
    /\ sum.editsWithoutOverlap = Len(edits) - Cardinality({k \in DOMAIN edits : EditDegree(E, k) > 0})
    /\ sum.ambiguous = AmbiguousComponents(E)

(* It counts that.                                                             *)
LEMMA SummaryIs ==
    ASSUME NEW raw, NEW final, NEW cases, NEW edits, NEW E, NEW sum,
           sum = EvaluationSummary(raw, final, cases, edits, E)
    PROVE  Counted(sum, raw, final, cases, edits, E)
  BY DEF EvaluationSummary, Counted

(* Three sets that are apart, and all of another *)
LEMMA ThreeParts ==
    ASSUME NEW n \in Nat, NEW A, NEW B, NEW C, 1..n = A \cup B \cup C,
           A \cap B = {}, A \cap C = {}, B \cap C = {}
    PROVE  Cardinality(A) + Cardinality(B) + Cardinality(C) = n
<1>1. IsFiniteSet(1..n) /\ Cardinality(1..n) = n
  <2>1. IsFiniteSet(1..n) /\ Cardinality(1..n) = IF 1 > n THEN 0 ELSE n - 1 + 1
    BY FS_Interval
  <2> QED  BY <2>1
<1>2. IsFiniteSet(A) /\ IsFiniteSet(B) /\ IsFiniteSet(C)
  <2>1. A \in SUBSET (1..n) /\ B \in SUBSET (1..n) /\ C \in SUBSET (1..n)
    OBVIOUS
  <2> QED  BY <1>1, <2>1, FS_Subset, Zenon
<1>3. PICK S : S = A \cup B
  OBVIOUS
<1>4. /\ Cardinality(A) \in Nat /\ Cardinality(B) \in Nat /\ Cardinality(C) \in Nat
      /\ Cardinality({}) = 0
  BY <1>2, FS_CardinalityType, FS_EmptySet
<1>5. IsFiniteSet(S) /\ Cardinality(S) = Cardinality(A) + Cardinality(B)
  <2>1. IsFiniteSet(S) /\ Cardinality(S) = Cardinality(A) + Cardinality(B) - Cardinality(A \cap B)
    BY <1>2, <1>3, FS_Union
  <2>2. A \cap B = {}
    OBVIOUS
  <2>3. Cardinality(A \cap B) = 0
    BY <1>4, <2>2
  <2> QED  BY <1>4, <2>1, <2>3
<1>6. Cardinality(S \cup C) = Cardinality(S) + Cardinality(C)
  <2>1. Cardinality(S \cup C) = Cardinality(S) + Cardinality(C) - Cardinality(S \cap C)
    BY <1>2, <1>5, FS_Union
  <2>2. S \cap C = {}
    BY <1>3
  <2>3. Cardinality(S \cap C) = 0
    BY <1>4, <2>2
  <2> QED  BY <1>4, <1>5, <2>1, <2>3
<1>7. S \cup C = 1..n
  BY <1>3
<1> QED  BY <1>1, <1>4, <1>5, <1>6, <1>7

(* The overlaps are pairs of places, finitely many.                              *)
LEMMA EdgesAre ==
    ASSUME NEW cases, NEW edits, NEW n \in Nat, DOMAIN cases = 1..n, NEW l \in Nat, DOMAIN edits = 1..l
    PROVE  EdgeSet(Edges(cases, edits))
<1>1. PICK E : E = Edges(cases, edits)
  OBVIOUS
<1>2. \A e \in E : e \in (1..n) \X (1..l)
  BY <1>1 DEF Edges
<1>3. IsFiniteSet(E)
  <2>1. IsFiniteSet(1..n) /\ IsFiniteSet(1..l)
    BY FS_Interval
  <2>2. IsFiniteSet((1..n) \X (1..l))
    BY <2>1, FS_Product
  <2>3. E \in SUBSET ((1..n) \X (1..l))
    BY <1>2
  <2> QED  BY <2>2, <2>3, FS_Subset, Zenon
<1>4. \A e \in E : e[1] \in Nat /\ e[2] \in Nat /\ e = <<e[1], e[2]>>
  BY <1>2
<1> QED  BY <1>1, <1>3, <1>4 DEF EdgeSet

(* An overlap counts for its case and for its edit.                                *)
LEMMA DegreesAre ==
    ASSUME NEW E, EdgeSet(E)
    PROVE  /\ \A i : CaseDegree(E, i) \in Nat /\ (CaseDegree(E, i) > 0 <=> \E e \in E : e[1] = i)
           /\ \A k : EditDegree(E, k) \in Nat /\ (EditDegree(E, k) > 0 <=> \E e \in E : e[2] = k)
<1>1. ASSUME NEW S, S \in SUBSET E
      PROVE  Cardinality(S) \in Nat /\ (Cardinality(S) > 0 <=> S # {})
  <2>1. IsFiniteSet(E)
    BY DEF EdgeSet
  <2>2. IsFiniteSet(S)
    BY <1>1, <2>1, FS_Subset, Zenon
  <2> QED  BY <2>2, FS_CardinalityType, FS_EmptySet
<1>2. ASSUME NEW i
      PROVE  CaseDegree(E, i) \in Nat /\ (CaseDegree(E, i) > 0 <=> \E e \in E : e[1] = i)
  <2>1. PICK S \in SUBSET E : S = {e \in E : e[1] = i}
    OBVIOUS
  <2>2. CaseDegree(E, i) = Cardinality(S)
    BY <2>1 DEF CaseDegree
  <2> QED  BY <1>1, <2>1, <2>2
<1>3. ASSUME NEW k
      PROVE  EditDegree(E, k) \in Nat /\ (EditDegree(E, k) > 0 <=> \E e \in E : e[2] = k)
  <2>1. PICK S \in SUBSET E : S = {e \in E : e[2] = k}
    OBVIOUS
  <2>2. EditDegree(E, k) = Cardinality(S)
    BY <2>1 DEF EditDegree
  <2> QED  BY <1>1, <2>1, <2>2
<1> QED  BY <1>2, <1>3

(* A text in which nothing is replaced stays as it is.                             *)
LEMMA NothingSpliced ==
    ASSUME NEW text \in Seq(Byte), NEW rs, DOMAIN rs = 1..0
    PROVE  Spliced(text, rs) = text
<1>1. Spliceable(text, rs, 0)
  BY DEF Spliceable
<1>2. PICK h : SplicedFrom(h, text, rs, 0)
  BY <1>1, SplicedIs
<1>3. 0 + 1 = 1
  OBVIOUS
<1> QED  BY <1>2, <1>3 DEF SplicedFrom

-----------------------------------------------------------------------------
(***************************************************************************)
(* The counts agree                                                          *)
(***************************************************************************)
(* The cases by their state: on an unchanged cue, or overlapped or not                 *)
LEMMA CasesAreCounted ==
    ASSUME NEW raw, NEW final, NEW terms, Comparable(raw, final, terms),
           NEW cases, NEW n \in Nat, DOMAIN cases = 1..n,
           NEW edits, NEW of, NEW nth, Recorded(edits, raw, final, of, nth),
           NEW E, E = Edges(cases, edits), EdgeSet(E)
    PROVE  Cardinality({i \in DOMAIN cases : CaseState(raw, final, cases, E, i) = "on-unchanged-cue"})
           + Cardinality({i \in DOMAIN cases : CaseState(raw, final, cases, E, i) = "changed-cue-no-overlap"})
           + Cardinality({i \in DOMAIN cases : CaseDegree(E, i) > 0}) = n
<1>1. PICK A : A = {i \in DOMAIN cases : CaseState(raw, final, cases, E, i) = "on-unchanged-cue"}
  OBVIOUS
<1>2. PICK B : B = {i \in DOMAIN cases : CaseState(raw, final, cases, E, i) = "changed-cue-no-overlap"}
  OBVIOUS
<1>3. PICK C : C = {i \in DOMAIN cases : CaseDegree(E, i) > 0}
  OBVIOUS
<1>4. ASSUME NEW i \in 1..n, CaseDegree(E, i) > 0 PROVE cases[i].segment \in Changed(raw, final)
  <2>1. PICK e \in E : e[1] = i
    BY <1>4, DegreesAre
  <2>2. PICK k \in DOMAIN edits : k = e[2] /\ Overlaps(cases[i], edits[k])
    BY <2>1 DEF Edges
  <2>3. cases[i].segment = edits[k].segment /\ edits[k].segment = of[k] /\ of[k] \in DOMAIN raw
    BY <2>2 DEF Overlaps, Recorded
  <2>4. PICK m \in DOMAIN raw : m = of[k]
    BY <2>3
  <2>5. nth[k] \in DOMAIN LocalEdits(raw[m].text, final[m].text)
    BY <2>4 DEF Recorded
  <2>6. raw[m].text # final[m].text
    <3>1. raw[m].text \in Seq(Byte) /\ final[m].text \in Seq(Byte)
      BY TextType DEF Comparable
    <3>2. DOMAIN <<>> = {}
      OBVIOUS
    <3> QED  BY <2>5, <3>1, <3>2, GapsOfTexts
  <2> QED  BY <2>3, <2>4, <2>6 DEF Changed
<1>5. ASSUME NEW i \in 1..n
      PROVE  /\ i \in A <=> cases[i].segment \notin Changed(raw, final)
             /\ i \in B <=> cases[i].segment \in Changed(raw, final) /\ CaseDegree(E, i) = 0
             /\ i \in C <=> CaseDegree(E, i) > 0
             /\ CaseDegree(E, i) \in Nat
  <2>1. CaseDegree(E, i) \in Nat
    BY DegreesAre
  <2>2. /\ CaseState(raw, final, cases, E, i) = "on-unchanged-cue" <=> cases[i].segment \notin Changed(raw, final)
        /\ CaseState(raw, final, cases, E, i) = "changed-cue-no-overlap"
             <=> cases[i].segment \in Changed(raw, final) /\ CaseDegree(E, i) = 0
    BY DEF CaseState
  <2> QED  BY <1>1, <1>2, <1>3, <2>1, <2>2
<1>6. A \in SUBSET (1..n) /\ B \in SUBSET (1..n) /\ C \in SUBSET (1..n)
  BY <1>1, <1>2, <1>3
<1>7. 1..n = A \cup B \cup C
  <2>1. ASSUME NEW i \in 1..n PROVE i \in A \/ i \in B \/ i \in C
    BY <1>5
  <2> QED  BY <1>6, <2>1
<1>8. A \cap B = {} /\ A \cap C = {} /\ B \cap C = {}
  <2>1. A \cap B = {}
    BY <1>5, <1>6
  <2>2. A \cap C = {}
    BY <1>4, <1>5, <1>6
  <2>3. B \cap C = {}
    BY <1>5, <1>6
  <2> QED  BY <2>1, <2>2, <2>3
<1>9. Cardinality(A) + Cardinality(B) + Cardinality(C) = n
  BY <1>7, <1>8, ThreeParts
<1> QED  BY <1>1, <1>2, <1>3, <1>9

(* The numbers of insertions, deletions, replacements and overlapped edits              *)
EditCounts(I, D, R, O, l) ==
    /\ Cardinality(I) + Cardinality(D) + Cardinality(R) = l
    /\ Cardinality(O) <= Cardinality(D) + Cardinality(R) /\ Cardinality(O) \in Nat

(* Each edit is of one kind, and no insertion is overlapped.                            *)
LEMMA EditsAreCounted ==
    ASSUME NEW raw, NEW final, NEW terms, Comparable(raw, final, terms),
           NEW cases, NEW edits, NEW l \in Nat, DOMAIN edits = 1..l,
           NEW of, NEW nth, Recorded(edits, raw, final, of, nth),
           NEW E, E = Edges(cases, edits), EdgeSet(E),
           NEW I, I = {k \in DOMAIN edits : IsInsertion(edits[k].edit)},
           NEW D, D = {k \in DOMAIN edits : IsDeletion(edits[k].edit)},
           NEW R, R = {k \in DOMAIN edits : ~IsInsertion(edits[k].edit) /\ ~IsDeletion(edits[k].edit)},
           NEW O, O = {k \in DOMAIN edits : EditDegree(E, k) > 0}
    PROVE  EditCounts(I, D, R, O, l)
<1>1. ASSUME NEW k \in 1..l PROVE ~(IsInsertion(edits[k].edit) /\ IsDeletion(edits[k].edit))
  <2>1. PICK m \in DOMAIN raw : m = of[k]
    BY DEF Recorded
  <2>2. PICK es : es = LocalEdits(raw[m].text, final[m].text)
    OBVIOUS
  <2>3. EditsApart(es, raw[m].text, final[m].text)
    <3>1. raw[m].text \in Seq(Byte) /\ final[m].text \in Seq(Byte)
      BY TextType DEF Comparable
    <3> QED  BY <2>2, <3>1, EditsAre
  <2>4. nth[k] \in DOMAIN es /\ edits[k].edit = es[nth[k]]
    <3>1. /\ nth[k] \in DOMAIN LocalEdits(raw[of[k]].text, final[of[k]].text)
          /\ edits[k].edit = LocalEdits(raw[of[k]].text, final[of[k]].text)[nth[k]]
      BY DEF Recorded
    <3> QED  BY <2>1, <2>2, <3>1
  <2>5. PICK e : e = edits[k].edit
    OBVIOUS
  <2>6. /\ e.from \in 0..Len(raw[m].text) /\ e.to \in 0..Len(raw[m].text)
        /\ e.finalFrom \in 0..Len(final[m].text) /\ e.finalTo \in 0..Len(final[m].text)
        /\ e.from < e.to \/ e.finalFrom < e.finalTo
    BY <2>3, <2>4, <2>5 DEF EditsApart
  <2> QED  BY <2>5, <2>6 DEF IsInsertion, IsDeletion
<1>2. /\ I \in SUBSET (1..l) /\ D \in SUBSET (1..l) /\ R \in SUBSET (1..l)
      /\ 1..l = I \cup D \cup R /\ I \cap R = {} /\ D \cap R = {}
  OBVIOUS
<1>3. I \cap D = {}
  BY <1>1
<1>4. Cardinality(I) + Cardinality(D) + Cardinality(R) = l
  BY <1>2, <1>3, ThreeParts
<1>6. O \in SUBSET (1..l)
  OBVIOUS
<1>7. ASSUME NEW k \in O PROVE k \notin I
  <2>1. PICK e \in E : e[2] = k
    BY DegreesAre
  <2>2. Overlaps(cases[e[1]], edits[k])
    BY <2>1 DEF Edges
  <2> QED  BY <2>2 DEF Overlaps
<1>8. IsFiniteSet(I) /\ IsFiniteSet(O) /\ IsFiniteSet(D) /\ IsFiniteSet(R)
  <2>1. IsFiniteSet(1..l)
    BY FS_Interval
  <2> QED  BY <1>2, <1>6, <2>1, FS_Subset, Zenon
<1>9. PICK S : S = D \cup R
  OBVIOUS
<1>10. IsFiniteSet(S) /\ Cardinality(S) = Cardinality(D) + Cardinality(R)
  <2>1. IsFiniteSet(S) /\ Cardinality(S) = Cardinality(D) + Cardinality(R) - Cardinality(D \cap R)
    BY <1>8, <1>9, FS_Union
  <2>2. Cardinality(D \cap R) = 0
    BY <1>2, FS_EmptySet
  <2> QED  BY <1>8, <2>1, <2>2, FS_CardinalityType
<1>11. O \in SUBSET S
  BY <1>2, <1>6, <1>7, <1>9
<1>12. Cardinality(O) <= Cardinality(S) /\ Cardinality(O) \in Nat
  BY <1>8, <1>10, <1>11, FS_Subset, FS_CardinalityType
<1> QED  BY <1>4, <1>10, <1>12 DEF EditCounts

(* There is an edit exactly when a cue was changed.                                   *)
LEMMA EditsWhereChanged ==
    ASSUME NEW raw, NEW final, NEW terms, Comparable(raw, final, terms),
           NEW edits, NEW l \in Nat, DOMAIN edits = 1..l,
           NEW of, NEW nth, Recorded(edits, raw, final, of, nth)
    PROVE  Cardinality(Changed(raw, final)) = 0 <=> l = 0
<1>1. PICK S : S = Changed(raw, final)
  OBVIOUS
<1>2. IsFiniteSet(S)
  <2>1. PICK m \in Nat : DOMAIN raw = 1..m
    BY DEF Comparable, Texts
  <2>2. IsFiniteSet(1..m)
    BY FS_Interval
  <2>3. S \in SUBSET (1..m)
    BY <1>1, <2>1 DEF Changed
  <2> QED  BY <2>2, <2>3, FS_Subset, Zenon
<1>3. Cardinality(S) = 0 <=> S = {}
  BY <1>2, FS_EmptySet
<1>4. ASSUME l # 0 PROVE S # {}
  <2>1. 1 \in DOMAIN edits
    BY <1>4
  <2>2. PICK m \in DOMAIN raw : m = of[1]
    BY <2>1 DEF Recorded
  <2>3. nth[1] \in DOMAIN LocalEdits(raw[m].text, final[m].text)
    BY <2>1, <2>2 DEF Recorded
  <2>4. raw[m].text # final[m].text
    <3>1. raw[m].text \in Seq(Byte) /\ final[m].text \in Seq(Byte)
      BY TextType DEF Comparable
    <3>2. DOMAIN <<>> = {}
      OBVIOUS
    <3> QED  BY <2>3, <3>1, <3>2, GapsOfTexts
  <2> QED  BY <1>1, <2>4 DEF Changed
<1>5. ASSUME l = 0, NEW m \in S PROVE FALSE
  <2>1. m \in DOMAIN raw /\ raw[m].text # final[m].text
    BY <1>1 DEF Changed
  <2>2. PICK P : P = OfCue(edits, m)
    OBVIOUS
  <2>3. P = {}
    BY <1>5, <2>2 DEF OfCue
  <2>4. PICK rs : rs = AtPlaces(edits, P)
    OBVIOUS
  <2>5. P \in SUBSET (1..l)
    BY <2>3
  <2>6. PICK r \in Nat : \E at : Selected(rs, edits, P, r, at)
    BY <2>4, <2>5, GapsInOrder
  <2>7. DOMAIN rs = 1..r /\ r = 0
    BY <2>3, <2>6 DEF Selected
  <2>8. DOMAIN rs = 1..0
    BY <2>7
  <2>9. raw[m].text \in Seq(Byte)
    BY <2>1, TextType DEF Comparable
  <2>10. Spliced(raw[m].text, rs) = raw[m].text
    BY <2>8, <2>9, NothingSpliced
  <2>11. Spliced(raw[m].text, rs) = final[m].text
    BY <2>1, <2>2, <2>4, RecordsMakeFinal
  <2> QED  BY <2>1, <2>10, <2>11
<1> QED  BY <1>1, <1>3, <1>4, <1>5

(* In every report each case and each edit is counted once, changed cues and edits go       *)
(* together, and the ambiguous components are the connected parts with more than one      *)
(* overlap, for all transcripts and terms (build_report_from_owned_run,                 *)
(* count_ambiguous_overlap_components).                                         *)
THEOREM CountsAlwaysAgree == Spec => []CountsAgree
<1>1. ASSUME EvaluatedInv PROVE CountsAgree
  <2> SUFFICES ASSUME Evaluated
               PROVE  LET sum == report.summary IN
                      /\ sum.onUnchanged + sum.noOverlap + sum.casesWithOverlap = Len(report.cases)
                      /\ sum.insertions + sum.deletions + sum.replacements = Len(report.edits)
                      /\ sum.editsWithOverlap + sum.editsWithoutOverlap = Len(report.edits)
                      /\ sum.editsWithOverlap <= sum.deletions + sum.replacements
                      /\ (sum.changed = 0) <=> (report.edits = <<>>)
                      /\ sum.ambiguous =
                             Cardinality({S \in {Component(report.edges, n) : n \in NodesOf(report.edges)} :
                                             Cardinality(S) > 2})
    BY DEF CountsAgree
  <2>1. PICK terms : terms = ParseTerms(input.terms) /\ Comparable(Raw, Final, terms)
    BY <1>1, EvaluatedIsComparable
  <2>2. PICK cases : cases = TermReview(Raw, terms) /\ Raised(cases, Raw)
    BY <2>1, CasesAreRaised
  <2>3. PICK edits : edits = EditRecords(Raw, Final, terms)
    OBVIOUS
  <2>4. PICK E : E = Edges(cases, edits)
    OBVIOUS
  <2>5. PICK sum : sum = EvaluationSummary(Raw, Final, cases, edits, E)
    OBVIOUS
  <2>6. report.cases = cases /\ report.edits = edits /\ report.edges = E /\ report.summary = sum
    <3>1. report = EvaluationOf(Raw, Final, cases, edits, E)
      BY <1>1, <2>1, <2>2, <2>3, <2>4 DEF EvaluatedInv, Evaluation, Related
    <3> QED  BY <2>5, <3>1 DEF EvaluationOf
  <2>7. PICK of, nth : Recorded(edits, Raw, Final, of, nth)
    BY <2>1, <2>3, RecordsInOrder
  <2>8. PICK n \in Nat : n = Len(cases) /\ DOMAIN cases = 1..n
    BY <2>2 DEF Raised
  <2>9. PICK l \in Nat : l = Len(edits) /\ DOMAIN edits = 1..l
    BY <2>7 DEF Recorded
  <2>10. EdgeSet(E)
    BY <2>4, <2>8, <2>9, EdgesAre
  <2>11. PICK raw : raw = Raw
    OBVIOUS
  <2>12. PICK final : final = Final
    OBVIOUS
  <2>13. Comparable(raw, final, terms) /\ Recorded(edits, raw, final, of, nth)
    BY <2>1, <2>7, <2>11, <2>12
  <2>14. Counted(sum, raw, final, cases, edits, E)
    BY <2>5, <2>11, <2>12, SummaryIs
  <2>15. sum.onUnchanged + sum.noOverlap + sum.casesWithOverlap = n
    <3>1. Cardinality({i \in DOMAIN cases : CaseState(raw, final, cases, E, i) = "on-unchanged-cue"})
          + Cardinality({i \in DOMAIN cases : CaseState(raw, final, cases, E, i) = "changed-cue-no-overlap"})
          + Cardinality({i \in DOMAIN cases : CaseDegree(E, i) > 0}) = n
      BY <2>4, <2>8, <2>10, <2>13, CasesAreCounted
    <3> QED  BY <2>14, <3>1 DEF Counted
  <2>16. /\ sum.insertions + sum.deletions + sum.replacements = l
         /\ sum.editsWithOverlap <= sum.deletions + sum.replacements /\ sum.editsWithOverlap \in Nat
    <3>1. PICK I : I = {k \in DOMAIN edits : IsInsertion(edits[k].edit)}
      OBVIOUS
    <3>2. PICK D : D = {k \in DOMAIN edits : IsDeletion(edits[k].edit)}
      OBVIOUS
    <3>3. PICK R : R = {k \in DOMAIN edits : ~IsInsertion(edits[k].edit) /\ ~IsDeletion(edits[k].edit)}
      OBVIOUS
    <3>4. PICK O : O = {k \in DOMAIN edits : EditDegree(E, k) > 0}
      OBVIOUS
    <3>5. EditCounts(I, D, R, O, l)
      BY <2>4, <2>9, <2>10, <2>13, <3>1, <3>2, <3>3, <3>4, EditsAreCounted
    <3> QED  BY <2>14, <3>1, <3>2, <3>3, <3>4, <3>5 DEF Counted, EditCounts
  <2>17. sum.editsWithOverlap + sum.editsWithoutOverlap = l
    <3>1. sum.editsWithoutOverlap = l - sum.editsWithOverlap
      BY <2>9, <2>14 DEF Counted
    <3> QED  BY <2>16, <3>1
  <2>18. sum.changed = 0 <=> l = 0
    <3>1. Cardinality(Changed(raw, final)) = 0 <=> l = 0
      BY <2>9, <2>13, EditsWhereChanged
    <3> QED  BY <2>14, <3>1 DEF Counted
  <2>19. l = 0 <=> edits = <<>>
    BY <2>9
  <2>20. sum.ambiguous = Cardinality(LargeComponents(E))
    BY <2>10, <2>14, AmbiguousAre DEF Counted
  <2> QED  BY <2>6, <2>8, <2>9, <2>15, <2>16, <2>17, <2>18, <2>19, <2>20 DEF LargeComponents
<1> QED  BY <1>1, EvaluatedInvariant, PTL

-----------------------------------------------------------------------------
(***************************************************************************)
(* Characters two texts have in common                                       *)
(***************************************************************************)
(* k places among the first i, from left to right *)
Rising(p, k, i) ==
    /\ p \in [1..k -> 1..i]
    /\ \A x, y \in 1..k : x < y => p[x] < p[y]

(* How many characters the first i of a and the first j of b may have in common *)
CommonAt(p, q, a, b, i, j, k) ==
    Rising(p, k, i) /\ Rising(q, k, j) /\ \A x \in 1..k : a[p[x]] = b[q[x]]
Common(a, b, i, j) == {k \in Nat : \E p, q : CommonAt(p, q, a, b, i, j, k)}

(* No characters are always common, and none others where there are no characters.     *)
LEMMA CommonNone ==
    ASSUME NEW a, NEW b, NEW i \in Nat, NEW j \in Nat
    PROVE  /\ 0 \in Common(a, b, i, j)
           /\ i = 0 \/ j = 0 => \A k \in Common(a, b, i, j) : k = 0
<1>1. 0 \in Common(a, b, i, j)
  <2>1. PICK p : p = [x \in 1..0 |-> 1]
    OBVIOUS
  <2>2. Rising(p, 0, i) /\ Rising(p, 0, j)
    BY <2>1 DEF Rising
  <2>3. CommonAt(p, p, a, b, i, j, 0)
    BY <2>2 DEF CommonAt
  <2> QED  BY <2>3 DEF Common
<1>2. ASSUME NEW k \in Common(a, b, i, j), i = 0 \/ j = 0 PROVE k = 0
  <2>1. PICK p, q : CommonAt(p, q, a, b, i, j, k)
    BY DEF Common
  <2>2. k \in Nat /\ p \in [1..k -> 1..i] /\ q \in [1..k -> 1..j]
    BY <2>1 DEF CommonAt, Rising, Common
  <2>3. CASE k # 0
    <3>1. 1 \in 1..k
      BY <2>2, <2>3
    <3>2. p[1] \in 1..i /\ q[1] \in 1..j
      BY <2>2, <3>1
    <3> QED  BY <1>2, <3>2
  <2> QED  BY <2>3
<1> QED  BY <1>1, <1>2

(* More characters have no less in common. *)
LEMMA CommonGrows ==
    ASSUME NEW a, NEW b, NEW i \in Nat, NEW j \in Nat, NEW u \in Nat, NEW v \in Nat, i <= u, j <= v,
           NEW k \in Common(a, b, i, j)
    PROVE  k \in Common(a, b, u, v)
<1>1. PICK p, q : CommonAt(p, q, a, b, i, j, k)
  BY DEF Common
<1>2. k \in Nat /\ p \in [1..k -> 1..i] /\ q \in [1..k -> 1..j]
  BY <1>1 DEF CommonAt, Rising, Common
<1>3. p \in [1..k -> 1..u] /\ q \in [1..k -> 1..v]
  BY <1>2
<1>4. CommonAt(p, q, a, b, u, v, k)
  BY <1>1, <1>3 DEF CommonAt, Rising
<1> QED  BY <1>2, <1>4 DEF Common

(* A place after some places *)
LEMMA RisingMore ==
    ASSUME NEW k \in Nat, NEW i \in Nat, NEW p, Rising(p, k, i)
    PROVE  \E u : Rising(u, k + 1, i + 1) /\ u[k + 1] = i + 1 /\ \A x \in 1..k : u[x] = p[x]
<1>1. PICK u : u = [x \in 1..(k + 1) |-> IF x = k + 1 THEN i + 1 ELSE p[x]]
  OBVIOUS
<1>2. p \in [1..k -> 1..i]
  BY DEF Rising
<1>3. u[k + 1] = i + 1 /\ \A x \in 1..k : u[x] = p[x]
  BY <1>1
<1>4. \A x \in 1..(k + 1) : x = k + 1 \/ x \in 1..k
  OBVIOUS
<1>5. ASSUME NEW x \in 1..(k + 1) PROVE u[x] \in 1..(i + 1)
  BY <1>2, <1>3, <1>4
<1>6. ASSUME NEW x \in 1..(k + 1), NEW y \in 1..(k + 1), x < y PROVE u[x] < u[y]
  <2>1. x \in 1..k
    BY <1>6
  <2>2. CASE y = k + 1
    BY <1>2, <1>3, <2>1, <2>2
  <2>3. CASE y \in 1..k
    BY <1>3, <1>6, <2>1, <2>3 DEF Rising
  <2> QED  BY <1>4, <2>2, <2>3
<1>7. Rising(u, k + 1, i + 1)
  <2>1. u \in [1..(k + 1) -> 1..(i + 1)]
    BY <1>1, <1>5
  <2> QED  BY <1>6, <2>1 DEF Rising
<1> QED  BY <1>3, <1>7

(* The places but the last *)
LEMMA RisingLess ==
    ASSUME NEW k \in Nat, NEW i \in Nat, NEW p, Rising(p, k + 1, i + 1)
    PROVE  /\ p[k + 1] \in 1..(i + 1)
           /\ \E u : Rising(u, k, i) /\ \A x \in 1..k : u[x] = p[x]
           /\ p[k + 1] # i + 1 => Rising(p, k + 1, i)
<1>1. p \in [1..(k + 1) -> 1..(i + 1)]
  BY DEF Rising
<1>2. k + 1 \in 1..(k + 1) /\ \A x \in 1..k : x \in 1..(k + 1) /\ x < k + 1
  OBVIOUS
<1>3. p[k + 1] \in 1..(i + 1)
  BY <1>1, <1>2
<1>4. ASSUME NEW x \in 1..k PROVE p[x] \in 1..i /\ p[x] < p[k + 1]
  <2>1. p[x] < p[k + 1] /\ p[x] \in 1..(i + 1)
    BY <1>1, <1>2 DEF Rising
  <2> QED  BY <1>3, <2>1
<1>5. PICK u : u = [x \in 1..k |-> p[x]]
  OBVIOUS
<1>6. Rising(u, k, i) /\ \A x \in 1..k : u[x] = p[x]
  BY <1>2, <1>4, <1>5 DEF Rising
<1>7. ASSUME p[k + 1] # i + 1 PROVE Rising(p, k + 1, i)
  <2>1. ASSUME NEW x \in 1..(k + 1) PROVE p[x] \in 1..i
    <3>1. x \in 1..k \/ x = k + 1
      OBVIOUS
    <3>2. p[k + 1] \in 1..i
      BY <1>3, <1>7
    <3> QED  BY <1>4, <3>1, <3>2
  <2>2. p \in [1..(k + 1) -> 1..i]
    BY <1>1, <2>1
  <2> QED  BY <2>2 DEF Rising
<1> QED  BY <1>3, <1>6, <1>7

(* A character that is the same at both ends is one more in common. *)
LEMMA CommonAdds ==
    ASSUME NEW a, NEW b, NEW i \in Nat, NEW j \in Nat, NEW k \in Common(a, b, i, j), a[i + 1] = b[j + 1]
    PROVE  k + 1 \in Common(a, b, i + 1, j + 1)
<1>1. PICK p, q : CommonAt(p, q, a, b, i, j, k)
  BY DEF Common
<1>2. k \in Nat
  BY DEF Common
<1>3. PICK u : Rising(u, k + 1, i + 1) /\ u[k + 1] = i + 1 /\ \A x \in 1..k : u[x] = p[x]
  BY <1>1, <1>2, RisingMore DEF CommonAt
<1>4. PICK v : Rising(v, k + 1, j + 1) /\ v[k + 1] = j + 1 /\ \A x \in 1..k : v[x] = q[x]
  BY <1>1, <1>2, RisingMore DEF CommonAt
<1>5. ASSUME NEW x \in 1..(k + 1) PROVE a[u[x]] = b[v[x]]
  <2>1. x \in 1..k \/ x = k + 1
    BY <1>2
  <2> QED  BY <1>1, <1>3, <1>4, <2>1 DEF CommonAt
<1>6. CommonAt(u, v, a, b, i + 1, j + 1, k + 1)
  BY <1>3, <1>4, <1>5 DEF CommonAt
<1> QED  BY <1>2, <1>6 DEF Common

(* What the last characters of both texts can add to what is common without them *)
LEMMA CommonDrops ==
    ASSUME NEW a, NEW b, NEW i \in Nat, NEW j \in Nat, NEW k \in Nat, k + 1 \in Common(a, b, i + 1, j + 1)
    PROVE  /\ k \in Common(a, b, i, j)
           /\ \/ a[i + 1] = b[j + 1]
              \/ k + 1 \in Common(a, b, i, j + 1)
              \/ k + 1 \in Common(a, b, i + 1, j)
<1>1. PICK p, q : CommonAt(p, q, a, b, i + 1, j + 1, k + 1)
  BY DEF Common
<1>2. Rising(p, k + 1, i + 1) /\ Rising(q, k + 1, j + 1) /\ \A x \in 1..(k + 1) : a[p[x]] = b[q[x]]
  BY <1>1 DEF CommonAt
<1>3. k \in Common(a, b, i, j)
  <2>1. PICK u : Rising(u, k, i) /\ \A x \in 1..k : u[x] = p[x]
    BY <1>2, RisingLess
  <2>2. PICK v : Rising(v, k, j) /\ \A x \in 1..k : v[x] = q[x]
    BY <1>2, RisingLess
  <2>3. CommonAt(u, v, a, b, i, j, k)
    BY <1>2, <2>1, <2>2 DEF CommonAt
  <2> QED  BY <2>3 DEF Common
<1>4. CASE p[k + 1] = i + 1 /\ q[k + 1] = j + 1
  BY <1>2, <1>3, <1>4
<1>5. CASE p[k + 1] # i + 1
  <2>1. CommonAt(p, q, a, b, i, j + 1, k + 1)
    BY <1>2, <1>5, RisingLess DEF CommonAt
  <2> QED  BY <1>3, <2>1 DEF Common
<1>6. CASE q[k + 1] # j + 1
  <2>1. CommonAt(p, q, a, b, i + 1, j, k + 1)
    BY <1>2, <1>6, RisingLess DEF CommonAt
  <2> QED  BY <1>3, <2>1 DEF Common
<1> QED  BY <1>4, <1>5, <1>6

(* The most characters in common *)
MostCommon(a, b, i, j, c) == c \in Common(a, b, i, j) /\ \A k \in Common(a, b, i, j) : k <= c

(* The cells of the rows are the lengths of longest common subsequences. *)
LEMMA CellsAreLongest ==
    ASSUME NEW n \in Nat, NEW a, NEW m \in Nat, NEW b, DOMAIN b = 1..m,
           NEW rows, RowsOf(rows, a, b, n, m)
    PROVE  \A i \in 0..n : \A j \in 0..m : MostCommon(a, b, i, j, rows[i][j + 1])
<1> DEFINE G == {i \in Nat : i <= n => \A j \in 0..m : MostCommon(a, b, i, j, rows[i][j + 1])}
<1>1. 0 \in G
  <2>1. ASSUME NEW j \in 0..m PROVE MostCommon(a, b, 0, j, rows[0][j + 1])
    <3>1. rows[0][j + 1] = 0
      BY <2>1 DEF RowsOf
    <3>2. 0 \in Common(a, b, 0, j) /\ \A k \in Common(a, b, 0, j) : k = 0
      BY <2>1, CommonNone
    <3> QED  BY <3>1, <3>2 DEF MostCommon
  <2> QED  BY <2>1
<1>2. ASSUME NEW i \in Nat, i \in G PROVE i + 1 \in G
  <2> SUFFICES ASSUME i + 1 <= n
               PROVE  \A j \in 0..m : MostCommon(a, b, i + 1, j, rows[i + 1][j + 1])
    OBVIOUS
  <2>1. \A j \in 0..m : MostCommon(a, b, i, j, rows[i][j + 1])
    BY <1>2
  <2>2. i \in 0..n /\ i + 1 \in 1..n /\ (i + 1) - 1 = i
    OBVIOUS
  <2>3. PICK previous : previous = rows[i] /\ previous \in Rows(m)
    BY <2>2 DEF RowsOf
  <2>4. PICK row : row = rows[i + 1]
    OBVIOUS
  <2>5. row = LcsNext(previous, a[i + 1], b)
    BY <2>2, <2>3, <2>4 DEF RowsOf
  <2>6. row \in LcsCells(previous, a[i + 1], b, m)
    BY <2>3, <2>5, LcsNextIs DEF Rows
  <2>7. row[1] = 0 /\ \A j \in 1..m : row[j + 1] = LcsCell(previous, a[i + 1], b, row[j], j)
    BY <2>6 DEF LcsCells
  <2>8. \A j \in 1..(m + 1) : previous[j] \in Nat
    BY <2>3 DEF Rows
  <2> DEFINE H == {j \in Nat : j <= m => MostCommon(a, b, i + 1, j, row[j + 1])}
  <2>9. 0 \in H
    <3>1. 0 \in Common(a, b, i + 1, 0) /\ \A k \in Common(a, b, i + 1, 0) : k = 0
      BY CommonNone
    <3> QED  BY <2>7, <3>1 DEF MostCommon
  <2>10. ASSUME NEW j \in Nat, j \in H PROVE j + 1 \in H
    <3> SUFFICES ASSUME j + 1 <= m PROVE MostCommon(a, b, i + 1, j + 1, row[(j + 1) + 1])
      OBVIOUS
    <3>1. j + 1 \in 1..m /\ j \in 0..m /\ j + 1 \in 0..m
      OBVIOUS
    <3>2. PICK c : c = row[(j + 1) + 1]
      OBVIOUS
    <3>3. PICK u : u = previous[j + 1]
      OBVIOUS
    <3>4. PICK v : v = previous[(j + 1) + 1]
      OBVIOUS
    <3>5. PICK w : w = row[j + 1]
      OBVIOUS
    <3>6. c = IF b[j + 1] = a[i + 1] THEN u + 1 ELSE Longer(v, w)
      BY <2>7, <3>1, <3>2, <3>3, <3>4, <3>5 DEF LcsCell
    <3>7. MostCommon(a, b, i, j, u)
      BY <2>1, <2>3, <3>1, <3>3
    <3>8. MostCommon(a, b, i, j + 1, v)
      BY <2>1, <2>3, <3>1, <3>4
    <3>9. MostCommon(a, b, i + 1, j, w)
      BY <2>10, <3>1, <3>5
    <3>10. u \in Nat /\ v \in Nat /\ w \in Nat
      BY <3>7, <3>8, <3>9 DEF MostCommon, Common
    <3>11. \A k \in Common(a, b, i + 1, j + 1) : k = 0 \/ \E l \in Nat : k = l + 1
      <4>1. ASSUME NEW k \in Nat PROVE k = 0 \/ \E l \in Nat : k = l + 1
        <5>1. k = 0 \/ (k - 1 \in Nat /\ k = (k - 1) + 1)
          OBVIOUS
        <5> QED  BY <5>1
      <4> QED  BY <4>1 DEF Common
    <3>12. CASE b[j + 1] = a[i + 1]
      <4>1. c = u + 1
        BY <3>6, <3>12
      <4>2. u + 1 \in Common(a, b, i + 1, j + 1)
        BY <3>7, <3>12, CommonAdds DEF MostCommon
      <4>3. ASSUME NEW k \in Common(a, b, i + 1, j + 1) PROVE k <= c
        <5>1. CASE k = 0
          BY <3>10, <4>1, <5>1
        <5>2. ASSUME NEW l \in Nat, k = l + 1 PROVE k <= c
          <6>1. l \in Common(a, b, i, j)
            BY <5>2, CommonDrops
          <6>2. l <= u
            BY <3>7, <6>1 DEF MostCommon
          <6> QED  BY <3>10, <4>1, <5>2, <6>2
        <5> QED  BY <3>11, <5>1, <5>2
      <4> QED  BY <3>2, <4>1, <4>2, <4>3 DEF MostCommon
    <3>13. CASE b[j + 1] # a[i + 1]
      <4>1. c = Longer(v, w) /\ (c = v \/ c = w) /\ v <= c /\ w <= c
        BY <3>6, <3>10, <3>13 DEF Longer
      <4>2. v \in Common(a, b, i + 1, j + 1)
        <5>1. v \in Common(a, b, i, j + 1) /\ i <= i + 1 /\ j + 1 <= j + 1
          BY <3>8 DEF MostCommon
        <5> QED  BY <5>1, CommonGrows
      <4>3. w \in Common(a, b, i + 1, j + 1)
        <5>1. w \in Common(a, b, i + 1, j) /\ i + 1 <= i + 1 /\ j <= j + 1
          BY <3>9 DEF MostCommon
        <5> QED  BY <5>1, CommonGrows
      <4>4. ASSUME NEW k \in Common(a, b, i + 1, j + 1) PROVE k <= c
        <5>1. CASE k = 0
          BY <3>10, <4>1, <5>1
        <5>2. ASSUME NEW l \in Nat, k = l + 1 PROVE k <= c
          <6>1. k \in Common(a, b, i, j + 1) \/ k \in Common(a, b, i + 1, j)
            BY <3>13, <5>2, CommonDrops
          <6>2. k <= v \/ k <= w
            BY <3>8, <3>9, <6>1 DEF MostCommon
          <6> QED  BY <3>10, <4>1, <5>2, <6>2
        <5> QED  BY <3>11, <5>1, <5>2
      <4>5. c \in Common(a, b, i + 1, j + 1)
        BY <4>1, <4>2, <4>3
      <4> QED  BY <3>2, <4>4, <4>5 DEF MostCommon
    <3> QED  BY <3>12, <3>13
  <2>11. \A j \in Nat : j \in H
    <3> HIDE DEF H
    <3> QED  BY <2>9, <2>10, NatSet
  <2> QED  BY <2>4, <2>11
<1>3. \A i \in Nat : i \in G
  <2> HIDE DEF G
  <2> QED  BY <1>1, <1>2, NatSet
<1> QED  BY <1>3

-----------------------------------------------------------------------------
(***************************************************************************)
(* What a cut divides                                                        *)
(***************************************************************************)
(* The places seen from the right *)
LEMMA RisingBack ==
    ASSUME NEW k \in Nat, NEW i \in Nat, NEW p, Rising(p, k, i)
    PROVE  \E u : Rising(u, k, i) /\ \A x \in 1..k : i - u[x] + 1 = p[k - x + 1]
<1>1. PICK back : back = [x \in 1..k |-> p[k - x + 1]]
  OBVIOUS
<1>2. ASSUME NEW x \in 1..k PROVE k - x + 1 \in 1..k /\ back[x] \in 1..i /\ back[x] = p[k - x + 1]
  <2>1. k - x + 1 \in 1..k
    OBVIOUS
  <2> QED  BY <1>1, <2>1 DEF Rising
<1>3. ASSUME NEW x \in 1..k, NEW y \in 1..k, x < y PROVE back[y] < back[x]
  <2>1. PICK e \in 1..k : e = k - x + 1
    BY <1>2
  <2>2. PICK d \in 1..k : d = k - y + 1
    BY <1>2
  <2>3. d < e
    BY <1>3, <2>1, <2>2
  <2> QED  BY <1>2, <2>1, <2>2, <2>3 DEF Rising
<1>4. PICK u : u = [x \in 1..k |-> i - back[x] + 1]
  OBVIOUS
<1>5. ASSUME NEW x \in 1..k PROVE u[x] \in 1..i /\ u[x] = i - back[x] + 1 /\ i - u[x] + 1 = back[x]
  <2>1. PICK z \in 1..i : z = back[x]
    BY <1>2
  <2> QED  BY <1>4, <2>1
<1>6. ASSUME NEW x \in 1..k, NEW y \in 1..k, x < y PROVE u[x] < u[y]
  <2>1. PICK z \in 1..i : z = back[x]
    BY <1>2
  <2>2. PICK w \in 1..i : w = back[y]
    BY <1>2
  <2>3. w < z
    BY <1>3, <1>6, <2>1, <2>2
  <2> QED  BY <1>5, <2>1, <2>2, <2>3
<1>7. Rising(u, k, i)
  <2>1. u \in [1..k -> 1..i]
    BY <1>4, <1>5
  <2> QED  BY <1>6, <2>1 DEF Rising
<1> QED  BY <1>2, <1>5, <1>7

(* The first i characters of a backwards *)
Backwards(c, a, i) == \A x \in 1..i : c[x] = a[i - x + 1]

(* Backwards as many characters are common. *)
LEMMA CommonBackwards ==
    ASSUME NEW a, NEW b, NEW i \in Nat, NEW j \in Nat, NEW k \in Common(a, b, i, j),
           NEW c, Backwards(c, a, i), NEW d, Backwards(d, b, j)
    PROVE  k \in Common(c, d, i, j)
<1>1. PICK p, q : CommonAt(p, q, a, b, i, j, k)
  BY DEF Common
<1>2. k \in Nat
  BY DEF Common
<1>3. PICK u : Rising(u, k, i) /\ \A x \in 1..k : i - u[x] + 1 = p[k - x + 1]
  BY <1>1, <1>2, RisingBack DEF CommonAt
<1>4. PICK v : Rising(v, k, j) /\ \A x \in 1..k : j - v[x] + 1 = q[k - x + 1]
  BY <1>1, <1>2, RisingBack DEF CommonAt
<1>5. ASSUME NEW x \in 1..k PROVE c[u[x]] = d[v[x]]
  <2>1. u[x] \in 1..i /\ v[x] \in 1..j
    BY <1>3, <1>4 DEF Rising
  <2>2. c[u[x]] = a[i - u[x] + 1]
    BY <2>1 DEF Backwards
  <2>3. d[v[x]] = b[j - v[x] + 1]
    BY <2>1 DEF Backwards
  <2>4. PICK y \in 1..k : y = k - x + 1
    BY <1>2
  <2>5. a[p[y]] = b[q[y]]
    BY <1>1 DEF CommonAt
  <2>6. i - u[x] + 1 = p[y] /\ j - v[x] + 1 = q[y]
    BY <1>3, <1>4, <2>4
  <2> QED  BY <2>2, <2>3, <2>5, <2>6
<1>6. CommonAt(u, v, c, d, i, j, k)
  BY <1>3, <1>4, <1>5 DEF CommonAt
<1> QED  BY <1>2, <1>6 DEF Common

(* What is common depends on the characters compared alone. *)
LEMMA CommonSame ==
    ASSUME NEW a, NEW b, NEW i \in Nat, NEW j \in Nat, NEW k \in Common(a, b, i, j),
           NEW c, \A x \in 1..i : c[x] = a[x],
           NEW d, \A x \in 1..j : d[x] = b[x]
    PROVE  k \in Common(c, d, i, j)
<1>1. PICK p, q : CommonAt(p, q, a, b, i, j, k)
  BY DEF Common
<1>2. ASSUME NEW x \in 1..k PROVE c[p[x]] = d[q[x]]
  <2>1. p[x] \in 1..i /\ q[x] \in 1..j /\ a[p[x]] = b[q[x]]
    BY <1>1 DEF CommonAt, Rising
  <2> QED  BY <2>1
<1>3. CommonAt(p, q, c, d, i, j, k)
  BY <1>1, <1>2 DEF CommonAt
<1> QED  BY <1>3 DEF Common

(* The first of some places *)
LEMMA RisingPart ==
    ASSUME NEW k \in Nat, NEW i \in Nat, NEW p, Rising(p, k, i),
           NEW l \in 0..k, NEW h \in Nat, \A x \in 1..l : p[x] <= h
    PROVE  \E u : Rising(u, l, h) /\ \A x \in 1..l : u[x] = p[x]
<1>1. PICK u : u = [x \in 1..l |-> p[x]]
  OBVIOUS
<1>2. \A x \in 1..l : x \in 1..k
  OBVIOUS
<1>3. ASSUME NEW x \in 1..l PROVE p[x] \in 1..h
  <2>1. p[x] \in 1..i /\ p[x] <= h
    BY <1>2 DEF Rising
  <2> QED  BY <2>1
<1>4. u \in [1..l -> 1..h] /\ \A x \in 1..l : u[x] = p[x]
  BY <1>1, <1>3
<1>5. ASSUME NEW x \in 1..l, NEW y \in 1..l, x < y PROVE u[x] < u[y]
  BY <1>2, <1>4, <1>5 DEF Rising
<1> QED  BY <1>4, <1>5 DEF Rising

(* The rest of them, counted from there *)
LEMMA RisingRest ==
    ASSUME NEW k \in Nat, NEW i \in Nat, NEW p, Rising(p, k, i),
           NEW l \in 0..k, NEW h \in 0..i, \A x \in (l + 1)..k : h < p[x],
           NEW r \in Nat, r = k - l, NEW s \in Nat, s = i - h
    PROVE  \E u : Rising(u, r, s) /\ \A x \in 1..r : h + u[x] = p[l + x]
<1>1. PICK rest : rest = [x \in 1..r |-> p[l + x]]
  OBVIOUS
<1>2. PICK u : u = [x \in 1..r |-> rest[x] - h]
  OBVIOUS
<1>3. ASSUME NEW x \in 1..r PROVE l + x \in 1..k /\ rest[x] = p[l + x] /\ rest[x] \in 1..i /\ h < rest[x]
  <2>1. PICK z \in 1..k : z = l + x /\ z \in (l + 1)..k
    OBVIOUS
  <2>2. p[z] \in 1..i /\ h < p[z]
    BY <2>1 DEF Rising
  <2> QED  BY <1>1, <2>1, <2>2
<1>4. ASSUME NEW x \in 1..r PROVE u[x] \in 1..s /\ u[x] = rest[x] - h /\ h + u[x] = p[l + x]
  <2>1. PICK z \in 1..i : z = rest[x] /\ h < z
    BY <1>3
  <2>2. u[x] = z - h
    BY <1>2, <2>1
  <2>3. z - h \in 1..s /\ h + (z - h) = z
    BY <2>1
  <2> QED  BY <1>3, <2>1, <2>2, <2>3
<1>5. ASSUME NEW x \in 1..r, NEW y \in 1..r, x < y PROVE u[x] < u[y]
  <2>1. PICK z \in 1..k : z = l + x
    BY <1>3
  <2>2. PICK w \in 1..k : w = l + y
    BY <1>3
  <2>3. z < w
    BY <1>5, <2>1, <2>2
  <2>4. p[z] < p[w] /\ p[z] \in 1..i /\ p[w] \in 1..i
    BY <2>3 DEF Rising
  <2>5. rest[x] = p[z] /\ rest[y] = p[w]
    BY <1>3, <2>1, <2>2
  <2> QED  BY <1>4, <2>4, <2>5
<1>6. u \in [1..r -> 1..s]
  BY <1>2, <1>4
<1> QED  BY <1>4, <1>5, <1>6 DEF Rising

(* Where places pass a point                                                 *)
LEMMA PassingPoint ==
    ASSUME NEW k \in Nat, NEW i \in Nat, NEW p, Rising(p, k, i), NEW h \in Nat
    PROVE  \E l \in 0..k : (\A x \in 1..l : p[x] <= h) /\ \A x \in (l + 1)..k : h < p[x]
<1> DEFINE G == {z \in Nat : z <= k => \E l \in 0..z : (\A x \in 1..l : p[x] <= h) /\ \A x \in (l + 1)..z : h < p[x]}
<1>1. 0 \in G
  OBVIOUS
<1>2. ASSUME NEW z \in Nat, z \in G PROVE z + 1 \in G
  <2> SUFFICES ASSUME z + 1 <= k
               PROVE  \E l \in 0..(z + 1) : (\A x \in 1..l : p[x] <= h) /\ \A x \in (l + 1)..(z + 1) : h < p[x]
    OBVIOUS
  <2>1. PICK l \in 0..z : (\A x \in 1..l : p[x] <= h) /\ \A x \in (l + 1)..z : h < p[x]
    BY <1>2
  <2>2. \A x \in 1..(z + 1) : p[x] \in Nat
    BY DEF Rising
  <2>3. CASE h < p[z + 1]
    <3>1. \A x \in (l + 1)..(z + 1) : x \in (l + 1)..z \/ x = z + 1
      OBVIOUS
    <3>2. \A x \in (l + 1)..(z + 1) : h < p[x]
      BY <2>1, <2>3, <3>1
    <3>3. l \in 0..(z + 1)
      OBVIOUS
    <3> QED  BY <2>1, <3>2, <3>3
  <2>4. CASE ~(h < p[z + 1])
    <3>1. ASSUME NEW x \in 1..(z + 1) PROVE p[x] <= h
      <4>1. x = z + 1 \/ p[x] < p[z + 1]
        BY DEF Rising
      <4>2. p[x] \in Nat /\ p[z + 1] \in Nat
        BY <2>2
      <4> QED  BY <2>4, <4>1, <4>2
    <3>2. z + 1 \in 0..(z + 1) /\ \A x \in ((z + 1) + 1)..(z + 1) : FALSE
      OBVIOUS
    <3> QED  BY <3>1, <3>2
  <2> QED  BY <2>3, <2>4
<1>3. k \in G
  <2> HIDE DEF G
  <2> QED  BY <1>1, <1>2, NatSet
<1> QED  BY <1>3

(* What is common to two texts when both are cut: c is where b is *)
CommonCut(a, b, n, m, mid, k, c, x, y) ==
    /\ x \in Common(a, b, mid, c) /\ x + y = k
    /\ y \in Common([z \in 1..(n - mid) |-> a[mid + z]], [z \in 1..(m - c) |-> b[c + z]], n - mid, m - c)

(* However a is cut, b can be cut so that nothing common is lost. *)
LEMMA CommonSplits ==
    ASSUME NEW a, NEW b, NEW n \in Nat, NEW m \in Nat, NEW mid \in 0..n, NEW k \in Common(a, b, n, m)
    PROVE  \E c \in 0..m, x, y \in Nat : CommonCut(a, b, n, m, mid, k, c, x, y)
<1>1. PICK p, q : CommonAt(p, q, a, b, n, m, k)
  BY DEF Common
<1>2. k \in Nat /\ Rising(p, k, n) /\ Rising(q, k, m) /\ \A x \in 1..k : a[p[x]] = b[q[x]]
  BY <1>1 DEF Common, CommonAt
<1>3. PICK l \in 0..k : (\A x \in 1..l : p[x] <= mid) /\ \A x \in (l + 1)..k : mid < p[x]
  <2>1. mid \in Nat
    OBVIOUS
  <2> QED  BY <1>2, <2>1, PassingPoint
<1>4. \A x \in 1..k : q[x] \in 1..m
  BY <1>2 DEF Rising
<1>5. PICK c \in 0..m : (\A x \in 1..l : q[x] <= c) /\ \A x \in (l + 1)..k : c < q[x]
  <2>1. CASE l = 0
    <3>1. 0 \in 0..m /\ \A x \in 1..l : FALSE
      BY <2>1
    <3>2. \A x \in (l + 1)..k : 0 < q[x]
      BY <1>4, <2>1
    <3> QED  BY <3>1, <3>2
  <2>2. CASE l # 0
    <3>1. l \in 1..k /\ q[l] \in 1..m
      BY <1>4, <2>2
    <3>2. ASSUME NEW x \in 1..l PROVE q[x] <= q[l]
      <4>1. x \in 1..k /\ (x = l \/ x < l)
        BY <1>2, <3>1
      <4>2. x = l \/ q[x] < q[l]
        BY <1>2, <3>1, <4>1 DEF Rising
      <4> QED  BY <1>4, <3>1, <4>1, <4>2
    <3>3. ASSUME NEW x \in (l + 1)..k PROVE q[l] < q[x]
      <4>1. x \in 1..k /\ l < x
        BY <3>1
      <4> QED  BY <1>2, <3>1, <4>1 DEF Rising
    <3>4. q[l] \in 0..m
      BY <3>1
    <3> QED  BY <3>2, <3>3, <3>4
  <2> QED  BY <2>1, <2>2
<1>6. l \in Common(a, b, mid, c)
  <2>1. PICK u : Rising(u, l, mid) /\ \A x \in 1..l : u[x] = p[x]
    BY <1>2, <1>3, RisingPart
  <2>2. PICK v : Rising(v, l, c) /\ \A x \in 1..l : v[x] = q[x]
    <3>1. c \in Nat
      OBVIOUS
    <3>2. k \in Nat /\ Rising(q, k, m) /\ \A x \in 1..l : q[x] <= c
      BY <1>2, <1>5
    <3> QED  BY <3>1, <3>2, RisingPart
  <2>3. \A x \in 1..l : x \in 1..k
    BY <1>2
  <2>4. CommonAt(u, v, a, b, mid, c, l)
    BY <1>2, <2>1, <2>2, <2>3 DEF CommonAt
  <2> QED  BY <2>4 DEF Common
<1>7. PICK r \in Nat : r = k - l
  BY <1>2
<1>8. PICK s \in Nat : s = n - mid
  OBVIOUS
<1>9. PICK t \in Nat : t = m - c
  OBVIOUS
<1>10. PICK d : d = [z \in 1..(n - mid) |-> a[mid + z]]
  OBVIOUS
<1>11. PICK e : e = [z \in 1..(m - c) |-> b[c + z]]
  OBVIOUS
<1>12. r \in Common(d, e, s, t)
  <2>1. PICK u : Rising(u, r, s) /\ \A x \in 1..r : mid + u[x] = p[l + x]
    <3>1. k \in Nat /\ Rising(p, k, n) /\ \A x \in (l + 1)..k : mid < p[x]
      BY <1>2, <1>3
    <3> QED  BY <1>7, <1>8, <3>1, RisingRest
  <2>2. PICK v : Rising(v, r, t) /\ \A x \in 1..r : c + v[x] = q[l + x]
    BY <1>2, <1>5, <1>7, <1>9, RisingRest
  <2>3. ASSUME NEW x \in 1..r PROVE d[u[x]] = e[v[x]]
    <3>1. u[x] \in 1..s /\ v[x] \in 1..t
      BY <2>1, <2>2 DEF Rising
    <3>2. d[u[x]] = a[mid + u[x]]
      BY <1>8, <1>10, <3>1
    <3>3. e[v[x]] = b[c + v[x]]
      BY <1>9, <1>11, <3>1
    <3>4. l + x \in 1..k
      BY <1>2, <1>7
    <3>5. a[p[l + x]] = b[q[l + x]]
      BY <1>2, <3>4
    <3> QED  BY <2>1, <2>2, <3>2, <3>3, <3>5
  <2>4. CommonAt(u, v, d, e, s, t, r)
    BY <2>1, <2>2, <2>3 DEF CommonAt
  <2> QED  BY <2>4 DEF Common
<1>13. CommonCut(a, b, n, m, mid, k, c, l, r)
  <2>1. l + r = k
    BY <1>2, <1>7
  <2> QED  BY <1>6, <1>8, <1>9, <1>10, <1>11, <1>12, <2>1 DEF CommonCut
<1> QED  BY <1>7, <1>13

-----------------------------------------------------------------------------
(***************************************************************************)
(* The division loses no match                                               *)
(***************************************************************************)
(* Places of the same characters are common. *)
LEMMA PairsAreCommon ==
    ASSUME NEW a, NEW b, NEW n \in Nat, NEW m \in Nat, DOMAIN a = 1..n, DOMAIN b = 1..m,
           NEW s, NEW k \in Nat, DOMAIN s = 1..k, Pairing(s, a, b)
    PROVE  k \in Common(a, b, n, m)
<1>1. PICK p, q : p = [x \in 1..k |-> s[x][1]] /\ q = [x \in 1..k |-> s[x][2]]
  OBVIOUS
<1>2. ASSUME NEW x \in 1..k
      PROVE  p[x] = s[x][1] /\ q[x] = s[x][2] /\ p[x] \in 1..n /\ q[x] \in 1..m /\ a[p[x]] = b[q[x]]
  BY <1>1 DEF Pairing
<1>3. ASSUME NEW x \in 1..k, NEW y \in 1..k, x < y PROVE p[x] < p[y] /\ q[x] < q[y]
  <2>1. s[x][1] < s[y][1] /\ s[x][2] < s[y][2]
    BY <1>3 DEF Pairing
  <2> QED  BY <1>2, <2>1
<1>4. p \in [1..k -> 1..n] /\ q \in [1..k -> 1..m]
  BY <1>1, <1>2
<1>5. CommonAt(p, q, a, b, n, m, k)
  BY <1>2, <1>3, <1>4 DEF CommonAt, Rising
<1> QED  BY <1>5 DEF Common

(* As many matches are found as two texts can have. *)
FoundMost(t) ==
    \E n, m, k \in Nat : /\ n = Len(t[1]) /\ m = Len(t[2]) /\ k = Len(Matches[t])
                         /\ MostCommon(t[1], t[2], n, m, k)

(* The texts whose rows are compared: of each half of one text, and of the whole other *)
Compared(left, b, u, right, back, w, m) ==
    /\ DOMAIN left = 1..u /\ DOMAIN b = 1..m /\ m = Len(b)
    /\ DOMAIN right = 1..w /\ DOMAIN back = 1..m /\ m = Len(back)

(* The best cut is as good as any.                                           *)
LEMMA CutIsBest ==
    ASSUME NEW u \in Nat, NEW w \in Nat, NEW m \in Nat,
           NEW left, NEW b, NEW right, NEW back, Compared(left, b, u, right, back, w, m),
           NEW cut \in 0..m, BestOf(LcsRow(left, b), LcsRow(right, back), m, m, cut),
           NEW c \in 0..m, NEW d \in Nat, d = m - c, NEW e \in Nat, e = m - cut,
           NEW x \in Common(left, b, u, c), NEW y \in Common(right, back, w, d)
    PROVE  \E v \in Common(left, b, u, cut), z \in Common(right, back, w, e) : x + y <= v + z
<1>1. PICK rows : RowsOf(rows, left, b, u, m) /\ LcsRow(left, b) = rows[u]
  BY LcsRowIs DEF Compared
<1>2. PICK others : RowsOf(others, right, back, w, m) /\ LcsRow(right, back) = others[w]
  BY LcsRowIs DEF Compared
<1>3. PICK forward : forward = rows[u]
  OBVIOUS
<1>4. PICK backward : backward = others[w]
  OBVIOUS
<1>5. \A j \in 0..m : MostCommon(left, b, u, j, forward[j + 1])
  <2>1. \A i \in 0..u : \A j \in 0..m : MostCommon(left, b, i, j, rows[i][j + 1])
    BY <1>1, CellsAreLongest DEF Compared
  <2>2. u \in 0..u
    OBVIOUS
  <2> QED  BY <1>3, <2>1, <2>2
<1>6. \A j \in 0..m : MostCommon(right, back, w, j, backward[j + 1])
  <2>1. \A i \in 0..w : \A j \in 0..m : MostCommon(right, back, i, j, others[i][j + 1])
    BY <1>2, CellsAreLongest DEF Compared
  <2>2. w \in 0..w
    OBVIOUS
  <2> QED  BY <1>4, <2>1, <2>2
<1>7. BestOf(forward, backward, m, m, cut)
  BY <1>1, <1>2, <1>3, <1>4
<1>8. d \in 0..m /\ e \in 0..m
  OBVIOUS
<1>9. /\ MostCommon(left, b, u, c, forward[c + 1]) /\ MostCommon(right, back, w, d, backward[d + 1])
      /\ MostCommon(left, b, u, cut, forward[cut + 1]) /\ MostCommon(right, back, w, e, backward[e + 1])
  BY <1>5, <1>6, <1>8
<1>10. PICK f \in Nat : f = forward[c + 1] /\ x <= f
  BY <1>9 DEF MostCommon, Common
<1>11. PICK g \in Nat : g = backward[d + 1] /\ y <= g
  BY <1>9 DEF MostCommon, Common
<1>12. PICK v \in Nat : v = forward[cut + 1] /\ v \in Common(left, b, u, cut)
  BY <1>9 DEF MostCommon, Common
<1>13. PICK z \in Nat : z = backward[e + 1] /\ z \in Common(right, back, w, e)
  BY <1>9 DEF MostCommon, Common
<1>14. f + g <= v + z
  <2>1. m - c + 1 = d + 1 /\ m - cut + 1 = e + 1
    OBVIOUS
  <2>2. Score(forward, backward, m, c) = f + g
    BY <1>10, <1>11, <2>1 DEF Score
  <2>3. Score(forward, backward, m, cut) = v + z
    BY <1>12, <1>13, <2>1 DEF Score
  <2>4. f + g < v + z \/ f + g = v + z
    BY <1>7, <2>2, <2>3 DEF BestOf
  <2> QED  BY <2>4
<1>15. x \in Nat /\ y \in Nat
  BY DEF Common
<1>16. x + y <= v + z
  BY <1>10, <1>11, <1>14, <1>15
<1> QED  BY <1>12, <1>13, <1>16

(* The division loses no match. *)
LEMMA DividedMost ==
    ASSUME NEW t \in Pair, Divided(t), FoundMost(LeftHalf(t)), FoundMost(RightHalf(t))
    PROVE  FoundMost(t)
<1>1. PICK n, m, mid, cut \in Nat : Halved(t, n, m, mid, cut)
  BY HalvesAre
<1>2. PICK a \in Chars : a = t[1] /\ n = Len(a) /\ DOMAIN a = 1..n
  BY <1>1 DEF Pair, Halved
<1>3. PICK b \in Chars : b = t[2] /\ m = Len(b) /\ DOMAIN b = 1..m
  BY <1>1 DEF Pair, Halved
<1>4. mid \in 1..(n - 1) /\ cut \in 0..m /\ LeftHalf(t) \in Pair /\ RightHalf(t) \in Pair
  BY <1>1 DEF Halved
<1>5. PICK left \in Chars : left = LeftHalf(t)[1]
  BY <1>4 DEF Pair
<1>6. PICK lower \in Chars : lower = LeftHalf(t)[2]
  BY <1>4 DEF Pair
<1>7. PICK right \in Chars : right = RightHalf(t)[1]
  BY <1>4 DEF Pair
<1>8. PICK upper \in Chars : upper = RightHalf(t)[2]
  BY <1>4 DEF Pair
<1>9. PICK w \in Nat : w = n - mid
  BY <1>4
<1>10. PICK e \in Nat : e = m - cut
  BY <1>4
<1>11. Len(left) = mid /\ Len(lower) = cut /\ Len(right) = w /\ Len(upper) = e
  BY <1>1, <1>5, <1>6, <1>7, <1>8, <1>9, <1>10 DEF Halved
<1>12. /\ \A i \in 1..mid : left[i] = a[i]
       /\ \A i \in 1..cut : lower[i] = b[i]
       /\ \A i \in 1..w : right[i] = a[mid + i]
       /\ \A i \in 1..e : upper[i] = b[cut + i]
  BY <1>1, <1>2, <1>3, <1>5, <1>6, <1>7, <1>8, <1>9, <1>10 DEF Halved
<1>13. cut = Split(left, right, b)
  <2>1. left = LeftPart(t) /\ right = RightPart(t)
    BY <1>5, <1>7 DEF LeftHalf, RightHalf
  <2> QED  BY <1>1, <1>3, <2>1 DEF Halved, CutOf
<1>14. PICK p \in Found : p = Matches[LeftHalf(t)]
  BY <1>4, MatchesPaired
<1>15. PICK q \in Found : q = Matches[RightHalf(t)]
  BY <1>4, MatchesPaired
<1>16. PICK g \in Nat : g = Len(p) /\ MostCommon(left, lower, mid, cut, g)
  BY <1>5, <1>6, <1>11, <1>14 DEF FoundMost
<1>17. PICK h \in Nat : h = Len(q) /\ MostCommon(right, upper, w, e, h)
  BY <1>7, <1>8, <1>11, <1>15 DEF FoundMost
<1>18. PICK s \in Found : s = Matches[t] /\ Pairing(s, a, b)
  BY <1>2, <1>3, MatchesPaired
<1>19. Len(s) = g + h
  <2>1. s = Joint(t, p, q)
    BY <1>14, <1>15, <1>18, MatchesAre DEF MatchesComputed
  <2>2. Pairing(p, LeftHalf(t)[1], LeftHalf(t)[2]) /\ Pairing(q, RightHalf(t)[1], RightHalf(t)[2])
    BY <1>4, <1>14, <1>15, MatchesPaired
  <2>3. Len(Joint(t, p, q)) = Len(p) + Len(q)
    BY <2>2, JointPairs
  <2> QED  BY <1>16, <1>17, <2>1, <2>3
<1>20. g + h \in Common(a, b, n, m)
  <2>1. DOMAIN s = 1..(g + h) /\ g + h \in Nat
    BY <1>19, LenProperties DEF Found
  <2> QED  BY <1>2, <1>3, <1>18, <2>1, PairsAreCommon
<1>21. PICK wr : /\ wr = Reverse(right) /\ DOMAIN wr = 1..w
                 /\ \A z \in 1..w : wr[z] = right[w - z + 1]
  <2>1. PICK wr : wr = Reverse(right)
    OBVIOUS
  <2>2. DOMAIN wr = 1..w /\ \A z \in 1..w : wr[z] = right[w - z + 1]
    BY <1>11, <2>1, BackwardsIs
  <2> QED  BY <2>1, <2>2
<1>22. PICK br : /\ br = Reverse(b) /\ DOMAIN br = 1..m /\ Len(br) = m
                 /\ \A z \in 1..m : br[z] = b[m - z + 1]
  BY <1>3, BackwardsIs
<1>23. ASSUME NEW k \in Common(a, b, n, m) PROVE k <= g + h
  <2>1. mid \in 0..n
    BY <1>4
  <2>2. PICK c \in 0..m, x, y \in Nat : CommonCut(a, b, n, m, mid, k, c, x, y)
    BY <1>23, <2>1, CommonSplits
  <2>3. PICK f \in Nat : f = m - c
    OBVIOUS
  <2>4. PICK d : d = [z \in 1..w |-> a[mid + z]]
    OBVIOUS
  <2>5. PICK r : r = [z \in 1..f |-> b[c + z]]
    OBVIOUS
  <2>6. x \in Common(a, b, mid, c) /\ x + y = k /\ y \in Common(d, r, w, f)
    BY <1>9, <2>2, <2>3, <2>4, <2>5 DEF CommonCut
  <2>7. x \in Common(left, b, mid, c)
    <3>1. c \in Nat /\ \A z \in 1..c : b[z] = b[z]
      OBVIOUS
    <3> QED  BY <1>12, <2>6, <3>1, CommonSame
  <2>8. /\ \A z \in 1..w : wr[z] = right[w - z + 1]
        /\ \A z \in 1..m : br[z] = b[m - z + 1]
    BY <1>21, <1>22
  <2>9. y \in Common(wr, br, w, f)
    <3>1. ASSUME NEW z \in 1..w PROVE wr[z] = d[w - z + 1]
      <4>1. PICK i \in 1..w : i = w - z + 1
        OBVIOUS
      <4>2. wr[z] = right[i]
        BY <2>8, <4>1
      <4>3. right[i] = a[mid + i] /\ d[i] = a[mid + i]
        BY <1>12, <2>4
      <4> QED  BY <4>1, <4>2, <4>3
    <3>2. ASSUME NEW z \in 1..f PROVE br[z] = r[f - z + 1]
      <4>1. PICK i \in 1..f : i = f - z + 1
        BY <2>3
      <4>2. z \in 1..m /\ m - z + 1 = c + i
        BY <2>3, <4>1
      <4>3. br[z] = b[c + i]
        BY <2>8, <4>2
      <4>4. r[i] = b[c + i]
        BY <2>5
      <4> QED  BY <4>1, <4>3, <4>4
    <3>3. Backwards(wr, d, w) /\ Backwards(br, r, f)
      BY <3>1, <3>2 DEF Backwards
    <3> QED  BY <2>6, <3>3, CommonBackwards
  <2>10. PICK v \in Common(left, b, mid, cut), z \in Common(wr, br, w, e) : x + y <= v + z
    <3>1. BestOf(LcsRow(left, b), LcsRow(wr, br), m, m, cut)
      BY <1>3, <1>13, <1>21, <1>22, SplitRows
    <3>2. Compared(left, b, mid, wr, br, w, m)
      BY <1>3, <1>11, <1>21, <1>22, LenProperties DEF Chars, Compared
    <3> QED  BY <1>4, <1>10, <2>3, <2>7, <2>9, <3>1, <3>2, CutIsBest
  <2>11. v <= g
    <3>1. \A i \in 1..mid : left[i] = left[i]
      OBVIOUS
    <3>2. v \in Common(left, lower, mid, cut)
      BY <1>12, <2>10, <3>1, CommonSame
    <3> QED  BY <1>16, <3>2 DEF MostCommon
  <2>12. z <= h
    <3>1. ASSUME NEW i \in 1..w PROVE right[i] = wr[w - i + 1]
      <4>1. PICK l \in 1..w : l = w - i + 1 /\ i = w - l + 1
        OBVIOUS
      <4> QED  BY <2>8, <4>1
    <3>2. ASSUME NEW i \in 1..e PROVE upper[i] = br[e - i + 1]
      <4>1. PICK l \in 1..m : l = e - i + 1 /\ m - l + 1 = cut + i
        BY <1>4, <1>10
      <4>2. upper[i] = b[cut + i]
        BY <1>12
      <4> QED  BY <2>8, <4>1, <4>2
    <3>3. Backwards(right, wr, w) /\ Backwards(upper, br, e)
      BY <3>1, <3>2 DEF Backwards
    <3>4. z \in Common(right, upper, w, e)
      BY <2>10, <3>3, CommonBackwards
    <3> QED  BY <1>17, <3>4 DEF MostCommon
  <2> QED  BY <2>6, <2>10, <2>11, <2>12
<1>24. MostCommon(a, b, n, m, g + h)
  BY <1>20, <1>23 DEF MostCommon
<1> QED  BY <1>2, <1>3, <1>18, <1>19, <1>24 DEF FoundMost

(* At most one of one character                                              *)
LEMMA CommonFew ==
    ASSUME NEW a, NEW b, NEW i \in Nat, NEW j \in Nat, NEW k \in Common(a, b, i, j)
    PROVE  k <= i /\ (i = 1 /\ k # 0 => \E z \in 1..j : b[z] = a[1])
<1>1. PICK p, q : CommonAt(p, q, a, b, i, j, k)
  BY DEF Common
<1>2. k \in Nat /\ Rising(p, k, i) /\ Rising(q, k, j) /\ \A x \in 1..k : a[p[x]] = b[q[x]]
  BY <1>1 DEF CommonAt, Common
<1> DEFINE G == {l \in Nat : l <= k => \A x \in 1..l : x <= p[x]}
<1>3. 0 \in G
  OBVIOUS
<1>4. ASSUME NEW l \in Nat, l \in G PROVE l + 1 \in G
  <2> SUFFICES ASSUME l + 1 <= k PROVE \A x \in 1..(l + 1) : x <= p[x]
    OBVIOUS
  <2>1. \A x \in 1..l : x <= p[x]
    BY <1>2, <1>4
  <2>2. \A x \in 1..(l + 1) : p[x] \in 1..i
    BY <1>2 DEF Rising
  <2>3. l + 1 <= p[l + 1]
    <3>1. CASE l = 0
      BY <2>2, <3>1
    <3>2. CASE l # 0
      <4>1. l <= p[l] /\ p[l] \in 1..i /\ p[l + 1] \in 1..i
        BY <2>1, <2>2, <3>2
      <4>2. p[l] < p[l + 1]
        BY <1>2, <3>2 DEF Rising
      <4> QED  BY <4>1, <4>2
    <3> QED  BY <3>1, <3>2
  <2>4. \A x \in 1..(l + 1) : x \in 1..l \/ x = l + 1
    OBVIOUS
  <2> QED  BY <2>1, <2>3, <2>4
<1>5. k \in G
  <2> HIDE DEF G
  <2> QED  BY <1>2, <1>3, <1>4, NatSet
<1>6. k <= i
  <2>1. CASE k = 0
    BY <2>1
  <2>2. CASE k # 0
    <3>1. k \in 1..k /\ k <= p[k]
      BY <1>2, <1>5, <2>2
    <3>2. p[k] \in 1..i
      BY <1>2, <3>1 DEF Rising
    <3> QED  BY <1>2, <3>1, <3>2
  <2> QED  BY <2>1, <2>2
<1>7. ASSUME i = 1, k # 0 PROVE \E z \in 1..j : b[z] = a[1]
  <2>1. 1 \in 1..k
    BY <1>2, <1>7
  <2>2. p[1] \in 1..1 /\ q[1] \in 1..j /\ a[p[1]] = b[q[1]]
    BY <1>2, <1>7, <2>1 DEF Rising
  <2>3. p[1] = 1
    BY <2>2
  <2> QED  BY <2>2, <2>3
<1> QED  BY <1>6, <1>7

(* Hirschberg's division finds as many matches as there can be. *)
LEMMA MatchesAreMost ==
    ASSUME NEW t \in Pair PROVE FoundMost(t)
<1> DEFINE G == {u \in Pair : FoundMost(u)}
<1>1. ASSUME NEW u \in Pair, Divided(u) => LeftHalf(u) \in G /\ RightHalf(u) \in G PROVE u \in G
  <2>1. CASE Divided(u)
    <3>1. FoundMost(LeftHalf(u)) /\ FoundMost(RightHalf(u))
      BY <1>1, <2>1
    <3> QED  BY <2>1, <3>1, DividedMost
  <2>2. CASE ~Divided(u)
    <3>1. PICK a \in Chars : a = u[1]
      BY DEF Pair
    <3>2. PICK b \in Chars : b = u[2]
      BY DEF Pair
    <3>3. PICK n \in Nat : n = Len(a) /\ DOMAIN a = 1..n
      BY LenProperties DEF Chars
    <3>4. PICK m \in Nat : m = Len(b) /\ DOMAIN b = 1..m
      BY LenProperties DEF Chars
    <3>5. PICK s \in Found : s = Matches[u] /\ Pairing(s, a, b)
      BY <3>1, <3>2, MatchesPaired
    <3>6. PICK k \in Nat : k = Len(s) /\ DOMAIN s = 1..k
      BY LenProperties DEF Found
    <3>7. k \in Common(a, b, n, m)
      BY <3>3, <3>4, <3>5, <3>6, PairsAreCommon
    <3>8. s = OneMatch(u)
      BY <2>2, <3>5, MatchesAre DEF MatchesComputed
    <3>9. s = <<>> <=> a = <<>> \/ b = <<>> \/ HitsOf(u) = {}
      BY <3>1, <3>2, <3>8, OneMatchIs
    <3>10. (a = <<>> <=> n = 0) /\ (b = <<>> <=> m = 0) /\ (s = <<>> <=> k = 0)
      BY <3>3, <3>4, <3>6, EmptySeq DEF Chars, Found
    <3>11. ASSUME NEW l \in Common(a, b, n, m) PROVE l <= k
      <4>1. l \in Nat
        BY DEF Common
      <4>2. CASE n = 0 \/ m = 0
        <5>1. l = 0
          BY <4>2, CommonNone
        <5> QED  BY <3>6, <5>1
      <4>3. CASE n # 0 /\ m # 0
        <5>1. n = 1
          <6>1. ~(n > 1)
            BY <2>2, <3>1, <3>2, <3>3, <3>10, <4>3 DEF Divided
          <6> QED  BY <4>3, <6>1
        <5>2. l <= 1
          BY <5>1, CommonFew
        <5>3. CASE k = 0
          <6>1. HitsOf(u) = {}
            BY <3>9, <3>10, <4>3, <5>3
          <6>2. ~ \E z \in 1..m : b[z] = a[1]
            BY <3>1, <3>2, <3>4, <6>1 DEF HitsOf
          <6>3. l = 0
            BY <5>1, <6>2, CommonFew
          <6> QED  BY <5>3, <6>3
        <5> QED  BY <3>6, <4>1, <5>2, <5>3
      <4> QED  BY <4>2, <4>3
    <3>12. MostCommon(a, b, n, m, k)
      BY <3>7, <3>11 DEF MostCommon
    <3>13. FoundMost(u)
      BY <3>1, <3>2, <3>3, <3>4, <3>5, <3>6, <3>12 DEF FoundMost
    <3> QED  BY <3>13
  <2> QED  BY <2>1, <2>2
<1>2. \A u \in Pair : u \in G
  <2> HIDE DEF G
  <2> QED  BY <1>1, ByHalves
<1> QED  BY <1>2

-----------------------------------------------------------------------------
(***************************************************************************)
(* The longest common subsequence                                            *)
(***************************************************************************)
(* k numbers, from the least to the greatest *)
Increasing(f, k) ==
    /\ \A i \in 1..k : f[i] \in Int
    /\ \A i, j \in 1..k : i < j => f[i] < f[j]
Enumerates(f, k, S) == (\A i \in 1..k : f[i] \in S) /\ \A x \in S : \E i \in 1..k : f[i] = x
Covers(f, k, g, l) == \A j \in 1..l : \E i \in 1..k : f[i] = g[j]

(* Two increasing lists of the same numbers agree as far as both go. *)
LEMMA TwoOrders ==
    ASSUME NEW k \in Nat, NEW f, Increasing(f, k), NEW l \in Nat, NEW g, Increasing(g, l),
           Covers(f, k, g, l), Covers(g, l, f, k)
    PROVE  \A i \in 1..k : i <= l => f[i] = g[i]
<1> DEFINE G == {z \in Nat : \A i \in 1..z : i <= k /\ i <= l => f[i] = g[i]}
<1>1. 0 \in G
  OBVIOUS
<1>2. ASSUME NEW z \in Nat, z \in G PROVE z + 1 \in G
  <2>1. PICK y \in Nat : y = z + 1
    OBVIOUS
  <2>2. ASSUME y <= k, y <= l PROVE f[y] = g[y]
    <3>1. y \in 1..k /\ y \in 1..l
      BY <2>1, <2>2
    <3>2. \A i \in 1..k : i < y => f[i] = g[i] /\ i \in 1..l
      BY <1>2, <2>1, <3>1
    <3>3. \A i \in 1..l : i < y => f[i] = g[i] /\ i \in 1..k
      BY <1>2, <2>1, <3>1
    <3>4. PICK j \in 1..l : g[j] = f[y]
      BY <3>1 DEF Covers
    <3>5. PICK i \in 1..k : f[i] = g[y]
      BY <3>1 DEF Covers
    <3>6. \A x \in 1..k : f[x] \in Int
      BY DEF Increasing
    <3>7. \A x \in 1..l : g[x] \in Int
      BY DEF Increasing
    <3>8. ~(j < y)
      <4> SUFFICES ASSUME j < y PROVE FALSE
        OBVIOUS
      <4>1. f[j] = f[y] /\ j \in 1..k
        BY <3>3, <3>4
      <4>2. f[j] < f[y]
        BY <3>1, <4>1 DEF Increasing
      <4> QED  BY <3>1, <3>6, <4>1, <4>2
    <3>9. ~(i < y)
      <4> SUFFICES ASSUME i < y PROVE FALSE
        OBVIOUS
      <4>1. g[i] = g[y] /\ i \in 1..l
        BY <3>2, <3>5
      <4>2. g[i] < g[y]
        BY <3>1, <4>1 DEF Increasing
      <4> QED  BY <3>1, <3>7, <4>1, <4>2
    <3>10. g[y] <= g[j]
      <4>1. y = j \/ y < j
        BY <3>8
      <4>2. y < j => g[y] < g[j]
        BY <3>1 DEF Increasing
      <4> QED  BY <3>1, <3>7, <4>1, <4>2
    <3>11. f[y] <= f[i]
      <4>1. y = i \/ y < i
        BY <3>9
      <4>2. y < i => f[y] < f[i]
        BY <3>1 DEF Increasing
      <4> QED  BY <3>1, <3>6, <4>1, <4>2
    <3> QED  BY <3>1, <3>4, <3>5, <3>6, <3>7, <3>10, <3>11
  <2>3. \A i \in 1..y : i = y \/ i \in 1..z
    BY <2>1
  <2> QED  BY <1>2, <2>1, <2>2, <2>3
<1>3. k \in G
  <2> HIDE DEF G
  <2> QED  BY <1>1, <1>2, NatSet
<1> QED  BY <1>3

(* Then the first is not shorter. *)
LEMMA NoShorterOrder ==
    ASSUME NEW k \in Nat, NEW f, Increasing(f, k), NEW l \in Nat, NEW g, Increasing(g, l),
           Covers(f, k, g, l), Covers(g, l, f, k)
    PROVE  l <= k
<1> SUFFICES ASSUME k < l PROVE FALSE
  OBVIOUS
<1>1. k + 1 \in 1..l
  OBVIOUS
<1>2. PICK i \in 1..k : f[i] = g[k + 1]
  BY <1>1 DEF Covers
<1>3. i <= l /\ i \in 1..l /\ i < k + 1
  OBVIOUS
<1>4. f[i] = g[i]
  BY <1>3, TwoOrders
<1>5. g[i] < g[k + 1]
  BY <1>1, <1>3 DEF Increasing
<1>6. g[i] \in Int
  BY <1>3 DEF Increasing
<1> QED  BY <1>2, <1>4, <1>5, <1>6

(* What a set of k numbers is in its order *)
ListedAs(S, f, k) == DOMAIN InOrder(S) = 1..k /\ \A i \in 1..k : InOrder(S)[i] = f[i]

(* A set of numbers is listed in one increasing order.                       *)
LEMMA OrderIs ==
    ASSUME NEW k \in Nat, NEW f, Increasing(f, k),
           NEW S, IsFiniteSet(S), Enumerates(f, k, S)
    PROVE  ListedAs(S, f, k)
<1>1. S \in SUBSET Int
  BY DEF Increasing, Enumerates
<1>2. PICK g : g = InOrder(S)
  OBVIOUS
<1>3. /\ g \in Seq(S) /\ DOMAIN g = 1..Len(g) /\ \A x \in S : \E i \in DOMAIN g : g[i] = x
      /\ \A i, j \in DOMAIN g : i < j <=> g[i] < g[j]
  BY <1>1, <1>2, NumbersInOrder
<1>4. PICK l \in Nat : l = Len(g) /\ DOMAIN g = 1..l /\ \A i \in 1..l : g[i] \in S
  BY <1>3, LenProperties
<1>5. Increasing(g, l)
  <2>1. \A i \in 1..l : g[i] \in Int
    BY <1>1, <1>4
  <2> QED  BY <1>3, <1>4, <2>1 DEF Increasing
<1>6. Covers(f, k, g, l) /\ Covers(g, l, f, k)
  BY <1>3, <1>4 DEF Covers, Enumerates
<1>7. l <= k /\ k <= l
  BY <1>5, <1>6, NoShorterOrder
<1>8. k = l
  BY <1>7
<1>9. \A i \in 1..k : f[i] = g[i]
  BY <1>5, <1>6, <1>8, TwoOrders
<1> QED  BY <1>2, <1>4, <1>8, <1>9 DEF ListedAs

(* It has as many numbers as the set.                                          *)
LEMMA OrderSize ==
    ASSUME NEW k \in Nat, NEW f, Increasing(f, k),
           NEW S, IsFiniteSet(S), Enumerates(f, k, S)
    PROVE  Cardinality(S) = k
<1>1. S \in SUBSET Int
  BY DEF Increasing, Enumerates
<1>2. ListedAs(S, f, k)
  BY OrderIs
<1>3. Cardinality({i \in DOMAIN InOrder(S) : InOrder(S)[i] \in S}) = Cardinality(S)
  BY <1>1, CountAt
<1>4. {i \in DOMAIN InOrder(S) : InOrder(S)[i] \in S} = 1..k
  BY <1>2 DEF ListedAs, Enumerates
<1>5. Cardinality(1..k) = k
  <2>1. 1 \in Int /\ k \in Int
    OBVIOUS
  <2>2. Cardinality(1..k) = IF 1 > k THEN 0 ELSE k - 1 + 1
    BY <2>1, FS_Interval
  <2> QED  BY <2>2
<1> QED  BY <1>3, <1>4, <1>5

(* A set of k places up to i, and their order *)
PlacesListed(S, p, k, i) == S \in SUBSET (1..i) /\ Cardinality(S) = k /\ ListedAs(S, p, k)

(* Rising places are such a list.                                            *)
LEMMA PlacesOf ==
    ASSUME NEW k \in Nat, NEW i \in Nat, NEW p, Rising(p, k, i), NEW S, Enumerates(p, k, S)
    PROVE  PlacesListed(S, p, k, i)
<1>1. \A x \in 1..k : p[x] \in 1..i /\ p[x] \in S
  BY DEF Rising, Enumerates
<1>2. Increasing(p, k)
  BY <1>1 DEF Rising, Increasing
<1>3. S \in SUBSET (1..i)
  BY <1>1 DEF Enumerates
<1>4. IsFiniteSet(1..i)
  BY FS_Interval
<1>5. IsFiniteSet(S)
  BY <1>3, <1>4, FS_Subset, Zenon
<1>6. Enumerates(p, k, S)
  BY <1>1 DEF Enumerates
<1>7. Cardinality(S) = k
  BY <1>2, <1>5, <1>6, OrderSize
<1>8. ListedAs(S, p, k)
  BY <1>2, <1>5, <1>6, OrderIs
<1> QED  BY <1>3, <1>7, <1>8 DEF PlacesListed

(* A set of places in its order is rising.                                    *)
LEMMA PlacesRise ==
    ASSUME NEW i \in Nat, NEW S \in SUBSET (1..i)
    PROVE  \E k \in Nat : k = Cardinality(S) /\ \E p : Rising(p, k, i) /\ ListedAs(S, p, k)
<1>1. IsFiniteSet(1..i)
  BY FS_Interval
<1>2. IsFiniteSet(S)
  BY <1>1, FS_Subset, Zenon
<1>3. S \in SUBSET Int
  OBVIOUS
<1>4. PICK p : p = InOrder(S)
  OBVIOUS
<1>5. /\ p \in Seq(S) /\ DOMAIN p = 1..Len(p) /\ \A x \in S : \E j \in DOMAIN p : p[j] = x
      /\ \A x, y \in DOMAIN p : x < y <=> p[x] < p[y]
  BY <1>2, <1>3, <1>4, NumbersInOrder
<1>6. PICK k \in Nat : k = Len(p) /\ DOMAIN p = 1..k /\ \A x \in 1..k : p[x] \in S
  BY <1>5, LenProperties
<1>7. Increasing(p, k)
  <2>1. \A x \in 1..k : p[x] \in Int
    BY <1>3, <1>6
  <2> QED  BY <1>5, <1>6, <2>1 DEF Increasing
<1>8. Cardinality(S) = k
  <2>1. Enumerates(p, k, S)
    BY <1>5, <1>6 DEF Enumerates
  <2> QED  BY <1>2, <1>7, <2>1, OrderSize
<1>9. Rising(p, k, i)
  <2>1. p \in [1..k -> 1..i]
    <3>1. p = [x \in 1..k |-> p[x]]
      BY <1>5, <1>6
    <3> QED  BY <1>6, <3>1
  <2> QED  BY <1>5, <1>6, <2>1 DEF Rising
<1> QED  BY <1>4, <1>6, <1>8, <1>9 DEF ListedAs

(* Places in a of characters that are a subsequence of b *)
SharedPlaces(a, b) == {S \in SUBSET DOMAIN a : IsSubsequence(AtPlaces(a, S), b)}

(* There are as many of them as characters in common. *)
LEMMA SharedAreCommon ==
    ASSUME NEW a, NEW b, NEW n \in Nat, NEW m \in Nat, DOMAIN a = 1..n, DOMAIN b = 1..m
    PROVE  /\ \A S \in SharedPlaces(a, b) : Cardinality(S) \in Common(a, b, n, m)
           /\ \A k \in Common(a, b, n, m) : \E S \in SharedPlaces(a, b) : Cardinality(S) = k
<1>1. \A s, S : AtPlaces(s, S) = [i \in DOMAIN InOrder(S) |-> s[InOrder(S)[i]]]
  BY DEF AtPlaces
<1>2. ASSUME NEW S \in SharedPlaces(a, b) PROVE Cardinality(S) \in Common(a, b, n, m)
  <2>1. S \in SUBSET (1..n) /\ IsSubsequence(AtPlaces(a, S), b)
    BY DEF SharedPlaces
  <2>2. PICK T \in SUBSET (1..m) : AtPlaces(b, T) = AtPlaces(a, S)
    BY <2>1 DEF IsSubsequence
  <2>3. PICK k \in Nat : k = Cardinality(S) /\ \E p : Rising(p, k, n) /\ ListedAs(S, p, k)
    BY <2>1, PlacesRise
  <2>4. PICK l \in Nat : l = Cardinality(T) /\ \E q : Rising(q, l, m) /\ ListedAs(T, q, l)
    BY <2>2, PlacesRise
  <2>5. PICK p : Rising(p, k, n) /\ ListedAs(S, p, k)
    BY <2>3
  <2>6. PICK q : Rising(q, l, m) /\ ListedAs(T, q, l)
    BY <2>4
  <2>7. [i \in 1..k |-> a[p[i]]] = [i \in 1..l |-> b[q[i]]]
    <3>1. AtPlaces(a, S) = [i \in 1..k |-> a[p[i]]]
      BY <1>1, <2>5 DEF ListedAs
    <3>2. AtPlaces(b, T) = [i \in 1..l |-> b[q[i]]]
      BY <1>1, <2>6 DEF ListedAs
    <3> QED  BY <2>2, <3>1, <3>2
  <2>8. 1..k = 1..l
    BY <2>7
  <2>9. k = l
    <3>1. k \in 1..k \/ k = 0
      OBVIOUS
    <3>2. l \in 1..l \/ l = 0
      OBVIOUS
    <3> QED  BY <2>8, <3>1, <3>2
  <2>10. \A x \in 1..k : a[p[x]] = b[q[x]]
    BY <2>7, <2>9
  <2>11. CommonAt(p, q, a, b, n, m, k)
    BY <2>5, <2>6, <2>9, <2>10 DEF CommonAt
  <2> QED  BY <2>3, <2>11 DEF Common
<1>3. ASSUME NEW k \in Common(a, b, n, m) PROVE \E S \in SharedPlaces(a, b) : Cardinality(S) = k
  <2>1. PICK p, q : CommonAt(p, q, a, b, n, m, k)
    BY DEF Common
  <2>2. k \in Nat /\ Rising(p, k, n) /\ Rising(q, k, m) /\ \A x \in 1..k : a[p[x]] = b[q[x]]
    BY <2>1 DEF CommonAt, Common
  <2>3. PICK S : S = {p[x] : x \in 1..k}
    OBVIOUS
  <2>4. PICK T : T = {q[x] : x \in 1..k}
    OBVIOUS
  <2>5. S \in SUBSET (1..n) /\ Cardinality(S) = k /\ ListedAs(S, p, k)
    <3>1. Enumerates(p, k, S)
      BY <2>3 DEF Enumerates
    <3>2. PlacesListed(S, p, k, n)
      BY <2>2, <3>1, PlacesOf
    <3> QED  BY <3>2 DEF PlacesListed
  <2>6. T \in SUBSET (1..m) /\ ListedAs(T, q, k)
    <3>1. Enumerates(q, k, T)
      BY <2>4 DEF Enumerates
    <3>2. PlacesListed(T, q, k, m)
      BY <2>2, <3>1, PlacesOf
    <3> QED  BY <3>2 DEF PlacesListed
  <2>7. AtPlaces(a, S) = [i \in 1..k |-> a[p[i]]]
    BY <1>1, <2>5 DEF ListedAs
  <2>8. AtPlaces(b, T) = [i \in 1..k |-> b[q[i]]]
    BY <1>1, <2>6 DEF ListedAs
  <2>9. S \in SharedPlaces(a, b)
    BY <2>2, <2>5, <2>6, <2>7, <2>8 DEF SharedPlaces, IsSubsequence
  <2> QED  BY <2>5, <2>9
<1> QED  BY <1>2, <1>3

(* The longest common subsequence is as long as the most characters in common. *)
LEMMA LongestIs ==
    ASSUME NEW a, NEW b, NEW n \in Nat, n = Len(a), DOMAIN a = 1..n, NEW m \in Nat, DOMAIN b = 1..m,
           NEW k \in Nat, MostCommon(a, b, n, m, k)
    PROVE  LongestCommon(a, b) = k
<1>1. PICK C : C = SharedPlaces(a, b)
  OBVIOUS
<1>2. LongestCommon(a, b) = CHOOSE l \in 0..n : (\E S \in C : Cardinality(S) = l) /\ \A S \in C : Cardinality(S) <= l
  BY <1>1 DEF LongestCommon, SharedPlaces
<1>3. k \in Common(a, b, n, m) /\ \A l \in Common(a, b, n, m) : l <= k
  BY DEF MostCommon
<1>4. k \in 0..n
  <2>1. k <= n
    BY <1>3, CommonFew
  <2> QED  BY <2>1
<1>5. \E S \in C : Cardinality(S) = k
  BY <1>1, <1>3, SharedAreCommon
<1>6. \A S \in C : Cardinality(S) <= k /\ Cardinality(S) \in Nat
  <2>1. \A S \in C : Cardinality(S) \in Common(a, b, n, m)
    BY <1>1, SharedAreCommon
  <2>2. \A l \in Common(a, b, n, m) : l \in Nat
    BY DEF Common
  <2> QED  BY <1>3, <2>1, <2>2
<1>7. ASSUME NEW l \in 0..n, \E S \in C : Cardinality(S) = l, \A S \in C : Cardinality(S) <= l
      PROVE  l = k
  <2>1. l <= k
    BY <1>6, <1>7
  <2>2. k <= l
    BY <1>5, <1>7
  <2> QED  BY <2>1, <2>2
<1> QED  BY <1>2, <1>4, <1>5, <1>6, <1>7

-----------------------------------------------------------------------------
(***************************************************************************)
(* Characters between two starts                                             *)
(***************************************************************************)
(* The bytes from p up to q of a text, d of them *)
CutOut(part, text, p, d) ==
    part \in Seq(Byte) /\ Len(part) = d /\ \A i \in 1..d : part[i] = text[p + i]

(* A slice is that.                                                         *)
LEMMA SliceIs ==
    ASSUME NEW text \in Seq(Byte), NEW p \in Nat, NEW q \in 0..Len(text), NEW d \in Nat, q = p + d
    PROVE  CutOut(Slice(text, p, q), text, p, d)
<1>1. CASE d = 0
  <2>1. p + 1 > q /\ p = q
    BY <1>1
  <2>2. PICK r \in Nat : r = q
    BY <2>1
  <2>3. SubSeq(text, p + 1, r) = <<>>
    <3>1. p + 1 > r
      BY <2>1, <2>2
    <3> QED  BY <3>1, <2>2
  <2>4. Slice(text, p, q) = <<>>
    BY <2>2, <2>3 DEF Slice
  <2>5. <<>> \in Seq(Byte) /\ Len(<<>>) = 0
    OBVIOUS
  <2> QED  BY <1>1, <2>4, <2>5 DEF CutOut
<1>2. CASE d # 0
  <2>1. p < q /\ q - p = d
    BY <1>2
  <2> QED  BY <2>1, SliceType DEF CutOut
<1> QED  BY <1>1, <1>2

(* Where the bytes of a text are cut between characters *)
CutsOf(text, l) == {i \in 0..l : CharBoundary(text, i)}

(* They are cut there in each part of it that itself starts and ends between characters.    *)
LEMMA CutsOfPart ==
    ASSUME NEW text \in Seq(Byte), NEW l \in Nat, l = Len(text), NEW p \in Nat, NEW d \in Nat,
           p \in CutsOf(text, l), NEW q, q = p + d, q \in CutsOf(text, l),
           NEW part, CutOut(part, text, p, d)
    PROVE  \A i \in 0..d : i \in CutsOf(part, d) <=> p + i \in CutsOf(text, l)
<1>1. q <= l
  BY DEF CutsOf
<1>2. SUFFICES ASSUME NEW i \in 0..d PROVE CharBoundary(part, i) <=> CharBoundary(text, p + i)
  <2>1. \A i \in 0..d : p + i \in 0..l
    BY <1>1
  <2> QED  BY <1>2, <2>1 DEF CutsOf
<1>3. CASE i = 0
  <2>1. p + i = p
    BY <1>3
  <2> QED  BY <1>3, <2>1 DEF CutsOf, CharBoundary
<1>4. CASE i = d
  <2>1. p + i = q
    BY <1>4
  <2> QED  BY <1>4, <2>1 DEF CutsOf, CharBoundary, CutOut
<1>5. CASE i # 0 /\ i # d
  <2>1. i + 1 \in 1..d /\ p + i # 0 /\ p + i # l /\ p + (i + 1) = (p + i) + 1
    BY <1>1, <1>5
  <2>2. part[i + 1] = text[(p + i) + 1]
    BY <2>1 DEF CutOut
  <2>3. CharBoundary(part, i) <=> part[i + 1] \notin Continuation
    BY <1>5 DEF CharBoundary, CutOut
  <2>4. CharBoundary(text, p + i) <=> text[(p + i) + 1] \notin Continuation
    BY <2>1 DEF CharBoundary
  <2> QED  BY <2>2, <2>3, <2>4
<1> QED  BY <1>3, <1>4, <1>5

(* Where the bytes of a text are cut, c places, is where its characters start and end. *)
LEMMA StartsEnumerate ==
    ASSUME NEW text \in Seq(Byte), NEW l \in Nat, l = Len(text), NEW at, at = ByteStarts(text)
    PROVE  \E c \in Nat : /\ c = Len(at) /\ DOMAIN at = 1..c
                          /\ Increasing(at, c) /\ Enumerates(at, c, CutsOf(text, l))
<1>1. PICK B : B = CutsOf(text, l)
  OBVIOUS
<1>2. at = InOrder(B)
  BY <1>1 DEF ByteStarts, CutsOf
<1>3. B \in SUBSET (0..l) /\ B \in SUBSET Int
  BY <1>1 DEF CutsOf
<1>4. IsFiniteSet(B)
  <2>1. IsFiniteSet(0..l)
    BY FS_Interval
  <2> QED  BY <1>3, <2>1, FS_Subset, Zenon
<1>5. /\ at \in Seq(B) /\ DOMAIN at = 1..Len(at)
      /\ \A x \in B : \E i \in DOMAIN at : at[i] = x
      /\ \A i, j \in DOMAIN at : i < j <=> at[i] < at[j]
  BY <1>2, <1>3, <1>4, NumbersInOrder
<1>6. PICK c \in Nat : c = Len(at) /\ DOMAIN at = 1..c
  BY <1>5, LenProperties
<1>7. \A i \in 1..c : at[i] \in B
  BY <1>5, <1>6
<1>8. Increasing(at, c)
  BY <1>3, <1>5, <1>6, <1>7 DEF Increasing
<1>9. Enumerates(at, c, B)
  BY <1>5, <1>6, <1>7 DEF Enumerates
<1> QED  BY <1>1, <1>6, <1>8, <1>9

(* From the start of one character to that of another are the characters in between.     *)
LEMMA CharsBetween ==
    ASSUME NEW text \in Seq(Byte), NEW n \in Nat, NEW at, at = ByteStarts(text), StartsOf(at, text, n),
           NEW x \in 1..(n + 1), NEW y \in 1..(n + 1), x <= y, NEW p, p = at[x], NEW q, q = at[y]
    PROVE  Len(Scalars(Slice(text, p, q))) = y - x
<1>1. PICK l \in Nat : l = Len(text)
  BY LenProperties
<1>2. PICK c \in Nat : DOMAIN at = 1..c /\ Increasing(at, c) /\ Enumerates(at, c, CutsOf(text, l))
  BY <1>1, StartsEnumerate
<1>3. c = n + 1
  <2>1. 1..c = 1..(n + 1)
    BY <1>2 DEF StartsOf
  <2>2. n + 1 \in 1..(n + 1)
    OBVIOUS
  <2>3. c \in 1..c
    BY <2>1, <2>2
  <2> QED  BY <2>1, <2>2, <2>3
<1>4. \A i \in 1..c : at[i] \in 0..l /\ at[i] \in CutsOf(text, l)
  BY <1>2 DEF Enumerates, CutsOf
<1>5. p \in Nat /\ q \in 0..l /\ p \in CutsOf(text, l) /\ q \in CutsOf(text, l)
  BY <1>3, <1>4
<1>6. p <= q
  <2>1. CASE x = y
    BY <1>5, <2>1
  <2>2. CASE x # y
    <3>1. x < y
      BY <2>2
    <3>2. p < q
      BY <1>2, <1>3, <3>1 DEF Increasing
    <3> QED  BY <1>5, <3>2
  <2> QED  BY <2>1, <2>2
<1>7. PICK d \in Nat : q = p + d
  <2>1. q - p \in Nat /\ q = p + (q - p)
    BY <1>5, <1>6
  <2> QED  BY <2>1
<1>8. PICK part : part = Slice(text, p, q)
  OBVIOUS
<1>9. CutOut(part, text, p, d)
  BY <1>1, <1>5, <1>7, <1>8, SliceIs
<1>10. \A i \in 0..d : i \in CutsOf(part, d) <=> p + i \in CutsOf(text, l)
  BY <1>1, <1>5, <1>7, <1>9, CutsOfPart
<1>11. PICK k \in Nat : k = (y - x) + 1
  OBVIOUS
<1>12. PICK f : f = [j \in 1..k |-> at[(x - 1) + j] - p]
  OBVIOUS
<1>13. \A j \in 1..k : (x - 1) + j \in 1..c /\ x <= (x - 1) + j /\ (x - 1) + j <= y
  BY <1>3, <1>11
<1>14. ASSUME NEW i \in 1..c, NEW j \in 1..c, i <= j PROVE at[i] <= at[j]
  <2>1. CASE i = j
    BY <1>4, <2>1
  <2>2. CASE i # j
    <3>1. at[i] < at[j]
      BY <1>2, <1>14, <2>2 DEF Increasing
    <3> QED  BY <1>4, <3>1
  <2> QED  BY <2>1, <2>2
<1>15. ASSUME NEW j \in 1..k
       PROVE  f[j] \in Int /\ f[j] \in 0..d /\ at[(x - 1) + j] = p + f[j]
  <2>1. PICK i \in 1..c : i = (x - 1) + j /\ x <= i /\ i <= y
    BY <1>13
  <2>2. at[x] <= at[i] /\ at[i] <= at[y]
    BY <1>3, <1>14, <2>1
  <2>3. PICK z \in 0..l : z = at[i]
    BY <1>4, <2>1
  <2>4. f[j] = z - p
    BY <1>12, <2>1, <2>3
  <2>5. p <= z /\ z <= p + d
    BY <1>7, <2>2, <2>3
  <2>6. z - p \in 0..d /\ z = p + (z - p)
    <3>1. z \in Nat /\ p \in Nat /\ d \in Nat
      BY <1>5, <1>7, <2>3
    <3> QED  BY <2>5, <3>1
  <2> QED  BY <2>1, <2>3, <2>4, <2>6
<1>16. Increasing(f, k)
  <2>1. ASSUME NEW i \in 1..k, NEW j \in 1..k, i < j PROVE f[i] < f[j]
    <3>1. PICK g \in 1..c : g = (x - 1) + i
      BY <1>13
    <3>2. PICK h \in 1..c : h = (x - 1) + j
      BY <1>13
    <3>3. g < h
      BY <2>1, <3>1, <3>2
    <3>4. at[g] < at[h]
      BY <1>2, <3>3 DEF Increasing
    <3>5. p + f[i] < p + f[j]
      BY <1>15, <3>1, <3>2, <3>4
    <3>6. PICK u \in Int : u = f[i]
      BY <1>15
    <3>7. PICK v \in Int : v = f[j]
      BY <1>15
    <3>8. p + u < p + v
      BY <3>5, <3>6, <3>7
    <3>9. u < v
      BY <1>5, <3>8
    <3> QED  BY <3>6, <3>7, <3>9
  <2> QED  BY <1>15, <2>1 DEF Increasing
<1>17. Enumerates(f, k, CutsOf(part, d))
  <2>1. ASSUME NEW j \in 1..k PROVE f[j] \in CutsOf(part, d)
    <3>1. PICK i \in 1..c : i = (x - 1) + j
      BY <1>13
    <3>2. p + f[j] \in CutsOf(text, l)
      BY <1>4, <1>15, <3>1
    <3> QED  BY <1>10, <1>15, <3>2
  <2>2. ASSUME NEW e \in CutsOf(part, d) PROVE \E j \in 1..k : f[j] = e
    <3>1. e \in 0..d /\ p + e \in CutsOf(text, l)
      BY <1>10 DEF CutsOf
    <3>2. PICK i \in 1..c : at[i] = p + e
      BY <1>2, <3>1 DEF Enumerates
    <3>3. x <= i
      <4> SUFFICES ASSUME i < x PROVE FALSE
        OBVIOUS
      <4>1. at[i] < at[x]
        BY <1>2, <1>3 DEF Increasing
      <4> QED  BY <1>5, <3>1, <3>2, <4>1
    <3>4. i <= y
      <4> SUFFICES ASSUME y < i PROVE FALSE
        OBVIOUS
      <4>1. at[y] < at[i]
        BY <1>2, <1>3 DEF Increasing
      <4> QED  BY <1>5, <1>7, <3>1, <3>2, <4>1
    <3>5. PICK j \in 1..k : (x - 1) + j = i
      <4>1. (i - x) + 1 \in 1..k /\ (x - 1) + ((i - x) + 1) = i
        BY <1>3, <1>11, <3>3, <3>4
      <4> QED  BY <4>1
    <3>6. p + f[j] = p + e
      BY <1>15, <3>2, <3>5
    <3>7. f[j] \in 0..d
      BY <1>15
    <3>8. f[j] = e
      BY <1>5, <3>1, <3>6, <3>7
    <3> QED  BY <3>8
  <2> QED  BY <2>1, <2>2 DEF Enumerates
<1>18. PICK b : b = ByteStarts(part)
  OBVIOUS
<1>19. DOMAIN b = 1..k
  <2>1. b = InOrder(CutsOf(part, d))
    BY <1>9, <1>18 DEF ByteStarts, CutsOf, CutOut
  <2>2. IsFiniteSet(CutsOf(part, d))
    <3>1. IsFiniteSet(0..d)
      BY FS_Interval
    <3>2. CutsOf(part, d) \subseteq 0..d
      BY DEF CutsOf
    <3> QED  BY <3>1, <3>2, FS_Subset, Zenon
  <2>3. ListedAs(CutsOf(part, d), f, k)
    BY <1>16, <1>17, <2>2, OrderIs
  <2> QED  BY <2>1, <2>3 DEF ListedAs
<1>20. PICK m \in Nat : StartsOf(b, part, m)
  BY <1>9, <1>18, StartsAre DEF CutOut
<1>21. 1..k = 1..(m + 1)
  BY <1>19, <1>20 DEF StartsOf
<1>22. k = m + 1
  <2>1. k \in 1..k /\ m + 1 \in 1..(m + 1)
    BY <1>11
  <2> QED  BY <1>21, <2>1
<1>23. Len(Scalars(part)) = m
  BY <1>20 DEF StartsOf
<1> QED  BY <1>8, <1>11, <1>22, <1>23

-----------------------------------------------------------------------------
(***************************************************************************)
(* What the gaps take away                                                   *)
(***************************************************************************)
(* Steps from stop to stop, each one more than its size; those not in P have no size *)
StepsOf(stop, size, P, c) ==
    /\ c \in Nat /\ P \in SUBSET (1..c) /\ stop[1] = 0
    /\ \A i \in 1..(c + 1) : stop[i] \in Int
    /\ \A i \in 1..c : /\ size[i] \in Int /\ stop[i + 1] = stop[i] + size[i] + 1
                       /\ i \notin P => size[i] = 0

(* The r members of P in their order, and the sums of their sizes *)
InPlaces(which, P, r) ==
    /\ r \in Nat /\ \A k \in 1..r : which[k] \in P
    /\ \A k, l \in 1..r : k < l <=> which[k] < which[l]
    /\ \A x \in P : \E k \in 1..r : which[k] = x
SumsOf(sums, size, which, r) ==
    /\ sums[0] = 0 /\ \A k \in 0..r : sums[k] \in Int
    /\ \A k \in 1..r : sums[k] = sums[k - 1] + size[which[k]]

(* The sum up to a step is what the steps advanced, less their number. *)
SumReaches(sums, stop, which, r, g) ==
    \A k \in 0..r : (\A j \in 1..r : j <= k <=> which[j] <= g) => sums[k] = stop[g + 1] - g

(* It stays so when another step is taken.                                     *)
LEMMA SumAdvances ==
    ASSUME NEW c, NEW P, NEW stop, NEW size, StepsOf(stop, size, P, c),
           NEW r, NEW which, InPlaces(which, P, r), NEW sums, SumsOf(sums, size, which, r),
           NEW g \in Nat, NEW h \in Nat, h = g + 1, h <= c, SumReaches(sums, stop, which, r, g)
    PROVE  SumReaches(sums, stop, which, r, h)
<1>1. c \in Nat /\ r \in Nat /\ \A k \in 1..r : which[k] \in P /\ which[k] \in 1..c
  BY DEF StepsOf, InPlaces
<1>2. h \in 1..c /\ h \in 1..(c + 1) /\ h + 1 \in 1..(c + 1)
  BY <1>1
<1>3. stop[h] \in Int /\ stop[h + 1] \in Int /\ size[h] \in Int
      /\ stop[h + 1] = stop[h] + size[h] + 1 /\ (h \notin P => size[h] = 0)
  BY <1>2 DEF StepsOf
<1>4. SUFFICES ASSUME NEW k \in 0..r, \A j \in 1..r : j <= k <=> which[j] <= h
               PROVE  sums[k] = stop[h + 1] - h
  BY DEF SumReaches
<1>5. CASE h \in P
  <2>1. PICK x \in 1..r : which[x] = h
    BY <1>5 DEF InPlaces
  <2>2. x <= k
    BY <1>1, <1>4, <2>1
  <2>3. x = k
    <3> SUFFICES ASSUME x < k PROVE FALSE
      BY <1>1, <2>2
    <3>1. k \in 1..r
      BY <1>1
    <3>2. which[x] < which[k]
      BY <3>1 DEF InPlaces
    <3>3. which[k] <= h
      BY <1>4, <3>1
    <3> QED  BY <1>1, <2>1, <3>1, <3>2, <3>3
  <2>4. PICK y \in 0..r : y = k - 1
    BY <1>1, <2>3
  <2>5. ASSUME NEW j \in 1..r PROVE j <= y <=> which[j] <= g
    <3>1. j < x <=> which[j] < which[x]
      BY <2>1 DEF InPlaces
    <3>2. j <= y <=> j < x
      BY <1>1, <2>3, <2>4
    <3>3. PICK w \in 1..c : w = which[j]
      BY <1>1
    <3>4. w <= g <=> w < h
      BY <1>1
    <3> QED  BY <2>1, <3>1, <3>2, <3>3, <3>4
  <2>6. sums[y] = stop[g + 1] - g
    BY <2>5 DEF SumReaches
  <2>7. sums[k] = sums[y] + size[h]
    <3>1. sums[k] = sums[k - 1] + size[which[k]]
      BY <2>1, <2>3 DEF SumsOf
    <3> QED  BY <2>1, <2>3, <2>4, <3>1
  <2> QED  BY <1>3, <2>6, <2>7
<1>6. CASE h \notin P
  <2>1. ASSUME NEW j \in 1..r PROVE j <= k <=> which[j] <= g
    <3>1. PICK w \in 1..c : w = which[j] /\ w # h
      BY <1>1, <1>6
    <3>2. w <= g <=> w <= h
      BY <3>1
    <3> QED  BY <1>4, <3>1, <3>2
  <2>2. sums[k] = stop[g + 1] - g
    BY <2>1 DEF SumReaches
  <2> QED  BY <1>3, <1>6, <2>2
<1> QED  BY <1>5, <1>6

(* In the end it is what all steps advanced, less their number.                       *)
LEMMA SumOfAll ==
    ASSUME NEW c, NEW P, NEW stop, NEW size, StepsOf(stop, size, P, c),
           NEW r, NEW which, InPlaces(which, P, r), NEW sums, SumsOf(sums, size, which, r)
    PROVE  sums[r] = stop[c + 1] - c
<1> DEFINE G == {g \in Nat : g <= c => SumReaches(sums, stop, which, r, g)}
<1>1. c \in Nat /\ r \in Nat /\ \A k \in 1..r : which[k] \in 1..c
  BY DEF StepsOf, InPlaces
<1>2. 0 \in G
  <2> SUFFICES ASSUME NEW k \in 0..r, \A j \in 1..r : j <= k <=> which[j] <= 0
               PROVE  sums[k] = stop[0 + 1] - 0
    BY DEF SumReaches
  <2>1. k = 0
    <3> SUFFICES ASSUME k # 0 PROVE FALSE
      OBVIOUS
    <3>1. 1 \in 1..r /\ 1 <= k
      BY <1>1
    <3>2. which[1] <= 0
      BY <3>1
    <3> QED  BY <1>1, <3>1, <3>2
  <2>2. sums[0] = 0 /\ stop[1] = 0
    BY DEF SumsOf, StepsOf
  <2> QED  BY <2>1, <2>2
<1>3. ASSUME NEW g \in Nat, g \in G PROVE g + 1 \in G
  <2>1. PICK h \in Nat : h = g + 1
    OBVIOUS
  <2> SUFFICES ASSUME h <= c PROVE SumReaches(sums, stop, which, r, h)
    BY <2>1
  <2>2. SumReaches(sums, stop, which, r, g)
    BY <1>1, <1>3, <2>1
  <2> QED  BY <2>1, <2>2, SumAdvances
<1>4. SumReaches(sums, stop, which, r, c)
  <2>1. c \in G
    <3> HIDE DEF G
    <3> QED  BY <1>1, <1>2, <1>3, NatSet
  <2> QED  BY <1>1, <2>1
<1>5. \A j \in 1..r : j <= r <=> which[j] <= c
  BY <1>1
<1>6. r \in 0..r
  BY <1>1
<1> QED  BY <1>4, <1>5, <1>6 DEF SumReaches

(* How many characters of a text a record takes away, and how many all records do *)
Size(text, rec) == Len(Scalars(Slice(text, rec.edit.from, rec.edit.to)))
Removed(text, rs) ==
    FoldLeft(LAMBDA m, r : m + Len(Scalars(Slice(text, r.edit.from, r.edit.to))), 0, rs)

(* n records of known sizes, and the sums of the first sizes *)
Sized(rs, text, size, n) == \A k \in 1..n : size[k] \in Nat /\ Size(text, rs[k]) = size[k]
AddedUp(sums, size, n) ==
    sums[0] = 0 /\ \A k \in 0..n : sums[k] \in Int /\ (k # 0 => sums[k] = sums[k - 1] + size[k])

(* The characters that were taken away are added up record by record.                  *)
LEMMA RemovedIs ==
    ASSUME NEW n \in Nat, NEW rs, DOMAIN rs = 1..n, NEW text,
           NEW size, Sized(rs, text, size, n)
    PROVE  \E sums : AddedUp(sums, size, n) /\ Removed(text, rs) = sums[n]
<1> DEFINE D == DOMAIN rs
           Is(iter) == iter = [s \in SUBSET D |-> IF s = {} THEN 0
                                   ELSE LET i == Max(s) IN iter[s \ {i}] + Size(text, rs[i])]
           pick == [s \in SUBSET (1..n) |-> Max(s)]
           step == [i \in 1..n |-> [v \in Nat |-> v + size[i]]]
<1>0. \A k \in 1..n : size[k] \in Nat /\ Size(text, rs[k]) = size[k]
  BY DEF Sized
<1>1. Removed(text, rs) = (CHOOSE iter : Is(iter))[D]
  BY Zenon DEF Removed, FoldLeft, MapThenFoldSet, Size
<1>2. PICK h \in [SUBSET (1..n) -> Nat] : IsFold(h, 1..n, pick, 0, step)
  <2>1. \A s \in SUBSET (1..n) : s # {} => pick[s] \in s
    BY Extremes
  <2>2. \A i \in 1..n : step[i] \in [Nat -> Nat]
    BY <1>0
  <2>3. IsFiniteSet(1..n)
    BY Extremes
  <2> HIDE DEF pick, step
  <2>4. Foldable(1..n, Nat, pick, 0, step)
    BY <2>1, <2>2, <2>3 DEF Foldable
  <2> QED  BY <2>4, FoldExists
<1>3. Is(h)
  <2>1. ASSUME NEW s \in SUBSET (1..n), s # {}, NEW i, i = Max(s)
        PROVE  h[s] = h[s \ {i}] + Size(text, rs[i])
    <3>1. i \in 1..n /\ i = pick[s] /\ h[s \ {i}] \in Nat
      BY <2>1, Extremes
    <3>2. h[s] = step[i][h[s \ {i}]]
      BY <1>2, <2>1, <3>1 DEF IsFold
    <3>3. PICK v \in Nat : v = h[s \ {i}]
      BY <3>1
    <3>4. step[i][v] = v + Size(text, rs[i])
      BY <1>0, <3>1
    <3> HIDE DEF step
    <3> QED  BY <3>1, <3>2, <3>3, <3>4
  <2>2. h[{}] = 0
    BY <1>2 DEF IsFold
  <2>3. h = [s \in SUBSET (1..n) |-> h[s]]
    OBVIOUS
  <2> QED  BY <2>1, <2>2, <2>3
<1>4. PICK c : Removed(text, rs) = c[1..n] /\ Is(c)
  <2>1. D = 1..n
    OBVIOUS
  <2> HIDE DEF D, Is
  <2> QED  BY <1>1, <1>3, <2>1, Zenon
<1>5. c[1..0] = 0
  <2>1. 1..0 = {} /\ {} \in SUBSET D
    OBVIOUS
  <2> QED  BY <1>4, <2>1
<1>6. ASSUME NEW k \in 1..n PROVE c[1..k] = c[1..(k - 1)] + size[k]
  <2>1. Max(1..k) = k /\ (1..k) \ {k} = 1..(k - 1)
    BY Extremes
  <2>2. k \in 1..k /\ \A i \in 1..k : i \in 1..n
    OBVIOUS
  <2>3. PICK s \in SUBSET D : s = 1..k
    BY <2>2
  <2>4. s # {} /\ Max(s) = k /\ s \ {k} = 1..(k - 1)
    BY <2>1, <2>2, <2>3
  <2>5. c[s] = c[s \ {k}] + Size(text, rs[k])
    BY <1>4, <2>4
  <2> QED  BY <1>0, <2>3, <2>4, <2>5
<1>7. PICK sums : sums = [k \in 0..n |-> c[1..k]]
  OBVIOUS
<1>8. \A k \in 0..n : c[1..k] \in Nat
  <2> DEFINE W == [k \in 0..n |-> Nat]
  <2>1. \A k \in 0..n : W[k] = Nat
    OBVIOUS
  <2>2. ASSUME NEW k \in 1..n, c[1..(k - 1)] \in W[k - 1] PROVE c[1..k] \in W[k]
    <3>1. W[k - 1] = Nat /\ W[k] = Nat
      BY <2>1
    <3>2. PICK u \in Nat : u = c[1..(k - 1)]
      BY <2>2, <3>1
    <3>3. PICK v \in Nat : v = size[k]
      BY <1>0
    <3>4. c[1..k] = u + v
      BY <1>6, <3>2, <3>3
    <3> HIDE DEF W
    <3> QED  BY <3>1, <3>4
  <2>3. c[1..0] \in W[0]
    BY <1>5
  <2> HIDE DEF W
  <2>4. \A k \in 0..n : c[1..k] \in W[k]
    BY <2>2, <2>3, PrefixFold
  <2> QED  BY <2>1, <2>4
<1>9. 0 \in 0..n /\ n \in 0..n /\ \A i \in 1..n : i \in 0..n /\ i - 1 \in 0..n
  OBVIOUS
<1>10. AddedUp(sums, size, n)
  <2>1. \A k \in 0..n : sums[k] = c[1..k]
    BY <1>7
  <2>2. ASSUME NEW k \in 0..n, k # 0 PROVE sums[k] = sums[k - 1] + size[k]
    <3>1. k \in 1..n
      BY <2>2
    <3>2. k - 1 \in 0..n
      BY <3>1
    <3> QED  BY <1>6, <2>1, <3>1, <3>2
  <2>3. sums[0] = 0
    BY <1>5, <1>9, <2>1
  <2>4. \A k \in 0..n : sums[k] \in Int
    <3> SUFFICES ASSUME NEW k \in 0..n PROVE sums[k] \in Int
      OBVIOUS
    <3>1. c[1..k] \in Nat
      BY <1>8
    <3>2. sums[k] = c[1..k]
      BY <2>1
    <3> HIDE DEF Is
    <3> QED  BY <3>1, <3>2
  <2> QED  BY <2>2, <2>3, <2>4 DEF AddedUp
<1>11. Removed(text, rs) = sums[n]
  BY <1>4, <1>7, <1>9
<1> QED  BY <1>10, <1>11

-----------------------------------------------------------------------------
(***************************************************************************)
(* What the edits keep                                                       *)
(***************************************************************************)
(* The stops in the raw text: gap i is from behind stop i up to the next one.             *)
GapStops(stop, gaps, at, n, c) ==
    /\ stop[1] = 0 /\ stop[c + 1] = n + 1
    /\ \A i \in 1..(c + 1) : stop[i] \in 0..(n + 1)
    /\ \A i, j \in 1..(c + 1) : i < j => stop[i] < stop[j]
    /\ \A i \in 1..c : gaps[i].from = at[stop[i] + 1] /\ gaps[i].to = at[stop[i + 1]]

(* The gaps have such stops.                                                 *)
LEMMA GapsStop ==
    ASSUME NEW raw \in Seq(Byte), NEW final \in Seq(Byte), NEW s \in Found,
           Pairing(s, Scalars(raw), Scalars(final)), NEW at, at = ByteStarts(raw),
           NEW n \in Nat, StartsOf(at, raw, n), NEW c, c = Len(s) + 1
    PROVE  \E stop : GapStops(stop, Gaps(raw, final, s), at, n, c)
<1>1. PICK m \in Nat : StartsOf(ByteStarts(final), final, m)
  BY StartsAre
<1>2. n = Len(Scalars(raw)) /\ m = Len(Scalars(final))
  BY <1>1 DEF StartsOf
<1>3. PICK stops : stops = <<<<0, 0>>>> \o s \o <<<<n + 1, m + 1>>>>
  OBVIOUS
<1>4. PICK l \in Nat : StopsOf(stops, s, l, n, m)
  BY <1>3, StopsAre
<1>5. l = Len(s) /\ Len(stops) = l + 2 /\ DOMAIN s = 1..l
  BY <1>4, LenProperties DEF StopsOf, Found
<1>6. /\ \A i \in 1..(l + 2) : stops[i][1] \in 0..(n + 1) /\ stops[i][2] \in 0..(m + 1)
      /\ \A i, j \in 1..(l + 2) : i < j => stops[i][1] < stops[j][1] /\ stops[i][2] < stops[j][2]
  <2>1. PICK a \in Chars : a = Scalars(raw) /\ DOMAIN a = 1..n
    BY DEF StartsOf
  <2>2. PICK b \in Chars : b = Scalars(final) /\ DOMAIN b = 1..m
    BY <1>1 DEF StartsOf
  <2>3. Pairing(s, a, b)
    BY <2>1, <2>2
  <2>4. n \in Nat /\ m \in Nat /\ DOMAIN s = 1..l
    BY <1>5
  <2> QED  BY <1>4, <2>1, <2>2, <2>3, <2>4, StopsAdvance
<1>7. c \in Nat /\ c = l + 1 /\ c + 1 = l + 2
  BY <1>5
<1>8. PICK finalAt : finalAt = ByteStarts(final)
  OBVIOUS
<1>9. PICK gaps : gaps = Gaps(raw, final, s)
  OBVIOUS
<1>10. gaps = [i \in 1..c |->
            [from |-> at[stops[i][1] + 1], to |-> at[stops[i + 1][1]],
             finalFrom |-> finalAt[stops[i][2] + 1], finalTo |-> finalAt[stops[i + 1][2]]]]
  <2>1. Len(stops) - 1 = c
    BY <1>5, <1>7
  <2> QED  BY <1>2, <1>3, <1>8, <1>9, <2>1 DEF Gaps
<1>11. PICK stop : stop = [i \in 1..(c + 1) |-> stops[i][1]]
  OBVIOUS
<1>12. ASSUME NEW i \in 1..c PROVE gaps[i].from = at[stop[i] + 1] /\ gaps[i].to = at[stop[i + 1]]
  <2>1. i \in 1..(c + 1) /\ i + 1 \in 1..(c + 1)
    BY <1>7
  <2> QED  BY <1>10, <1>11, <2>1
<1>13. stop[1] = 0 /\ stop[c + 1] = n + 1
  <2>1. 1 \in 1..(c + 1) /\ c + 1 \in 1..(c + 1)
    BY <1>7
  <2>2. stops[1] = <<0, 0>> /\ stops[c + 1] = <<n + 1, m + 1>>
    BY <1>4, <1>7 DEF StopsOf
  <2> QED  BY <1>11, <2>1, <2>2
<1>14. /\ \A i \in 1..(c + 1) : stop[i] \in 0..(n + 1)
       /\ \A i, j \in 1..(c + 1) : i < j => stop[i] < stop[j]
  BY <1>6, <1>7, <1>11
<1>15. GapStops(stop, gaps, at, n, c)
  BY <1>12, <1>13, <1>14 DEF GapStops
<1> QED  BY <1>9, <1>15

(* A gap between the stops u and v *)
GapHolds(gap, text, u, v) ==
    /\ u \in Nat /\ v \in Nat /\ u < v
    /\ Len(Scalars(Slice(text, gap.from, gap.to))) = (v - u) - 1
    /\ gap.from = gap.to => v = u + 1

(* A gap holds the characters between its stops.                                *)
LEMMA GapSize ==
    ASSUME NEW text \in Seq(Byte), NEW at, at = ByteStarts(text), NEW n \in Nat, StartsOf(at, text, n),
           NEW c \in Nat, NEW gaps, NEW stop, GapStops(stop, gaps, at, n, c), NEW i \in 1..c,
           NEW j, j = i + 1
    PROVE  GapHolds(gaps[i], text, stop[i], stop[j])
<1>1. i \in 1..(c + 1) /\ j \in 1..(c + 1) /\ i < j
  OBVIOUS
<1>2. PICK u \in 0..(n + 1) : u = stop[i]
  BY <1>1 DEF GapStops
<1>3. PICK v \in 0..(n + 1) : v = stop[j]
  BY <1>1 DEF GapStops
<1>4. u < v
  BY <1>1, <1>2, <1>3 DEF GapStops
<1>5. PICK x \in 1..(n + 1) : x = u + 1
  BY <1>4
<1>6. v \in 1..(n + 1) /\ x <= v
  BY <1>4, <1>5
<1>7. PICK p : p = at[x]
  OBVIOUS
<1>8. PICK q : q = at[v]
  OBVIOUS
<1>9. gaps[i].from = p /\ gaps[i].to = q
  BY <1>2, <1>3, <1>5, <1>7, <1>8 DEF GapStops
<1>10. Len(Scalars(Slice(text, p, q))) = v - x
  BY <1>6, <1>7, <1>8, CharsBetween
<1>11. v - x = (v - u) - 1
  BY <1>5
<1>12. p = q => v = u + 1
  <2> SUFFICES ASSUME p = q, x < v PROVE FALSE
    BY <1>5, <1>6
  <2>1. at[x] < at[v] /\ at[x] \in 0..Len(text) /\ Len(text) \in Nat
    BY <1>6 DEF StartsOf
  <2>2. PICK w \in Nat : w = p
    BY <1>7, <2>1
  <2>3. w < w
    BY <1>7, <1>8, <2>1, <2>2
  <2> QED  BY <2>3
<1> QED  BY <1>2, <1>3, <1>4, <1>9, <1>10, <1>11, <1>12 DEF GapHolds

(* The records of a cue take away all its characters but those of the matches.           *)
LEMMA MatchesAreKept ==
    ASSUME NEW a \in Seq(Byte), NEW b \in Seq(Byte), NEW s, s = Matches[<<Scalars(a), Scalars(b)>>],
           NEW gaps, gaps = GapsBetween(a, b),
           NEW rs, NEW r, NEW which, Makes(rs, gaps, Edited(gaps), b, r, which)
    PROVE  Len(Scalars(a)) - Removed(a, rs) = Len(s)
<1>1. PICK at : at = ByteStarts(a)
  OBVIOUS
<1>2. PICK n \in Nat : StartsOf(at, a, n)
  BY <1>1, StartsAre
<1>3. s \in Found /\ Pairing(s, Scalars(a), Scalars(b))
  <2>1. PICK m \in Nat : StartsOf(ByteStarts(b), b, m)
    BY StartsAre
  <2>2. Scalars(a) \in Chars /\ Scalars(b) \in Chars
    BY <1>2, <2>1 DEF StartsOf
  <2>3. PICK t \in Pair : t = <<Scalars(a), Scalars(b)>>
    BY <2>2 DEF Pair
  <2>4. Matches[t] \in Found /\ Pairing(Matches[t], t[1], t[2])
    BY MatchesPaired
  <2> QED  BY <2>3, <2>4
<1>4. PICK l \in Nat : l = Len(s)
  BY <1>3, LenProperties DEF Found
<1>5. PICK c \in Nat : c = l + 1
  OBVIOUS
<1>6. gaps = Gaps(a, b, s)
  BY DEF GapsBetween
<1>7. PICK stop : GapStops(stop, gaps, at, n, c)
  BY <1>1, <1>2, <1>3, <1>4, <1>5, <1>6, GapsStop
<1>8. PICK size : size = [i \in 1..c |-> (stop[i + 1] - stop[i]) - 1]
  OBVIOUS
<1>9. ASSUME NEW i \in 1..c
      PROVE  /\ stop[i] \in Nat /\ stop[i + 1] \in Nat /\ size[i] \in Nat
             /\ size[i] = (stop[i + 1] - stop[i]) - 1
             /\ Len(Scalars(Slice(a, gaps[i].from, gaps[i].to))) = size[i]
             /\ gaps[i].from = gaps[i].to => stop[i + 1] = stop[i] + 1
  <2>1. PICK j : j = i + 1
    OBVIOUS
  <2>2. GapHolds(gaps[i], a, stop[i], stop[j])
    BY <1>1, <1>2, <1>7, <2>1, GapSize
  <2>3. PICK u \in Nat : u = stop[i]
    BY <2>2 DEF GapHolds
  <2>4. PICK v \in Nat : v = stop[j]
    BY <2>2 DEF GapHolds
  <2>5. /\ u < v /\ Len(Scalars(Slice(a, gaps[i].from, gaps[i].to))) = (v - u) - 1
        /\ gaps[i].from = gaps[i].to => v = u + 1
    BY <2>2, <2>3, <2>4 DEF GapHolds
  <2>6. (v - u) - 1 \in Nat
    BY <2>5
  <2>7. size[i] = (v - u) - 1
    BY <1>8, <2>1, <2>3, <2>4
  <2> QED  BY <2>1, <2>3, <2>4, <2>5, <2>6, <2>7
<1>10. PICK P : P = Edited(gaps)
  OBVIOUS
<1>11. DOMAIN gaps = 1..c
       /\ \A i \in 1..c : gaps[i].from \in 0..Len(a) /\ gaps[i].to \in 0..Len(a) /\ gaps[i].from <= gaps[i].to
  <2>1. GapsOf(gaps, a, b, Len(s) + 1)
    BY <1>3, <1>6, GapsAre
  <2> QED  BY <1>4, <1>5, <2>1 DEF GapsOf
<1>12. StepsOf(stop, size, P, c)
  <2>1. P \in SUBSET (1..c)
    BY <1>10, <1>11 DEF Edited
  <2>2. ASSUME NEW i \in 1..(c + 1) PROVE stop[i] \in Int
    BY <1>7 DEF GapStops
  <2>3. ASSUME NEW i \in 1..c PROVE size[i] \in Int /\ stop[i + 1] = stop[i] + size[i] + 1
    BY <1>9
  <2>4. ASSUME NEW i \in 1..c, i \notin P PROVE size[i] = 0
    <3>1. ~(gaps[i].from < gaps[i].to)
      BY <1>10, <1>11, <2>4 DEF Edited
    <3>2. PICK k \in Nat : k = Len(a)
      BY LenProperties
    <3>3. gaps[i].from = gaps[i].to
      BY <1>11, <3>1, <3>2
    <3>4. PICK u \in Nat : u = stop[i]
      BY <1>9
    <3>5. stop[i + 1] = u + 1 /\ size[i] = (stop[i + 1] - u) - 1
      BY <1>9, <3>3, <3>4
    <3> QED  BY <3>5
  <2>5. stop[1] = 0
    BY <1>7 DEF GapStops
  <2> QED  BY <2>1, <2>2, <2>3, <2>4, <2>5 DEF StepsOf
<1>13. InPlaces(which, P, r)
  BY <1>10 DEF Makes, InPlaces
<1>14. PICK taken : taken = [k \in 1..r |-> size[which[k]]]
  OBVIOUS
<1>15. ASSUME NEW k \in 1..r PROVE taken[k] \in Nat /\ Size(a, rs[k]) = taken[k]
  <2>1. PICK i \in 1..c : i = which[k]
    BY <1>12, <1>13 DEF StepsOf, InPlaces
  <2>2. rs[k].edit = gaps[i]
    BY <2>1 DEF Makes
  <2> QED  BY <1>9, <1>14, <2>1, <2>2 DEF Size
<1>16. r \in Nat /\ DOMAIN rs = 1..r
  BY DEF Makes
<1>17. PICK sums : AddedUp(sums, taken, r) /\ Removed(a, rs) = sums[r]
  <2>1. Sized(rs, a, taken, r)
    BY <1>15 DEF Sized
  <2> QED  BY <1>16, <2>1, RemovedIs
<1>18. SumsOf(sums, size, which, r)
  <2>1. ASSUME NEW k \in 1..r PROVE sums[k] = sums[k - 1] + size[which[k]]
    <3>1. k \in 0..r /\ k # 0
      BY <1>16
    <3>2. sums[k] = sums[k - 1] + taken[k]
      BY <1>17, <3>1 DEF AddedUp
    <3> QED  BY <1>14, <3>2
  <2> QED  BY <1>17, <2>1 DEF AddedUp, SumsOf
<1>19. sums[r] = stop[c + 1] - c
  BY <1>12, <1>13, <1>18, SumOfAll
<1>20. sums[r] = n - l
  <2>1. stop[c + 1] = n + 1
    BY <1>7 DEF GapStops
  <2> QED  BY <1>5, <1>19, <2>1
<1>21. Len(Scalars(a)) = n
  BY <1>2 DEF StartsOf
<1>22. n - (n - l) = l
  OBVIOUS
<1> QED  BY <1>4, <1>17, <1>20, <1>21, <1>22

(* As many characters are kept as any edits could keep.                             *)
LEMMA MostIsKept ==
    ASSUME NEW a \in Seq(Byte), NEW b \in Seq(Byte),
           NEW gaps, gaps = GapsBetween(a, b),
           NEW rs, NEW r, NEW which, Makes(rs, gaps, Edited(gaps), b, r, which)
    PROVE  Len(Scalars(a)) - Removed(a, rs) = LongestCommon(Scalars(a), Scalars(b))
<1>1. PICK x \in Chars : x = Scalars(a)
  BY StartsAre DEF StartsOf
<1>2. PICK y \in Chars : y = Scalars(b)
  BY StartsAre DEF StartsOf
<1>3. PICK t \in Pair : t = <<x, y>>
  BY DEF Pair
<1>4. PICK s : s = Matches[t]
  OBVIOUS
<1>5. Len(Scalars(a)) - Removed(a, rs) = Len(s)
  BY <1>1, <1>2, <1>3, <1>4, MatchesAreKept
<1>6. FoundMost(t)
  BY MatchesAreMost
<1>7. PICK n, m, k \in Nat : n = Len(x) /\ m = Len(y) /\ k = Len(s) /\ MostCommon(x, y, n, m, k)
  <2>1. t[1] = x /\ t[2] = y
    BY <1>3
  <2> QED  BY <1>4, <1>6, <2>1 DEF FoundMost
<1>8. DOMAIN x = 1..n /\ DOMAIN y = 1..m
  BY <1>7, LenProperties DEF Chars
<1>9. LongestCommon(x, y) = k
  BY <1>7, <1>8, LongestIs
<1> QED  BY <1>1, <1>2, <1>5, <1>7, <1>9

-----------------------------------------------------------------------------
(***************************************************************************)
(* The edits are minimal                                                     *)
(***************************************************************************)
(* The edits of a changed cue keep as many of its characters as a longest common          *)
(* subsequence of its raw and its final text has.                                *)
LEMMA CueKeepsTheMost ==
    ASSUME NEW raw, NEW final, NEW terms, Comparable(raw, final, terms),
           NEW edits, NEW of, NEW nth, Recorded(edits, raw, final, of, nth),
           NEW n \in DOMAIN raw, raw[n].text # final[n].text,
           NEW rs, rs = AtPlaces(edits, OfCue(edits, n))
    PROVE  Len(Scalars(raw[n].text)) - Removed(raw[n].text, rs)
               = LongestCommon(Scalars(raw[n].text), Scalars(final[n].text))
<1>1. PICK a \in Seq(Byte) : a = raw[n].text
  BY TextType DEF Comparable
<1>2. PICK b \in Seq(Byte) : b = final[n].text
  BY TextType DEF Comparable
<1>3. PICK gaps : gaps = GapsBetween(a, b)
  OBVIOUS
<1>4. a # b
  BY <1>1, <1>2
<1>5. PICK r, which : Makes(rs, gaps, Edited(gaps), b, r, which)
  BY <1>1, <1>2, <1>3, <1>4, RecordsOfGaps
<1>6. Len(Scalars(a)) - Removed(a, rs) = LongestCommon(Scalars(a), Scalars(b))
  BY <1>3, <1>5, MostIsKept
<1> QED  BY <1>1, <1>2, <1>6

(* The edits that are reported for a cue make its final text of its raw one and keep as    *)
(* many characters as a longest common subsequence has, for all transcripts and work      *)
(* budgets (hirschberg_matches, lcs_prefix_lengths, edits_from_matches).             *)
THEOREM MinimalEdits == Spec => []EditsAreMinimal
<1>1. ASSUME EvaluatedInv PROVE EditsKeepTheMost
  <2> SUFFICES ASSUME Evaluated, NEW n \in Changed(Raw, Final)
               PROVE  Kept(n) = LongestCommon(Scalars(Raw[n].text), Scalars(Final[n].text))
    BY DEF EditsKeepTheMost
  <2>1. PICK terms : terms = ParseTerms(input.terms) /\ Comparable(Raw, Final, terms)
    BY <1>1, EvaluatedIsComparable
  <2>2. PICK edits : edits = EditRecords(Raw, Final, terms)
    OBVIOUS
  <2>3. report.edits = edits
    <3>1. report = EvaluationOf(Raw, Final, TermReview(Raw, terms), edits, Edges(TermReview(Raw, terms), edits))
      BY <1>1, <2>1, <2>2 DEF EvaluatedInv, Evaluation, Related
    <3> QED  BY <3>1 DEF EvaluationOf
  <2>4. PICK of, nth : Recorded(edits, Raw, Final, of, nth)
    BY <2>1, <2>2, RecordsInOrder
  <2>5. PICK rs : rs = EditsIn(n) /\ rs = AtPlaces(edits, OfCue(edits, n))
    BY <2>3 DEF EditsIn, OfCue
  <2>6. n \in DOMAIN Raw /\ Raw[n].text # Final[n].text
    BY DEF Changed
  <2>7. PICK raw : raw = Raw
    OBVIOUS
  <2>8. PICK final : final = Final
    OBVIOUS
  <2>9. Len(Scalars(raw[n].text)) - Removed(raw[n].text, rs)
            = LongestCommon(Scalars(raw[n].text), Scalars(final[n].text))
    BY <2>1, <2>4, <2>5, <2>6, <2>7, <2>8, CueKeepsTheMost
  <2>10. Kept(n) = Len(Scalars(Raw[n].text)) - Removed(Raw[n].text, EditsIn(n))
    BY Zenon DEF Kept, Removed
  <2> QED  BY <2>5, <2>7, <2>8, <2>9, <2>10
<1>2. EditsMakeTheFinalText /\ EditsKeepTheMost => EditsAreMinimal
  BY DEF EditsAreMinimal
<1> QED  BY <1>1, <1>2, EditsMakeFinal, EvaluatedInvariant, PTL
=============================================================================
