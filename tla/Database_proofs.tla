--------------------------- MODULE Database_proofs ---------------------------
(***************************************************************************)
(* Machine-checked proofs about the database: how it is opened and brought *)
(* to the schema of the program, for any builds, number of snapshots and   *)
(* number of repositories; the table of executed requests; the tables that *)
(* the import of Postman documents writes; and workspaces that go to a     *)
(* backup and come back.                                                   *)
(***************************************************************************)
EXTENDS DatabaseRecovery, ExecutionHistory, PostmanImport, NativeBackup, FiniteSetTheorems,
        SequenceTheorems, WellFoundedInduction, TLAPS

-----------------------------------------------------------------------------
(* Opening the database *)

Stages == {"off", "inspect", "copy", "rotate", "migrate", "clear", "up"}
Modes == {"normal", "safe"}
Program == [build : Builds \union {0}, stage : Stages, modes : Seq(Modes)]

\* How far the program is with its next repository says what is known of the
\* schema and of the snapshots.
StageInv ==
  /\ program \in Program
  /\ At("off") => program.modes = <<>>
  /\ At("up") => Len(program.modes) = Opens
  /\ ~At("off") /\ ~At("up") => Len(program.modes) < Opens
  /\ ~At("off") /\ ~At("inspect") /\ ~At("up") => committed.version <= program.build
  /\ At("copy") \/ At("rotate") => file # NoFile
  /\ At("rotate") => copies # <<>> /\ copies[Len(copies)] = file
  /\ At("migrate") /\ committed.version # program.build /\ file # NoFile =>
       copies # <<>> /\ copies[Len(copies)] = file /\ Len(copies) <= Retention
  /\ At("clear") => committed.version = program.build

RecoveryInv ==
  /\ file \in Content /\ committed \in Content
  /\ condition \in {"sound", "damaged", "torn"}
  /\ copies \in Seq(Content)
  /\ StageInv
  /\ WritersKnowTheSchema

LEMMA RecoveryInitial == RecoveryInit => RecoveryInv
  <1> SUFFICES ASSUME RecoveryInit PROVE RecoveryInv
    OBVIOUS
  <1>1. program = [build |-> 0, stage |-> "off", modes |-> <<>>]
    BY DEF RecoveryInit, Off
  <1>2. program \in Program /\ program.modes = <<>> /\ program.stage = "off"
    BY <1>1 DEF Program, Stages
  <1>3. NoFile \in Content /\ <<>> \in Seq(Content)
    BY DEF NoFile, Content
  <1> QED
    BY <1>2, <1>3, RecoveryAssumption
       DEF RecoveryInit, RecoveryInv, StageInv, At, WritersKnowTheSchema

\* A program that opens one more repository.
LEMMA OpenedLemma ==
  ASSUME RecoveryInv, ~At("off"), ~At("up"), NEW mode \in Modes, Opened(mode)
  PROVE  /\ program' \in Program /\ program'.build = program.build
         /\ program'.modes = Append(program.modes, mode)
         /\ \/ program'.stage = "up" /\ Len(program'.modes) = Opens
            \/ program'.stage = "inspect" /\ Len(program'.modes) < Opens
  <1> DEFINE modes == Append(program.modes, mode)
             stage == IF Len(modes) = Opens THEN "up" ELSE "inspect"
  <1>1. program \in Program /\ Len(program.modes) < Opens
    BY DEF RecoveryInv, StageInv
  <1>2. /\ program.modes \in Seq(Modes) /\ modes \in Seq(Modes)
        /\ Len(modes) = Len(program.modes) + 1 /\ Len(program.modes) \in Nat
    BY <1>1 DEF Program
  <1>3. stage \in Stages
    BY DEF Stages
  <1>4. program' = [program EXCEPT !.modes = modes, !.stage = stage]
    BY DEF Opened
  <1> HIDE DEF modes, stage
  <1>5. /\ program' \in Program /\ program'.build = program.build
        /\ program'.modes = modes /\ program'.stage = stage
    BY <1>1, <1>2, <1>3, <1>4 DEF Program
  <1>6. Opens \in Nat
    BY RecoveryAssumption
  <1>7. \/ stage = "up" /\ Len(modes) = Opens
        \/ stage = "inspect" /\ Len(modes) < Opens
    BY <1>1, <1>2, <1>6 DEF stage
  <1> QED
    BY <1>5, <1>7 DEF modes

LEMMA BuildsAreNumbers == \A b \in Builds \union {0} : b \in Nat
  BY BuildsAssumption

LEMMA GoToLemma ==
  ASSUME program \in Program, NEW stage \in Stages, GoTo(stage)
  PROVE  /\ program' \in Program /\ program'.build = program.build
         /\ program'.modes = program.modes /\ program'.stage = stage
  BY DEF GoTo, Program

LEMMA OffLemma ==
  ASSUME program' = Off
  PROVE  /\ program' \in Program /\ program'.stage = "off" /\ program'.modes = <<>>
  BY DEF Off, Program, Stages

\* The mode of the repository that was opened last, and of the others.
LEMMA ModesLemma ==
  ASSUME NEW modes \in Seq(Modes), NEW mode \in Modes, NEW i \in DOMAIN Append(modes, mode),
         Append(modes, mode)[i] = "normal"
  PROVE  mode = "normal" \/ \E j \in DOMAIN modes : modes[j] = "normal"
  <1>1. /\ Len(Append(modes, mode)) = Len(modes) + 1 /\ Len(modes) \in Nat
        /\ DOMAIN Append(modes, mode) = 1..(Len(modes) + 1)
        /\ DOMAIN modes = 1..Len(modes)
        /\ Append(modes, mode)[Len(modes) + 1] = mode
        /\ \A j \in 1..Len(modes) : Append(modes, mode)[j] = modes[j]
    OBVIOUS
  <1>2. i = Len(modes) + 1 \/ i \in 1..Len(modes)
    BY <1>1
  <1> QED
    BY <1>1, <1>2

\* The newest snapshots stay.
LEMMA LastCopies ==
  ASSUME NEW s \in Seq(Content), NEW n \in 0..Len(s)
  PROVE  LET kept == SubSeq(s, n + 1, Len(s)) IN
           /\ kept \in Seq(Content) /\ Len(kept) = Len(s) - n
           /\ n < Len(s) => kept # <<>> /\ kept[Len(kept)] = s[Len(s)]
  <1> DEFINE kept == SubSeq(s, n + 1, Len(s))
  <1>1. Len(s) \in Nat /\ n + 1 \in 1..(Len(s) + 1)
    OBVIOUS
  <1>2. /\ kept \in Seq(Content)
        /\ Len(kept) = IF n + 1 <= Len(s) THEN Len(s) - (n + 1) + 1 ELSE 0
        /\ \A i \in 1..(Len(s) - (n + 1) + 1) : kept[i] = s[(n + 1) + i - 1]
    BY <1>1, SubSeqProperties
  <1> HIDE DEF kept
  <1>3. Len(kept) = Len(s) - n
    BY <1>1, <1>2
  <1>4. ASSUME n < Len(s)
        PROVE  kept # <<>> /\ kept[Len(kept)] = s[Len(s)]
    <2>1. Len(kept) # 0
      BY <1>1, <1>3, <1>4
    <2>2. Len(s) - n \in 1..(Len(s) - (n + 1) + 1) /\ (n + 1) + (Len(s) - n) - 1 = Len(s)
      BY <1>1, <1>4
    <2>3. kept[Len(s) - n] = s[Len(s)]
      BY <1>2, <2>2
    <2>4. kept[Len(kept)] = s[Len(s)]
      BY <1>3, <2>3
    <2>5. kept # <<>>
      BY <2>1
    <2> QED
      BY <2>4, <2>5
  <1> QED
    BY <1>2, <1>3, <1>4 DEF kept

LEMMA RotatedLemma ==
  ASSUME copies \in Seq(Content)
  PROVE  /\ Rotated \in Seq(Content) /\ Len(Rotated) <= Retention /\ Len(Rotated) <= Len(copies)
         /\ copies # <<>> => Rotated # <<>> /\ Rotated[Len(Rotated)] = copies[Len(copies)]
  <1>1. Len(copies) \in Nat /\ Retention \in Nat /\ Retention > 0
    BY RecoveryAssumption
  <1>2. CASE Len(copies) <= Retention
    <2>1. Rotated = copies
      BY <1>2 DEF Rotated
    <2> QED
      BY <1>1, <1>2, <2>1
  <1>3. CASE ~ (Len(copies) <= Retention)
    <2>1. /\ Rotated = SubSeq(copies, (Len(copies) - Retention) + 1, Len(copies))
          /\ Len(copies) - Retention \in 0..Len(copies) /\ Len(copies) - Retention < Len(copies)
      BY <1>1, <1>3 DEF Rotated
    <2>2. /\ Rotated \in Seq(Content) /\ Len(Rotated) = Len(copies) - (Len(copies) - Retention)
          /\ Rotated # <<>> /\ Rotated[Len(Rotated)] = copies[Len(copies)]
      BY <2>1, LastCopies
    <2>3. Len(Rotated) = Retention
      BY <1>1, <2>2
    <2> QED
      BY <1>1, <1>3, <2>2, <2>3
  <1> QED
    BY <1>2, <1>3

\* A step keeps RecoveryInv.
LEMMA RecoveryStep == RecoveryInv /\ [RecoveryNext]_recoveryVars => RecoveryInv'
  <1> SUFFICES ASSUME RecoveryInv, [RecoveryNext]_recoveryVars
               PROVE  RecoveryInv'
    OBVIOUS
  <1>0. /\ program \in Program /\ program.build \in Builds \union {0} /\ program.stage \in Stages
        /\ file \in Content /\ committed \in Content /\ copies \in Seq(Content)
        /\ committed.version \in Nat
    BY DEF RecoveryInv, StageInv, Program, Content
  <1>1. ASSUME UNCHANGED <<file, committed, condition, copies>>, program' = Off
        PROVE  RecoveryInv'
    BY <1>1, OffLemma, RecoveryAssumption DEF RecoveryInv, StageInv, At, WritersKnowTheSchema
  <1>2. ASSUME UNCHANGED <<file, committed, condition, copies>>,
               ~At("off"), ~At("up"), NEW mode \in Modes, Opened(mode),
               mode = "normal" => committed.version = program.build
        PROVE  RecoveryInv'
    <2>1. /\ program' \in Program /\ program'.build = program.build
          /\ program'.modes = Append(program.modes, mode)
          /\ \/ program'.stage = "up" /\ Len(program'.modes) = Opens
             \/ program'.stage = "inspect" /\ Len(program'.modes) < Opens
      BY <1>2, OpenedLemma
    <2>2. program.modes \in Seq(Modes)
      BY <1>0 DEF Program
    <2>3. WritersKnowTheSchema'
      BY <1>2, <2>1, <2>2, ModesLemma DEF RecoveryInv, WritersKnowTheSchema
    <2>4. StageInv'
      BY <2>1 DEF StageInv, At
    <2> QED
      BY <1>2, <2>3, <2>4 DEF RecoveryInv
  <1>3. ASSUME NEW b \in Builds, StartProgram(b)
        PROVE  RecoveryInv'
    <2>1. program' = [build |-> b, stage |-> "inspect", modes |-> <<>>]
      BY <1>3 DEF StartProgram
    <2>2. program' \in Program /\ program'.stage = "inspect" /\ program'.modes = <<>>
      BY <2>1 DEF Program, Stages
    <2> QED
      BY <1>3, <2>2, RecoveryAssumption
         DEF StartProgram, RecoveryInv, StageInv, At, WritersKnowTheSchema
  <1>4. CASE Inspect
    <2>1. UNCHANGED <<file, committed, condition, copies>> /\ At("inspect")
      BY <1>4 DEF Inspect
    <2>2. CASE Opened("safe")
      BY <1>2, <2>1, <2>2 DEF Modes, At
    <2>3. CASE program' = Off
      BY <1>1, <2>1, <2>3
    <2>4. CASE ~TooNew /\ GoTo(IF Pending /\ file # NoFile THEN "copy" ELSE "migrate")
      <3> DEFINE stage == IF Pending /\ file # NoFile THEN "copy" ELSE "migrate"
      <3>1. stage \in Stages
        BY DEF Stages
      <3>2. /\ program' \in Program /\ program'.build = program.build
            /\ program'.modes = program.modes /\ program'.stage = stage
        BY <1>0, <2>4, <3>1, GoToLemma
      <3>3. program.build \in Nat
        BY <1>0, BuildsAreNumbers
      <3>4. Len(program.modes) < Opens
        BY <2>1 DEF RecoveryInv, StageInv, At
      <3>5. committed.version <= program.build
        BY <1>0, <2>4, <3>3 DEF TooNew
      <3>6. CASE stage = "copy"
        BY <1>0, <2>1, <3>2, <3>4, <3>5, <3>6
           DEF RecoveryInv, StageInv, At, WritersKnowTheSchema, Pending
      <3>7. CASE stage = "migrate"
        <4>1. committed.version = program.build \/ file = NoFile
          BY <1>0, <3>3, <3>5, <3>7 DEF Pending
        <4> QED
          BY <1>0, <2>1, <3>2, <3>4, <3>5, <3>7, <4>1
             DEF RecoveryInv, StageInv, At, WritersKnowTheSchema
      <3> QED
        BY <3>6, <3>7
    <2> QED
      BY <1>4, <2>2, <2>3, <2>4 DEF Inspect
  <1>5. CASE CopyFile
    <2>1. CASE program' = Off /\ UNCHANGED copies
      BY <1>1, <1>5, <2>1 DEF CopyFile
    <2>2. CASE copies' = Append(copies, file) /\ GoTo("rotate")
      <3>1. /\ program' \in Program /\ program'.build = program.build
            /\ program'.modes = program.modes /\ program'.stage = "rotate"
        BY <1>0, <2>2, GoToLemma DEF Stages
      <3>2. copies' \in Seq(Content) /\ copies' # <<>> /\ copies'[Len(copies')] = file
        BY <1>0, <2>2
      <3> QED
        BY <1>5, <3>1, <3>2 DEF CopyFile, RecoveryInv, StageInv, At, WritersKnowTheSchema
    <2> QED
      BY <1>5, <2>1, <2>2 DEF CopyFile
  <1>6. CASE Rotate
    <2>0. At("rotate") /\ UNCHANGED <<file, committed, condition>>
      BY <1>6 DEF Rotate
    <2>1. CASE copies' = Rotated /\ GoTo("migrate")
      <3>1. /\ program' \in Program /\ program'.build = program.build
            /\ program'.modes = program.modes /\ program'.stage = "migrate"
        BY <1>0, <2>1, GoToLemma DEF Stages
      <3>2. /\ copies' \in Seq(Content) /\ Len(copies') <= Retention
            /\ copies' # <<>> /\ copies'[Len(copies')] = file
        BY <1>0, <2>0, <2>1, RotatedLemma DEF RecoveryInv, StageInv
      <3> QED
        BY <2>0, <3>1, <3>2 DEF RecoveryInv, StageInv, At, WritersKnowTheSchema
    <2>2. CASE /\ \E n \in 0..(Len(copies) - Len(Rotated)) :
                    copies' = SubSeq(copies, n + 1, Len(copies))
               /\ program' = Off
      <3>1. PICK n \in 0..(Len(copies) - Len(Rotated)) :
              copies' = SubSeq(copies, n + 1, Len(copies))
        BY <2>2
      <3>2. Len(copies) \in Nat /\ Len(Rotated) \in Nat
        BY <1>0, RotatedLemma
      <3>3. copies' \in Seq(Content)
        BY <1>0, <3>1, <3>2, LastCopies
      <3>4. /\ program' \in Program /\ program'.stage = "off" /\ program'.modes = <<>>
        BY <2>2, OffLemma
      <3>5. StageInv' /\ WritersKnowTheSchema'
        BY <3>4 DEF StageInv, At, WritersKnowTheSchema
      <3> QED
        BY <2>0, <3>3, <3>5 DEF RecoveryInv
    <2> QED
      BY <1>6, <2>1, <2>2 DEF Rotate
  <1>7. CASE Migrate
    <2>0. At("migrate") /\ UNCHANGED <<condition, copies>>
      BY <1>7 DEF Migrate
    <2>1. CASE Opened("safe") /\ UNCHANGED <<file, committed>>
      BY <1>2, <2>0, <2>1 DEF Modes, At
    <2>2. CASE /\ committed' = [committed EXCEPT !.version = program.build]
               /\ file' = IF file = NoFile THEN committed' ELSE file
               /\ GoTo("clear")
      <3>1. /\ program' \in Program /\ program'.build = program.build
            /\ program'.modes = program.modes /\ program'.stage = "clear"
        BY <1>0, <2>2, GoToLemma DEF Stages
      <3>2. program.build \in Nat
        BY <1>0, BuildsAreNumbers
      <3>3. committed' \in Content /\ committed'.version = program.build
        BY <1>0, <2>2, <3>2 DEF Content
      <3>4. file' \in Content
        BY <1>0, <2>2, <3>3
      <3> QED
        BY <2>0, <3>1, <3>2, <3>3, <3>4 DEF RecoveryInv, StageInv, At, WritersKnowTheSchema
    <2> QED
      BY <1>7, <2>1, <2>2 DEF Migrate
  <1>8. CASE ClearCookies
    BY <1>2, <1>8 DEF ClearCookies, Modes, At, RecoveryInv, StageInv
  <1>9. CASE Work
    <2>1. /\ committed' = [committed EXCEPT !.commits = @ + 1]
          /\ UNCHANGED <<file, condition, copies, program>>
      BY <1>9 DEF Work
    <2>2. committed' \in Content /\ committed'.version = committed.version
      BY <1>0, <2>1 DEF Content
    <2> QED
      BY <2>1, <2>2 DEF RecoveryInv, StageInv, At, WritersKnowTheSchema
  <1>10. CASE Checkpoint
    BY <1>10 DEF Checkpoint, RecoveryInv, StageInv, At, WritersKnowTheSchema
  <1>11. CASE EndProgram
    BY <1>11, OffLemma, RecoveryAssumption
       DEF EndProgram, RecoveryInv, StageInv, At, WritersKnowTheSchema
  <1>12. CASE Damage
    BY <1>12 DEF Damage, RecoveryInv, StageInv, At, WritersKnowTheSchema
  <1>13. CASE UNCHANGED recoveryVars
    BY <1>13 DEF recoveryVars, RecoveryInv, StageInv, At, WritersKnowTheSchema
  <1> QED
    BY <1>3, <1>4, <1>5, <1>6, <1>7, <1>8, <1>9, <1>10, <1>11, <1>12, <1>13 DEF RecoveryNext

\* A program of an older build finds a newer schema only where it looks for one, and
\* has opened nothing for writing by then.
LEMMA NewerStep ==
  ASSUME RecoveryInv, RecoveryInv', [RecoveryNext]_recoveryVars,
         committed.version > program.build, ~At("off")
  PROVE  UNCHANGED <<committed, copies>> /\ program'.modes \in Seq({"safe"})
  <1>0. /\ program \in Program /\ program' \in Program
        /\ committed.version \in Nat /\ program.build \in Nat
        /\ program.modes \in Seq(Modes)
    BY BuildsAreNumbers DEF RecoveryInv, StageInv, Program, Content
  <1>1. At("inspect") \/ At("up")
    BY <1>0 DEF RecoveryInv, StageInv
  <1>2. \A i \in 1..Len(program.modes) : program.modes[i] = "safe"
    BY <1>0 DEF RecoveryInv, WritersKnowTheSchema, Modes
  <1>3. program.modes \in Seq({"safe"})
    BY <1>0, <1>2, SeqDef, ElementOfSeq
  <1>4. Append(program.modes, "safe") \in Seq({"safe"}) /\ <<>> \in Seq({"safe"})
    BY <1>3
  <1>5. CASE Inspect
    <2>1. UNCHANGED <<committed, copies>>
      BY <1>5 DEF Inspect
    <2>2. CASE Opened("safe") /\ At("inspect")
      <3>1. program'.modes = Append(program.modes, "safe")
        BY <2>2, OpenedLemma DEF Modes, At
      <3> QED
        BY <1>4, <2>1, <3>1
    <2>3. CASE program' = Off
      BY <1>4, <2>1, <2>3, OffLemma
    <2> QED
      BY <1>0, <1>5, <2>2, <2>3 DEF Inspect, TooNew
  <1>6. CASE Checkpoint
    BY <1>3, <1>6 DEF Checkpoint
  <1>7. CASE EndProgram
    BY <1>4, <1>7, OffLemma DEF EndProgram
  <1>8. CASE Work
    <2>1. PICK i \in 1..Opens : program.modes[i] = "normal"
      BY <1>8 DEF Work
    <2>2. i \in 1..Len(program.modes)
      BY <1>8, <2>1 DEF Work, RecoveryInv, StageInv
    <2> QED
      BY <1>2, <2>1, <2>2
  <1>9. CASE UNCHANGED recoveryVars
    BY <1>3, <1>9 DEF recoveryVars
  <1> QED
    BY <1>1, <1>5, <1>6, <1>7, <1>8, <1>9
       DEF RecoveryNext, StartProgram, CopyFile, Rotate, Migrate, ClearCookies, Damage, At

\* Only a migration changes the version, and the snapshots were rotated before it.
LEMMA UpgradeStep ==
  ASSUME RecoveryInv, [RecoveryNext]_recoveryVars,
         committed'.version # committed.version, file # NoFile
  PROVE  copies # <<>> /\ copies[Len(copies)] = file /\ Len(copies) <= Retention
  <1>1. Migrate
    <2>1. Work => committed'.version = committed.version
      BY DEF Work, RecoveryInv, Content
    <2> QED
      BY <2>1 DEF RecoveryNext, StartProgram, Inspect, CopyFile, Rotate, ClearCookies,
                  Checkpoint, EndProgram, Damage, recoveryVars
  <1>2. At("migrate") /\ committed.version # program.build
    BY <1>1 DEF Migrate, RecoveryInv, Content
  <1> QED
    BY <1>2 DEF RecoveryInv, StageInv

\* Whatever builds are started on one file and wherever they are ended: a program
\* writes only to the schema it knows, a migration finds a snapshot of what the file
\* held, and a newer database is left alone.
THEOREM DatabaseIsRecoverable == RecoverySpec => RecoveryCorrect
  <1>1. RecoveryInv => RecoveryTypeOK /\ WritersKnowTheSchema
    <2>1. ASSUME RecoveryInv PROVE Len(program.modes) <= Opens
      <3>1. Len(program.modes) \in Nat /\ Opens \in Nat /\ program.modes \in Seq(Modes)
        BY <2>1, RecoveryAssumption DEF RecoveryInv, StageInv, Program
      <3>2. At("off") => Len(program.modes) = 0
        BY <2>1 DEF RecoveryInv, StageInv
      <3> QED
        BY <2>1, <3>1, <3>2 DEF RecoveryInv, StageInv
    <2> QED
      BY <2>1 DEF RecoveryInv, RecoveryTypeOK, StageInv, Program, Stages, Modes
  <1>2. RecoveryInv /\ [RecoveryNext]_recoveryVars =>
          [committed'.version # committed.version /\ file # NoFile =>
             /\ copies # <<>> /\ copies[Len(copies)] = file
             /\ Len(copies) <= Retention]_recoveryVars
    BY UpgradeStep
  <1>3. RecoveryInv /\ RecoveryInv' /\ [RecoveryNext]_recoveryVars =>
          [committed.version > program.build /\ ~At("off") =>
             UNCHANGED <<committed, copies>> /\ program'.modes \in Seq({"safe"})]_recoveryVars
    BY NewerStep
  <1> QED
    BY <1>1, <1>2, <1>3, RecoveryInitial, RecoveryStep, PTL
       DEF RecoverySpec, RecoveryCorrect, UpgradesAreCopied, NewerIsLeftAlone

-----------------------------------------------------------------------------
(* The table of executed requests *)

\* An execution is observed before it has a record, and its record is waiting or in
\* the table; records are made of times that have passed.
HistoryInv ==
  /\ HistoryTypeOK /\ HistoryIsBounded
  /\ IsFiniteSet(history)
  /\ \A e \in waiting : e.of \in observed /\ e.at <= time
  /\ \A row \in history : row.of \in observed /\ HomeOf[row.of] \in homes
  /\ \A row, other \in history : row.of = other.of => row = other
  /\ \A e, f \in waiting : e.of = f.of => e = f
  /\ \A row \in history, e \in waiting : row.of # e.of

LEMMA NoRows == ASSUME NEW w PROVE Cardinality(Unpinned({}, w)) <= KeepCount
  <1>1. Unpinned({}, w) = {}
    BY DEF Unpinned, RowsOf
  <1>2. Cardinality({}) = 0
    BY FS_EmptySet
  <1>3. KeepCount \in Nat
    BY RetentionAssumption
  <1> QED
    BY <1>1, <1>2, <1>3

LEMMA HistoryInitial == HistoryInit => HistoryInv
  BY NoRows, FS_EmptySet DEF HistoryInit, HistoryInv, HistoryTypeOK, HistoryIsBounded

\* What a cleanup of the table leaves, and what it takes.
LEMMA CleanedLemma ==
  ASSUME NEW rows \in SUBSET HistoryRow, IsFiniteSet(rows), NEW w, NEW now \in Nat,
         NEW new \in Cleaned(rows, w, now)
  PROVE  /\ new \subseteq rows /\ IsFiniteSet(new)
         /\ Cardinality(Unpinned(new, w)) <= KeepCount
         /\ \A v : v # w => Unpinned(new, v) = Unpinned(rows, v)
         /\ \A row \in rows \ new :
              /\ row \in Unpinned(rows, w)
              /\ \/ row.at < now - KeepTime
                 \/ KeepCount <= Cardinality({other \in Unpinned(new, w) : other.at >= row.at})
  <1> DEFINE recent == {row \in Unpinned(rows, w) : row.at >= now - KeepTime}
  <1>1. PICK kept \in SUBSET recent :
          /\ new = (rows \ Unpinned(rows, w)) \union kept
          /\ Cardinality(kept) = IF Cardinality(recent) < KeepCount THEN Cardinality(recent)
                                 ELSE KeepCount
          /\ \A row \in recent \ kept, keep \in kept : row.at <= keep.at
    BY DEF Cleaned
  <1>2. /\ Unpinned(rows, w) \subseteq rows /\ recent \subseteq Unpinned(rows, w)
        /\ kept \subseteq recent
    BY DEF Unpinned, RowsOf
  <1>3. new \subseteq rows /\ IsFiniteSet(new) /\ IsFiniteSet(recent)
    BY <1>1, <1>2, FS_Subset
  <1>4. Unpinned(new, w) = kept
    <2>1. ASSUME NEW row PROVE row \in Unpinned(new, w) <=> row \in kept
      BY <1>1 DEF Unpinned, RowsOf
    <2> QED
      BY <2>1
  <1>5. ASSUME NEW v, v # w PROVE Unpinned(new, v) = Unpinned(rows, v)
    <2>1. ASSUME NEW row PROVE row \in Unpinned(new, v) <=> row \in Unpinned(rows, v)
      BY <1>1, <1>5 DEF Unpinned, RowsOf
    <2> QED
      BY <2>1
  <1>6. /\ Cardinality(recent) \in Nat /\ Cardinality(kept) \in Nat /\ KeepCount \in Nat
        /\ KeepTime \in Nat
    BY <1>2, <1>3, FS_Subset, FS_CardinalityType, RetentionAssumption
  <1>7. Cardinality(kept) <= KeepCount
    BY <1>1, <1>6
  <1>8. ASSUME NEW row \in rows \ new
        PROVE  /\ row \in Unpinned(rows, w)
               /\ \/ row.at < now - KeepTime
                  \/ KeepCount <= Cardinality({other \in Unpinned(new, w) : other.at >= row.at})
    <2>1. row \in Unpinned(rows, w) /\ row \notin kept
      BY <1>1, <1>8
    <2>2. row.at \in Nat /\ \A other \in kept : other.at \in Nat
      BY <1>2, <1>8 DEF HistoryRow
    <2>3. CASE row \in recent
      <3>1. kept # recent
        BY <2>1, <2>3
      <3>2. Cardinality(kept) # Cardinality(recent)
        BY <1>2, <1>3, <3>1, FS_Subset
      <3>3. Cardinality(kept) = KeepCount
        BY <1>1, <3>2
      <3>4. {other \in Unpinned(new, w) : other.at >= row.at} = kept
        BY <1>1, <1>4, <2>1, <2>2, <2>3
      <3>5. KeepCount <= Cardinality({other \in Unpinned(new, w) : other.at >= row.at})
        <4>1. KeepCount <= Cardinality(kept)
          BY <1>6, <3>3
        <4> QED
          BY <3>4, <4>1
      <3> QED
        BY <2>1, <3>5
    <2>4. CASE row \notin recent
      BY <1>6, <2>1, <2>2, <2>4
    <2> QED
      BY <2>3, <2>4
  <1> QED
    BY <1>3, <1>4, <1>5, <1>7, <1>8

\* A step keeps HistoryInv.
LEMMA HistoryStep == HistoryInv /\ [HistoryNext]_historyVars => HistoryInv'
  <1> SUFFICES ASSUME HistoryInv, [HistoryNext]_historyVars
               PROVE  HistoryInv'
    OBVIOUS
  <1> USE DEF HistoryInv, HistoryTypeOK
  <1>1. ASSUME NEW e \in Executions, Observe(e)
        PROVE  HistoryInv'
    <2>1. [of |-> e, at |-> time] \in Entry
      BY DEF Entry
    <2>2. HistoryIsBounded'
      BY <1>1 DEF Observe, HistoryIsBounded
    <2> QED
      BY <1>1, <2>1, <2>2 DEF Observe
  <1>2. ASSUME NEW entry \in waiting, RecordExecution(entry)
        PROVE  HistoryInv'
    <2> DEFINE w == HomeOf[entry.of]
               row == [of |-> entry.of, at |-> entry.at, pinned |-> FALSE]
               rows == history \union {row}
    <2>0. waiting' = waiting \ {entry} /\ UNCHANGED <<observed, disabled, homes, time>>
      BY <1>2 DEF RecordExecution
    <2>1. entry.of \in Executions /\ entry.at \in Nat /\ entry.of \in observed
      BY DEF Entry
    <2>2. row \in HistoryRow /\ row.of = entry.of /\ row.pinned = FALSE
      BY <2>1 DEF HistoryRow
    <2>3. rows \in SUBSET HistoryRow /\ IsFiniteSet(rows)
      BY <2>2, FS_AddElement
    <2>4. CASE UNCHANGED history
      <3>1. HistoryIsBounded'
        BY <2>4 DEF HistoryIsBounded
      <3> QED
        BY <2>0, <2>4, <3>1
    <2>5. CASE w \in homes \ disabled /\ history' \in Cleaned(rows, w, entry.at)
      <3> HIDE DEF w, row, rows
      <3>1. /\ history' \subseteq rows /\ IsFiniteSet(history')
            /\ Cardinality(Unpinned(history', w)) <= KeepCount
            /\ \A v : v # w => Unpinned(history', v) = Unpinned(rows, v)
        BY <2>1, <2>3, <2>5, CleanedLemma
      <3>2. ASSUME NEW v \in Homes PROVE Cardinality(Unpinned(history', v)) <= KeepCount
        <4>1. CASE v = w
          BY <3>1, <4>1
        <4>2. CASE v # w
          <5>1. Unpinned(rows, v) = Unpinned(history, v)
            BY <2>2, <4>2 DEF Unpinned, RowsOf, rows, w
          <5> QED
            BY <3>1, <4>2, <5>1 DEF HistoryIsBounded
        <4> QED
          BY <4>1, <4>2
      <3>3. HistoryIsBounded'
        BY <3>2 DEF HistoryIsBounded
      <3>4. \A r \in history' : r \in history \/ r = row
        BY <3>1 DEF rows
      <3>5. HistoryTypeOK'
        BY <2>0, <2>3, <3>1
      <3>6. \A r \in history' : r.of \in observed' /\ HomeOf[r.of] \in homes'
        BY <2>0, <2>1, <2>2, <2>5, <3>4 DEF w
      <3>7. \A r \in history : r.of # entry.of
        OBVIOUS
      <3>8. \A r, other \in history' : r.of = other.of => r = other
        BY <2>2, <3>4, <3>7
      <3>9. \A r \in history', e \in waiting' : r.of # e.of
        BY <2>0, <2>2, <3>4
      <3> QED
        BY <2>0, <3>1, <3>3, <3>5, <3>6, <3>8, <3>9
    <2> QED
      BY <1>2, <2>4, <2>5 DEF RecordExecution
  <1>3. ASSUME NEW row \in history, NEW pinned \in BOOLEAN, SetPinned(row, pinned)
        PROVE  HistoryInv'
    <2> DEFINE w == HomeOf[row.of]
               other == [row EXCEPT !.pinned = pinned]
               rows == (history \ {row}) \union {other}
    <2>0. /\ history' \in Cleaned(rows, w, time)
          /\ UNCHANGED <<observed, waiting, disabled, homes, time>>
      BY <1>3 DEF SetPinned
    <2>1. other \in HistoryRow /\ other.of = row.of
      BY DEF HistoryRow
    <2>2. rows \in SUBSET HistoryRow /\ IsFiniteSet(rows)
      <3>1. IsFiniteSet(history \ {row})
        BY FS_Subset
      <3> QED
        BY <2>1, <3>1, FS_AddElement
    <2> HIDE DEF w, other, rows
    <2>3. /\ history' \subseteq rows /\ IsFiniteSet(history')
          /\ Cardinality(Unpinned(history', w)) <= KeepCount
          /\ \A v : v # w => Unpinned(history', v) = Unpinned(rows, v)
      BY <2>0, <2>2, CleanedLemma
    <2>4. ASSUME NEW v \in Homes PROVE Cardinality(Unpinned(history', v)) <= KeepCount
      <3>1. CASE v = w
        BY <2>3, <3>1
      <3>2. CASE v # w
        <4>1. Unpinned(rows, v) = Unpinned(history, v)
          BY <2>1, <3>2 DEF Unpinned, RowsOf, rows, w
        <4> QED
          BY <2>3, <3>2, <4>1 DEF HistoryIsBounded
      <3> QED
        BY <3>1, <3>2
    <2>5. HistoryIsBounded'
      BY <2>4 DEF HistoryIsBounded
    <2>6. \A r \in history' : \/ r \in history /\ r # row
                             \/ r = other
      BY <2>3 DEF rows
    <2>7. HistoryTypeOK'
      BY <2>0, <2>2, <2>3
    <2>8. \A r \in history' : r.of \in observed /\ HomeOf[r.of] \in homes
      BY <2>1, <2>6
    <2>9. \A r, s \in history' : r.of = s.of => r = s
      BY <2>1, <2>6
    <2>10. \A r \in history', e \in waiting : r.of # e.of
      BY <2>1, <2>6
    <2> QED
      BY <2>0, <2>3, <2>5, <2>7, <2>8, <2>9, <2>10
  <1>4. ASSUME NEW w \in Homes, DropHome(w)
        PROVE  HistoryInv'
    <2>1. history' \subseteq history /\ \A row \in history' : HomeOf[row.of] # w
      BY <1>4 DEF DropHome, RowsOf
    <2>2. IsFiniteSet(history')
      BY <2>1, FS_Subset
    <2>3. ASSUME NEW v \in Homes PROVE Cardinality(Unpinned(history', v)) <= KeepCount
      <3>1. /\ Unpinned(history', v) \subseteq Unpinned(history, v)
            /\ Unpinned(history, v) \subseteq history
        BY <2>1 DEF Unpinned, RowsOf
      <3>2. IsFiniteSet(Unpinned(history, v))
        BY <3>1, FS_Subset
      <3>3. /\ Cardinality(Unpinned(history', v)) <= Cardinality(Unpinned(history, v))
            /\ Cardinality(Unpinned(history', v)) \in Nat
            /\ Cardinality(Unpinned(history, v)) \in Nat
        BY <3>1, <3>2, FS_Subset, FS_CardinalityType
      <3>4. Cardinality(Unpinned(history, v)) <= KeepCount /\ KeepCount \in Nat
        BY RetentionAssumption DEF HistoryIsBounded
      <3> QED
        BY <3>3, <3>4
    <2>4. HistoryIsBounded'
      BY <2>3 DEF HistoryIsBounded
    <2> QED
      BY <1>4, <2>1, <2>2, <2>4 DEF DropHome
  <1>5. ASSUME NEW w \in Homes, NEW off \in BOOLEAN, SetDisabled(w, off)
        PROVE  HistoryInv'
    <2>1. HistoryIsBounded'
      BY <1>5 DEF SetDisabled, HistoryIsBounded
    <2> QED
      BY <1>5, <2>1 DEF SetDisabled
  <1>6. CASE HistoryTick
    <2>1. HistoryIsBounded'
      BY <1>6 DEF HistoryTick, HistoryIsBounded
    <2>2. time' \in Nat /\ \A e \in waiting : e.at <= time'
      BY <1>6 DEF HistoryTick, Entry
    <2> QED
      BY <1>6, <2>1, <2>2 DEF HistoryTick
  <1>7. CASE UNCHANGED historyVars
    <2>1. HistoryIsBounded'
      BY <1>7 DEF historyVars, HistoryIsBounded
    <2> QED
      BY <1>7, <2>1 DEF historyVars
  <1> QED
    BY <1>1, <1>2, <1>3, <1>4, <1>5, <1>6, <1>7 DEF HistoryNext

LEMMA RecordsOnce == HistoryInv => OneRecordEach
  <1> SUFFICES ASSUME HistoryInv PROVE OneRecordEach
    OBVIOUS
  <1> DEFINE made == {[of |-> e.of, at |-> e.at, pinned |-> FALSE] : e \in waiting}
  <1>1. \A r \in made : \E e \in waiting : r = [of |-> e.of, at |-> e.at, pinned |-> FALSE]
    OBVIOUS
  <1> HIDE DEF made
  <1>2. ASSUME NEW r \in history \union made, NEW s \in history \union made, r.of = s.of
        PROVE  r = s
    <2>1. CASE r \in history /\ s \in history
      BY <1>2, <2>1 DEF HistoryInv
    <2>2. CASE r \in made /\ s \in history
      BY <1>1, <1>2, <2>2 DEF HistoryInv
    <2>3. CASE r \in history /\ s \in made
      BY <1>1, <1>2, <2>3 DEF HistoryInv
    <2>4. CASE r \in made /\ s \in made
      <3>1. PICK e \in waiting : r = [of |-> e.of, at |-> e.at, pinned |-> FALSE]
        BY <1>1, <2>4
      <3>2. PICK f \in waiting : s = [of |-> f.of, at |-> f.at, pinned |-> FALSE]
        BY <1>1, <2>4
      <3>3. e = f
        BY <1>2, <3>1, <3>2 DEF HistoryInv
      <3> QED
        BY <3>1, <3>2, <3>3
    <2> QED
      BY <2>1, <2>2, <2>3, <2>4
  <1> QED
    BY <1>2 DEF OneRecordEach, HistoryInv, made

\* Of a record that goes it is known why.
LEMMA OldRecordStep ==
  ASSUME HistoryInv, [HistoryNext]_historyVars, NEW row \in history,
         HomeOf[row.of] \in homes', \A other \in history' : other.of # row.of
  PROVE  /\ row.pinned => \E unpin \in BOOLEAN : SetPinned(row, unpin)
         /\ \/ row.at < time - KeepTime
            \/ KeepCount <= Cardinality({other \in Unpinned(history', HomeOf[row.of]) :
                                            other.at >= row.at})
  <1>0. /\ row \in HistoryRow /\ row.at \in Nat /\ row.pinned \in BOOLEAN /\ row \notin history'
        /\ time \in Nat /\ KeepTime \in Nat
    BY RetentionAssumption DEF HistoryInv, HistoryTypeOK, HistoryRow
  <1>1. ASSUME NEW entry \in waiting, RecordExecution(entry)
        PROVE  /\ ~row.pinned
               /\ \/ row.at < time - KeepTime
                  \/ KeepCount <= Cardinality({other \in Unpinned(history', HomeOf[row.of]) :
                                                  other.at >= row.at})
    <2> DEFINE w == HomeOf[entry.of]
               made == [of |-> entry.of, at |-> entry.at, pinned |-> FALSE]
               rows == history \union {made}
    <2>1. entry.of \in Executions /\ entry.at \in Nat /\ entry.at <= time
      BY DEF HistoryInv, HistoryTypeOK, Entry
    <2>2. rows \in SUBSET HistoryRow /\ IsFiniteSet(rows)
      <3>1. made \in HistoryRow
        BY <2>1 DEF HistoryRow
      <3> QED
        BY <3>1, FS_AddElement DEF HistoryInv, HistoryTypeOK
    <2>3. history' \in Cleaned(rows, w, entry.at)
      BY <1>0, <1>1 DEF RecordExecution
    <2>4. row \in rows \ history'
      BY <1>0
    <2> HIDE DEF w, rows
    <2>5. /\ row \in Unpinned(rows, w)
          /\ \/ row.at < entry.at - KeepTime
             \/ KeepCount <= Cardinality({other \in Unpinned(history', w) : other.at >= row.at})
      BY <2>1, <2>2, <2>3, <2>4, CleanedLemma
    <2>6. HomeOf[row.of] = w /\ ~row.pinned
      BY <2>5 DEF Unpinned, RowsOf
    <2>7. row.at < entry.at - KeepTime => row.at < time - KeepTime
      BY <1>0, <2>1
    <2> QED
      BY <2>5, <2>6, <2>7
  <1>2. ASSUME NEW r \in history, NEW pinned \in BOOLEAN, SetPinned(r, pinned)
        PROVE  /\ row.pinned => r = row
               /\ \/ row.at < time - KeepTime
                  \/ KeepCount <= Cardinality({other \in Unpinned(history', HomeOf[row.of]) :
                                                  other.at >= row.at})
    <2> DEFINE w == HomeOf[r.of]
               set == [r EXCEPT !.pinned = pinned]
               rows == (history \ {r}) \union {set}
    <2>1. history' \in Cleaned(rows, w, time)
      BY <1>2 DEF SetPinned
    <2>2. r \in HistoryRow /\ set \in HistoryRow /\ set.of = r.of /\ set.at = r.at
      BY DEF HistoryInv, HistoryTypeOK, HistoryRow
    <2>3. rows \in SUBSET HistoryRow /\ IsFiniteSet(rows)
      <3>1. IsFiniteSet(history \ {r})
        BY FS_Subset DEF HistoryInv
      <3> QED
        BY <2>2, <3>1, FS_AddElement DEF HistoryInv, HistoryTypeOK
    <2> DEFINE gone == IF r = row THEN set ELSE row
    <2>4. gone \in rows \ history' /\ gone.at = row.at /\ gone.of = row.of
      BY <1>0, <2>2
    <2>5. r # row => gone = row
      OBVIOUS
    <2> HIDE DEF w, set, rows, gone
    <2>6. /\ gone \in Unpinned(rows, w)
          /\ \/ gone.at < time - KeepTime
             \/ KeepCount <= Cardinality({other \in Unpinned(history', w) : other.at >= gone.at})
      BY <1>0, <2>1, <2>3, <2>4, CleanedLemma
    <2>7. HomeOf[row.of] = w /\ ~gone.pinned
      BY <2>4, <2>6 DEF Unpinned, RowsOf
    <2> QED
      BY <2>4, <2>5, <2>6, <2>7
  <1>3. ASSUME NEW w \in Homes, DropHome(w)
        PROVE  FALSE
    BY <1>0, <1>3 DEF DropHome, RowsOf
  <1>4. history' # history
    BY <1>0
  <1> QED
    BY <1>1, <1>2, <1>3, <1>4 DEF HistoryNext, Observe, SetDisabled, HistoryTick, historyVars

\* However records are made, pinned, unpinned and inserted, in whatever order: an
\* execution has one record, no more unpinned ones than the limit are kept, and one
\* that goes was old, had enough newer ones beside it, or lost its workspace.
THEOREM HistoryKeepsItsPromise == HistorySpec => HistoryCorrect
  <1>1. HistoryInv => HistoryTypeOK /\ HistoryIsBounded /\ OneRecordEach
    BY RecordsOnce DEF HistoryInv
  <1>2. HistoryInv /\ [HistoryNext]_historyVars =>
          [\A row \in history :
             LET w == HomeOf[row.of] IN
               w \in homes' /\ (\A other \in history' : other.of # row.of) =>
                 /\ row.pinned => \E unpin \in BOOLEAN : SetPinned(row, unpin)
                 /\ \/ row.at < time - KeepTime
                    \/ KeepCount <= Cardinality({other \in Unpinned(history', w) :
                                                    other.at >= row.at})]_historyVars
    BY OldRecordStep
  <1> QED
    BY <1>1, <1>2, HistoryInitial, HistoryStep, PTL
       DEF HistorySpec, HistoryCorrect, OnlyOldRecordsGo

-----------------------------------------------------------------------------
(* Importing documents *)

CopiesOf(folders, s) == {f \in ImportIds : folders[f] # Missing /\ folders[f].source = s}

\* A root folder that a record names is of the source of the record, and no two
\* environments refer to the same secret.
ImportInv ==
  /\ ImportTypeOK
  /\ \A s \in Sources : /\ IsFiniteSet(CopiesOf(rootFolders, s))
                        /\ Cardinality(CopiesOf(rootFolders, s)) = wanted[s]
  /\ \A i \in DOMAIN imports : rootFolders[imports[i].folder] # Missing =>
       rootFolders[imports[i].folder].source = imports[i].source
  /\ \A e, g \in Present : e # g => environments[e].refs \intersect environments[g].refs = {}
  /\ ImportedVariablesResolve /\ OnlySpilledSecretsStay

\* What the constants and the rows are.
LEMMA ImportConstants ==
  /\ Missing \notin ImportIds /\ Missing \notin ImportEnvs /\ Missing \notin Documents
  /\ Missing # OwnFolder /\ Missing \notin Environment
  /\ OwnFolder.source \notin Sources /\ OwnFolder \notin Documents
  /\ \A doc \in Documents : doc.source \in Sources /\ doc.source # "user" /\ doc # Missing
  /\ \A doc \in Documents : doc.env # Missing => doc.env \in EnvNames
  BY DocumentsAssumption, MissingAssumption, RowsAssumption
  DEF OwnFolder, Sources, EnvNames

\* Natural numbers have a least one.
LEMMA NatMin ==
  ASSUME NEW T \in SUBSET Nat, T # {}
  PROVE  \E m \in T : \A n \in T : m <= n
  <1> DEFINE Less == {ss \in Nat \X Nat : ss[1] < ss[2]}
  <1>0. IsWellFoundedOn(Less, Nat)
    BY NatLessThanWellFounded DEF OpToRel
  <1>1. \A n, k \in Nat : n < k => <<n, k>> \in Less
    OBVIOUS
  <1> HIDE DEF Less
  <1>1a. \E m \in T : \A n \in T : ~ (<<n, m>> \in Less)
    BY <1>0, WFMin
  <1>2. PICK m \in T : \A n \in T : ~ (<<n, m>> \in Less)
    BY <1>1a
  <1>3. ASSUME NEW n \in T PROVE m <= n
    <2>1. m \in Nat /\ n \in Nat
      OBVIOUS
    <2>2. ~ (n < m)
      BY <1>1, <1>2, <2>1
    <2> QED
      BY <2>1, <2>2
  <1> QED
    BY <1>3

\* The latest import is one of the source.
LEMMA LatestLemma ==
  ASSUME NEW s, imports \in Seq(ImportRecord), Latest(s) # 0
  PROVE  Latest(s) \in DOMAIN imports /\ imports[Latest(s)].source = s
  <1> DEFINE found == {i \in DOMAIN imports : imports[i].source = s}
             Last(i) == \A j \in found : j <= i
  <1>1. found # {} /\ Latest(s) = CHOOSE i \in found : Last(i)
    BY DEF Latest
  <1>2. \E i \in found : Last(i)
    <2>1. found \subseteq 1..Len(imports) /\ Len(imports) \in Nat
      OBVIOUS
    <2> DEFINE T == {Len(imports) - i : i \in found}
    <2>2. T \in SUBSET Nat /\ T # {}
      BY <1>1, <2>1
    <2> HIDE DEF T
    <2>3. \E m \in T : \A n \in T : m <= n
      BY <2>2, NatMin
    <2>4. PICK m \in T : \A n \in T : m <= n
      BY <2>3
    <2> HIDE DEF found
    <2>5. PICK i \in found : m = Len(imports) - i
      BY DEF T
    <2>6. \A j \in found : Len(imports) - i <= Len(imports) - j
      BY <2>4, <2>5 DEF T
    <2>7. \A j \in found : j \in Nat
      BY <2>1
    <2>8. \A j \in found : j <= i
      BY <2>1, <2>6, <2>7
    <2> QED
      BY <2>8
  <1> HIDE DEF Last
  <1>3. Latest(s) \in found
    BY <1>1, <1>2
  <1> QED
    BY <1>3

\* New references are nobody's.
LEMMA NewSecretsLemma ==
  ASSUME NEW doc \in Documents, NEW made \in NewSecrets(doc)
  PROVE  /\ made \subseteq ImportSecrets
         /\ made \intersect (stored \union ReferredIn(environments)) = {}
         /\ doc.env = Missing => made = {}
  <1>1. /\ made \in SUBSET (ImportSecrets \ (stored \union ReferredIn(environments)))
        /\ Cardinality(made) = IF doc.env = Missing THEN 0 ELSE doc.protected
    BY DEF NewSecrets, AnyOf
  <1>2. IsFiniteSet(made)
    BY <1>1, ImportSecretsAssumption, FS_Subset
  <1>3. Cardinality(made) = 0 <=> made = {}
    BY <1>2, FS_EmptySet
  <1> QED
    BY <1>1, <1>3

\* One folder comes or goes.
Put(folders, f, row) == [folders EXCEPT ![f] = row]

LEMMA CopyComes ==
  ASSUME NEW folders, NEW f \in ImportIds, NEW row, NEW s, DOMAIN folders = ImportIds,
         row # Missing, folders[f] = Missing, IsFiniteSet(CopiesOf(folders, s))
  PROVE  /\ IsFiniteSet(CopiesOf(Put(folders, f, row), s))
         /\ row.source = s =>
              Cardinality(CopiesOf(Put(folders, f, row), s)) = Cardinality(CopiesOf(folders, s)) + 1
         /\ row.source # s => CopiesOf(Put(folders, f, row), s) = CopiesOf(folders, s)
  <1> DEFINE now == [folders EXCEPT ![f] = row]
  <1>1. f \notin CopiesOf(folders, s)
    BY DEF CopiesOf
  <1>2. row.source = s => CopiesOf(now, s) = CopiesOf(folders, s) \union {f}
    BY DEF CopiesOf
  <1>3. row.source # s => CopiesOf(now, s) = CopiesOf(folders, s)
    BY DEF CopiesOf
  <1> QED
    BY <1>1, <1>2, <1>3, FS_AddElement DEF Put

LEMMA CopyGoes ==
  ASSUME NEW folders, NEW f \in ImportIds, NEW s, DOMAIN folders = ImportIds,
         IsFiniteSet(CopiesOf(folders, s))
  PROVE  /\ IsFiniteSet(CopiesOf(Put(folders, f, Missing), s)) /\ Cardinality(CopiesOf(folders, s)) \in Nat
         /\ (folders[f] # Missing /\ folders[f].source = s) =>
              /\ Cardinality(CopiesOf(Put(folders, f, Missing), s)) = Cardinality(CopiesOf(folders, s)) - 1
              /\ Cardinality(CopiesOf(folders, s)) > 0
         /\ ~ (folders[f] # Missing /\ folders[f].source = s) =>
              CopiesOf(Put(folders, f, Missing), s) = CopiesOf(folders, s)
  <1> DEFINE now == Put(folders, f, Missing)
             S == CopiesOf(folders, s)
  <1>1. Cardinality(S) \in Nat
    BY FS_CardinalityType
  <1>2. CASE folders[f] # Missing /\ folders[f].source = s
    <2>1. f \in S /\ CopiesOf(now, s) = S \ {f} /\ IsFiniteSet(S)
      BY <1>2 DEF CopiesOf, Put
    <2> HIDE DEF S
    <2>2. IsFiniteSet(S \ {f}) /\ Cardinality(S \ {f}) = Cardinality(S) - 1
      BY <2>1, FS_RemoveElement
    <2>3. Cardinality(S) # 0
      BY <2>1, FS_EmptySet
    <2>4. Cardinality(S) > 0
      BY <1>1, <2>3
    <2>5. /\ IsFiniteSet(CopiesOf(now, s))
          /\ Cardinality(CopiesOf(now, s)) = Cardinality(S) - 1
      BY <2>1, <2>2
    <2> QED
      BY <1>1, <1>2, <2>4, <2>5 DEF S
  <1>3. CASE ~ (folders[f] # Missing /\ folders[f].source = s)
    <2>1. CopiesOf(now, s) = S
      BY <1>3 DEF CopiesOf, Put
    <2> QED
      BY <1>1, <1>3, <2>1
  <1> QED
    BY <1>2, <1>3

\* What a transaction that makes a document leaves behind.
LEMMA InsertedLemma ==
  ASSUME ImportInv, NEW doc \in Documents, NEW made \in NewSecrets(doc),
         NEW folders \in [ImportIds -> Documents \union {OwnFolder, Missing}],
         NEW envs \in [ImportEnvs -> Environment \union {Missing}],
         \A f \in ImportIds : folders[f] # Missing => folders[f] = rootFolders[f],
         \A e \in ImportEnvs : envs[e] # Missing => envs[e] = environments[e],
         \A s \in Sources : IsFiniteSet(CopiesOf(folders, s)),
         Inserted(doc, made, folders, envs)
  PROVE  /\ rootFolders' \in [ImportIds -> Documents \union {OwnFolder, Missing}]
         /\ environments' \in [ImportEnvs -> Environment \union {Missing}]
         /\ imports' \in Seq(ImportRecord)
         /\ \A s \in Sources :
              /\ IsFiniteSet(CopiesOf(rootFolders', s))
              /\ Cardinality(CopiesOf(rootFolders', s)) =
                   IF doc.source = s THEN Cardinality(CopiesOf(folders, s)) + 1
                   ELSE Cardinality(CopiesOf(folders, s))
         /\ \A i \in DOMAIN imports' : rootFolders'[imports'[i].folder] # Missing =>
              rootFolders'[imports'[i].folder].source = imports'[i].source
         /\ \A e, g \in Present' : e # g =>
              environments'[e].refs \intersect environments'[g].refs = {}
         /\ ReferredIn(environments') = ReferredIn(envs) \union made
         /\ \A e \in ImportEnvs : envs[e] # Missing => environments'[e] # Missing
         /\ \A f \in FoldersThere : rootFolders'[f] = folders[f]
         /\ \A e \in Present : environments'[e] = envs[e]
  <1> USE DEF ImportTypeOK
  <1>0. ImportTypeOK
    BY DEF ImportInv
  <1>1. PICK f \in NewFolders, e \in IF doc.env = Missing THEN {Missing} ELSE AnyOf(NewEnvs) :
          /\ rootFolders' = [folders EXCEPT ![f] = doc]
          /\ environments' = [x \in ImportEnvs |->
               IF x = e THEN [name |-> doc.env, refs |-> made] ELSE envs[x]]
          /\ imports' = Append(imports, [source |-> doc.source, folder |-> f, env |-> e])
    BY DEF Inserted, AnyOf
  <1> DEFINE row == [name |-> doc.env, refs |-> made]
             rec == [source |-> doc.source, folder |-> f, env |-> e]
  <1>2. f \in ImportIds /\ rootFolders[f] = Missing /\ f \notin Recorded
    BY <1>1 DEF NewFolders, FoldersThere
  <1>3. \/ doc.env = Missing /\ e = Missing /\ e \notin ImportEnvs /\ made = {}
        \/ doc.env # Missing /\ e \in ImportEnvs /\ environments[e] = Missing
    <2>1. CASE doc.env = Missing
      BY <1>1, <2>1, NewSecretsLemma, MissingAssumption
    <2>2. CASE doc.env # Missing
      <3>1. e \in NewEnvs
        BY <1>1, <2>2 DEF AnyOf
      <3> QED
        BY <2>2, <3>1 DEF NewEnvs, Present
    <2> QED
      BY <2>1, <2>2
  <1>4. folders[f] = Missing /\ (e \in ImportEnvs => envs[e] = Missing)
    BY <1>2, <1>3
  <1>5. made \subseteq ImportSecrets /\ made \intersect ReferredIn(environments) = {}
    BY NewSecretsLemma
  <1>6. e \in ImportEnvs => row \in Environment /\ row # Missing
    BY <1>3, <1>5, ImportConstants DEF Environment
  <1>7. rootFolders' \in [ImportIds -> Documents \union {OwnFolder, Missing}]
    BY <1>1
  <1>8. environments' \in [ImportEnvs -> Environment \union {Missing}]
    BY <1>1, <1>6
  <1>9. rec \in ImportRecord
    BY <1>2, <1>3, ImportConstants DEF ImportRecord
  <1>10. imports' \in Seq(ImportRecord)
    BY <1>0, <1>1, <1>9
  <1>11. ASSUME NEW s \in Sources
         PROVE  /\ IsFiniteSet(CopiesOf(rootFolders', s))
                /\ Cardinality(CopiesOf(rootFolders', s)) =
                     IF doc.source = s THEN Cardinality(CopiesOf(folders, s)) + 1
                     ELSE Cardinality(CopiesOf(folders, s))
    <2>1. doc # Missing
      BY ImportConstants
    <2>2. DOMAIN folders = ImportIds
      OBVIOUS
    <2>3. IsFiniteSet(CopiesOf(folders, s))
      OBVIOUS
    <2>4. f \in ImportIds /\ folders[f] = Missing
      BY <1>2, <1>4
    <2>5. rootFolders' = Put(folders, f, doc)
      BY <1>1 DEF Put
    <2> QED
      BY ONLY <2>1, <2>2, <2>3, <2>4, <2>5, CopyComes
  <1>12. ASSUME NEW i \in DOMAIN imports', rootFolders'[imports'[i].folder] # Missing
         PROVE  rootFolders'[imports'[i].folder].source = imports'[i].source
    <2>1. CASE i \in DOMAIN imports
      <3>1. imports'[i] = imports[i] /\ imports[i] \in ImportRecord
        BY <1>0, <1>1, <2>1
      <3>2. imports[i].folder # f /\ imports[i].folder \in ImportIds
        BY <1>2, <2>1, <3>1 DEF Recorded, ImportRecord
      <3>3. rootFolders'[imports[i].folder] = folders[imports[i].folder]
        BY <1>1, <3>2
      <3>4. rootFolders'[imports[i].folder] = rootFolders[imports[i].folder]
        BY <1>12, <3>1, <3>2, <3>3
      <3> QED
        BY <1>12, <2>1, <3>1, <3>4 DEF ImportInv
    <2>2. CASE i \notin DOMAIN imports
      <3>1. imports'[i] = rec
        BY <1>0, <1>1, <2>2
      <3> QED
        BY <1>1, <1>2, <3>1
    <2> QED
      BY <2>1, <2>2
  <1>13. \A x \in ImportEnvs : x # e => environments'[x] = envs[x]
    BY <1>1
  <1>14. e \in ImportEnvs => environments'[e] = row
    BY <1>1
  <1> HIDE DEF row
  <1>15. row.refs = made
    BY DEF row
  <1>16. \A x \in ImportEnvs : envs[x] # Missing => envs[x].refs \subseteq ReferredIn(environments)
    BY DEF ReferredIn
  <1>17. ASSUME NEW x \in Present', NEW g \in Present', x # g
         PROVE  environments'[x].refs \intersect environments'[g].refs = {}
    <2>0. x \in ImportEnvs /\ g \in ImportEnvs /\ environments'[x] # Missing /\ environments'[g] # Missing
      BY DEF Present
    <2>1. CASE x # e /\ g # e
      <3>1. environments'[x] = environments[x] /\ environments'[g] = environments[g]
        BY <1>13, <2>0, <2>1
      <3>2. x \in Present /\ g \in Present
        BY <2>0, <3>1 DEF Present
      <3> QED
        BY <1>17, <3>1, <3>2 DEF ImportInv
    <2>2. CASE x = e
      <3>1. environments'[x].refs = made /\ environments'[g] = envs[g]
        BY <1>13, <1>14, <1>15, <1>17, <2>0, <2>2
      <3> QED
        BY <1>5, <1>16, <2>0, <3>1
    <2>3. CASE g = e
      <3>1. environments'[g].refs = made /\ environments'[x] = envs[x]
        BY <1>13, <1>14, <1>15, <1>17, <2>0, <2>3
      <3> QED
        BY <1>5, <1>16, <2>0, <3>1
    <2> QED
      BY <2>1, <2>2, <2>3
  <1>18. \A x \in ImportEnvs : envs[x] # Missing => environments'[x] = envs[x]
    BY <1>4, <1>13
  <1>19. ReferredIn(environments') = ReferredIn(envs) \union made
    <2>1. ASSUME NEW r \in ReferredIn(environments') PROVE r \in ReferredIn(envs) \union made
      <3>1. PICK x \in ImportEnvs : environments'[x] # Missing /\ r \in environments'[x].refs
        BY <2>1 DEF ReferredIn
      <3> QED
        BY <1>13, <1>14, <1>15, <3>1 DEF ReferredIn
    <2>2. ReferredIn(envs) \subseteq ReferredIn(environments')
      BY <1>18 DEF ReferredIn
    <2>3. made \subseteq ReferredIn(environments')
      BY <1>3, <1>6, <1>14, <1>15 DEF ReferredIn
    <2> QED
      BY <2>1, <2>2, <2>3
  <1>20. \A x \in FoldersThere : rootFolders'[x] = folders[x]
    BY <1>1, <1>2 DEF FoldersThere
  <1>21. \A x \in Present : environments'[x] = envs[x]
    BY <1>3, <1>13 DEF Present
  <1> QED
    BY <1>7, <1>8, <1>10, <1>11, <1>12, <1>17, <1>18, <1>19, <1>20, <1>21

\* Only the store changes.
LEMMA StoreLemma ==
  ASSUME ImportInv, UNCHANGED <<tableVars, wanted>>,
         NEW more \in SUBSET ImportSecrets, stored' = stored \union more,
         NEW left \in SUBSET ImportSecrets, spilled' = spilled \union left,
         smooth' \in BOOLEAN, smooth' => smooth /\ more \subseteq left
  PROVE  ImportInv'
  <1> USE DEF tableVars
  <1>1. ImportTypeOK'
    BY DEF ImportInv, ImportTypeOK
  <1>2. \A s \in Sources : CopiesOf(rootFolders, s)' = CopiesOf(rootFolders, s)
    BY DEF CopiesOf
  <1>3. \A s \in Sources : /\ IsFiniteSet(CopiesOf(rootFolders, s)')
                           /\ Cardinality(CopiesOf(rootFolders, s)') = wanted'[s]
    BY <1>2 DEF ImportInv
  <1>4. Present' = Present /\ ReferredIn(environments)' = ReferredIn(environments)
    BY DEF Present, ReferredIn
  <1>5. \A e, g \in Present' : e # g => environments'[e].refs \intersect environments'[g].refs = {}
    BY <1>4 DEF ImportInv
  <1>6. ImportedVariablesResolve'
    BY <1>4 DEF ImportInv, ImportedVariablesResolve
  <1>7. OnlySpilledSecretsStay'
    BY <1>4 DEF ImportInv, OnlySpilledSecretsStay
  <1>8. \A i \in DOMAIN imports' : rootFolders'[imports'[i].folder] # Missing =>
          rootFolders'[imports'[i].folder].source = imports'[i].source
    BY DEF ImportInv
  <1> QED
    BY <1>1, <1>3, <1>5, <1>6, <1>7, <1>8 DEF ImportInv

\* The steps that end in the store alone.
LEMMA WriteFailsStep ==
  ASSUME ImportInv, NEW doc \in Documents, WriteFails(doc)
  PROVE  ImportInv'
  <1>0. PICK made \in NewSecrets(doc) : \E before \in SUBSET made :
          stored' = stored \union before /\ smooth' = FALSE /\ TablesStay /\ UNCHANGED spilled
    BY DEF WriteFails
  <1>1. PICK before \in SUBSET made :
          stored' = stored \union before /\ smooth' = FALSE /\ TablesStay /\ UNCHANGED spilled
    BY <1>0
  <1>2. before \in SUBSET ImportSecrets
    BY <1>1, NewSecretsLemma
  <1>3. {} \in SUBSET ImportSecrets /\ spilled' = spilled \union {}
    BY <1>1
  <1> QED
    BY <1>1, <1>2, <1>3, StoreLemma DEF TablesStay

LEMMA RolledBackStep ==
  ASSUME ImportInv, NEW doc \in Documents, NEW made \in NewSecrets(doc),
         RolledBack(made), TablesStay
  PROVE  ImportInv'
  <1>0. {} \in SUBSET ImportSecrets /\ smooth \in BOOLEAN
    BY DEF ImportInv, ImportTypeOK
  <1>1. CASE stored' = stored /\ UNCHANGED <<spilled, smooth>>
    <2>1. stored' = stored \union {} /\ spilled' = spilled \union {}
      BY <1>1
    <2> QED
      BY <1>0, <1>1, <2>1, StoreLemma DEF TablesStay
  <1>2. CASE /\ smooth' = FALSE /\ UNCHANGED spilled
             /\ \E stay \in SUBSET made : stay # {} /\ stored' = stored \union stay
    <2>1. PICK stay \in SUBSET made : stored' = stored \union stay
      BY <1>2
    <2>2. stay \in SUBSET ImportSecrets /\ spilled' = spilled \union {}
      BY <1>2, <2>1, NewSecretsLemma
    <2> QED
      BY <1>0, <1>2, <2>1, <2>2, StoreLemma DEF TablesStay
  <1> QED
    BY <1>1, <1>2 DEF RolledBack

LEMMA InterruptedStep ==
  ASSUME ImportInv, NEW doc \in Documents, Interrupted(doc)
  PROVE  ImportInv'
  <1>1. PICK made \in NewSecrets(doc) : stored' = stored \union made
    BY DEF Interrupted
  <1>2. made \in SUBSET ImportSecrets /\ {} \in SUBSET ImportSecrets
    BY NewSecretsLemma
  <1>3. smooth' = FALSE /\ spilled' = spilled \union {} /\ UNCHANGED <<tableVars, wanted>>
    BY DEF Interrupted
  <1> QED
    BY <1>1, <1>2, <1>3, StoreLemma

\* Importing anew.
LEMMA ImportStep ==
  ASSUME ImportInv, NEW doc \in Documents, Import(doc)
  PROVE  ImportInv'
  <1>1. CASE WriteFails(doc)
    BY <1>1, WriteFailsStep
  <1>2. ASSUME NEW made \in NewSecrets(doc), Written(doc, made),
               Inserted(doc, made, rootFolders, environments),
               wanted' = [wanted EXCEPT ![doc.source] = @ + 1],
               UNCHANGED <<chosen, spilled, smooth>>
        PROVE  ImportInv'
    <2>1. /\ rootFolders \in [ImportIds -> Documents \union {OwnFolder, Missing}]
          /\ environments \in [ImportEnvs -> Environment \union {Missing}]
          /\ \A s \in Sources : IsFiniteSet(CopiesOf(rootFolders, s))
      BY DEF ImportInv, ImportTypeOK
    <2>2. /\ rootFolders' \in [ImportIds -> Documents \union {OwnFolder, Missing}]
          /\ environments' \in [ImportEnvs -> Environment \union {Missing}]
          /\ imports' \in Seq(ImportRecord)
          /\ \A s \in Sources :
               /\ IsFiniteSet(CopiesOf(rootFolders', s))
               /\ Cardinality(CopiesOf(rootFolders', s)) =
                    IF doc.source = s THEN Cardinality(CopiesOf(rootFolders, s)) + 1
                    ELSE Cardinality(CopiesOf(rootFolders, s))
          /\ \A i \in DOMAIN imports' : rootFolders'[imports'[i].folder] # Missing =>
               rootFolders'[imports'[i].folder].source = imports'[i].source
          /\ \A e, g \in Present' : e # g =>
               environments'[e].refs \intersect environments'[g].refs = {}
          /\ ReferredIn(environments') = ReferredIn(environments) \union made
          /\ \A e \in ImportEnvs : environments[e] # Missing => environments'[e] # Missing
      BY <1>2, <2>1, InsertedLemma
    <2>3. doc.source \in Sources /\ wanted \in [Sources -> Nat]
      BY DEF Sources, ImportInv, ImportTypeOK
    <2>4. wanted' \in [Sources -> Nat]
      BY <1>2, <2>3
    <2>5. \A s \in Sources : /\ IsFiniteSet(CopiesOf(rootFolders', s))
                             /\ Cardinality(CopiesOf(rootFolders', s)) = wanted'[s]
      BY <1>2, <2>2, <2>3 DEF ImportInv
    <2>6. made \subseteq ImportSecrets
      BY NewSecretsLemma
    <2>7. ImportTypeOK'
      BY <1>2, <2>2, <2>4, <2>6 DEF ImportInv, ImportTypeOK, Written
    <2>8. ImportedVariablesResolve'
      BY <1>2, <2>2 DEF ImportInv, ImportedVariablesResolve, Written, Present
    <2>9. OnlySpilledSecretsStay'
      BY <1>2, <2>2 DEF ImportInv, OnlySpilledSecretsStay, Written
    <2> QED
      BY <2>2, <2>5, <2>7, <2>8, <2>9 DEF ImportInv
  <1>3. ASSUME NEW made \in NewSecrets(doc), RolledBack(made), TablesStay
        PROVE  ImportInv'
    BY <1>3, RolledBackStep
  <1> QED
    BY <1>1, <1>2, <1>3 DEF Import

\* What an update has taken away before it imports anew: the folder and the
\* environment of the record.
Taken(prior) == Put(rootFolders, prior.folder, Missing)
Spared(prior) == [e \in ImportEnvs |-> IF e = prior.env THEN Missing ELSE environments[e]]

\* The copy that goes was the only one that the record names.
LEMMA TakenLemma ==
  ASSUME ImportInv, NEW doc \in Documents, Latest(doc.source) # 0,
         NEW prior, prior = imports[Latest(doc.source)]
  PROVE  /\ prior \in ImportRecord /\ prior.folder \in ImportIds /\ prior.source = doc.source
         /\ rootFolders[prior.folder] # Missing => rootFolders[prior.folder].source = doc.source
         /\ Taken(prior) \in [ImportIds -> Documents \union {OwnFolder, Missing}]
         /\ Spared(prior) \in [ImportEnvs -> Environment \union {Missing}]
         /\ \A f \in ImportIds : Taken(prior)[f] # Missing => Taken(prior)[f] = rootFolders[f]
         /\ \A e \in ImportEnvs : Spared(prior)[e] # Missing => Spared(prior)[e] = environments[e]
         /\ \A s \in Sources :
              /\ IsFiniteSet(CopiesOf(Taken(prior), s))
              /\ Cardinality(CopiesOf(rootFolders, s)) \in Nat
              /\ (rootFolders[prior.folder] # Missing /\ s = doc.source) =>
                   Cardinality(CopiesOf(Taken(prior), s)) = Cardinality(CopiesOf(rootFolders, s)) - 1
              /\ ~ (rootFolders[prior.folder] # Missing /\ s = doc.source) =>
                   CopiesOf(Taken(prior), s) = CopiesOf(rootFolders, s)
  <1>0. ImportTypeOK
    BY DEF ImportInv
  <1>1. Latest(doc.source) \in DOMAIN imports /\ prior.source = doc.source
    BY <1>0, LatestLemma DEF ImportTypeOK
  <1>2. prior \in ImportRecord
    BY <1>0, <1>1 DEF ImportTypeOK
  <1>3. prior.folder \in ImportIds
    BY <1>2 DEF ImportRecord
  <1>4. rootFolders[prior.folder] # Missing => rootFolders[prior.folder].source = doc.source
    BY <1>1 DEF ImportInv
  <1>5. Taken(prior) \in [ImportIds -> Documents \union {OwnFolder, Missing}]
    BY <1>0, <1>3 DEF Taken, Put, ImportTypeOK
  <1>6. Spared(prior) \in [ImportEnvs -> Environment \union {Missing}]
    BY <1>0 DEF Spared, ImportTypeOK
  <1>7. \A f \in ImportIds : Taken(prior)[f] # Missing => Taken(prior)[f] = rootFolders[f]
    BY <1>0, <1>3 DEF Taken, Put, ImportTypeOK
  <1>8. \A e \in ImportEnvs : Spared(prior)[e] # Missing => Spared(prior)[e] = environments[e]
    BY DEF Spared
  <1>9. ASSUME NEW s \in Sources
        PROVE  /\ IsFiniteSet(CopiesOf(Taken(prior), s))
               /\ Cardinality(CopiesOf(rootFolders, s)) \in Nat
               /\ (rootFolders[prior.folder] # Missing /\ s = doc.source) =>
                    Cardinality(CopiesOf(Taken(prior), s)) = Cardinality(CopiesOf(rootFolders, s)) - 1
               /\ ~ (rootFolders[prior.folder] # Missing /\ s = doc.source) =>
                    CopiesOf(Taken(prior), s) = CopiesOf(rootFolders, s)
    <2>1. DOMAIN rootFolders = ImportIds /\ IsFiniteSet(CopiesOf(rootFolders, s))
      BY <1>0 DEF ImportInv, ImportTypeOK
    <2>2. /\ IsFiniteSet(CopiesOf(Taken(prior), s))
          /\ Cardinality(CopiesOf(rootFolders, s)) \in Nat
          /\ (rootFolders[prior.folder] # Missing /\ rootFolders[prior.folder].source = s) =>
               Cardinality(CopiesOf(Taken(prior), s)) = Cardinality(CopiesOf(rootFolders, s)) - 1
          /\ ~ (rootFolders[prior.folder] # Missing /\ rootFolders[prior.folder].source = s) =>
               CopiesOf(Taken(prior), s) = CopiesOf(rootFolders, s)
      BY <1>3, <2>1, CopyGoes DEF Taken
    <2> QED
      BY <1>4, <2>2
  <1> QED
    BY <1>1, <1>2, <1>3, <1>4, <1>5, <1>6, <1>7, <1>8, <1>9

\* The steps of an update that replaces a copy.
LEMMA ReplacedLemma ==
  ASSUME ImportInv, NEW doc \in Documents, NEW made \in NewSecrets(doc),
         NEW prior, Replaced(doc, made, prior)
  PROVE  /\ Written(doc, made) /\ Deselected(prior)
         /\ Inserted(doc, made, Taken(prior), Spared(prior))
         /\ spilled' = spilled \union (ReferredIn(environments) \ ReferredIn(Spared(prior)))
  BY Zenon DEF Replaced, Taken, Spared, Put

LEMMA ReplacedStep ==
  ASSUME ImportInv, NEW doc \in Documents, NEW made \in NewSecrets(doc),
         Latest(doc.source) # 0, NEW prior, prior = imports[Latest(doc.source)],
         Replaced(doc, made, prior), UNCHANGED smooth,
         IF rootFolders[prior.folder] = Missing
         THEN wanted' = [wanted EXCEPT ![doc.source] = @ + 1] ELSE UNCHANGED wanted
  PROVE  ImportInv'
  <1> DEFINE folders == Taken(prior)
             envs == Spared(prior)
  <1>0. ImportTypeOK
    BY DEF ImportInv
  <1>1. /\ prior \in ImportRecord
        /\ folders \in [ImportIds -> Documents \union {OwnFolder, Missing}]
        /\ envs \in [ImportEnvs -> Environment \union {Missing}]
        /\ \A f \in ImportIds : folders[f] # Missing => folders[f] = rootFolders[f]
        /\ \A e \in ImportEnvs : envs[e] # Missing => envs[e] = environments[e]
        /\ \A s \in Sources :
             /\ IsFiniteSet(CopiesOf(folders, s))
             /\ Cardinality(CopiesOf(rootFolders, s)) \in Nat
             /\ (rootFolders[prior.folder] # Missing /\ s = doc.source) =>
                  Cardinality(CopiesOf(folders, s)) = Cardinality(CopiesOf(rootFolders, s)) - 1
             /\ ~ (rootFolders[prior.folder] # Missing /\ s = doc.source) =>
                  CopiesOf(folders, s) = CopiesOf(rootFolders, s)
    BY TakenLemma
  <1>2. /\ Written(doc, made) /\ Deselected(prior) /\ Inserted(doc, made, folders, envs)
        /\ spilled' = spilled \union (ReferredIn(environments) \ ReferredIn(envs))
    BY ReplacedLemma
  <1>2a. \A e \in ImportEnvs : e # prior.env => envs[e] = environments[e]
    BY DEF Spared
  <1> HIDE DEF folders, envs
  <1>3. /\ rootFolders' \in [ImportIds -> Documents \union {OwnFolder, Missing}]
        /\ environments' \in [ImportEnvs -> Environment \union {Missing}]
        /\ imports' \in Seq(ImportRecord)
        /\ \A s \in Sources :
             /\ IsFiniteSet(CopiesOf(rootFolders', s))
             /\ Cardinality(CopiesOf(rootFolders', s)) =
                  IF doc.source = s THEN Cardinality(CopiesOf(folders, s)) + 1
                  ELSE Cardinality(CopiesOf(folders, s))
        /\ \A i \in DOMAIN imports' : rootFolders'[imports'[i].folder] # Missing =>
             rootFolders'[imports'[i].folder].source = imports'[i].source
        /\ \A e, g \in Present' : e # g =>
             environments'[e].refs \intersect environments'[g].refs = {}
        /\ ReferredIn(environments') = ReferredIn(envs) \union made
        /\ \A e \in ImportEnvs : envs[e] # Missing => environments'[e] # Missing
    BY <1>1, <1>2, InsertedLemma
  <1>4. doc.source \in Sources /\ wanted \in [Sources -> Nat]
    BY <1>0 DEF Sources, ImportTypeOK
  <1>5. wanted' \in [Sources -> Nat]
    BY <1>4
  <1>6. ASSUME NEW s \in Sources
        PROVE  /\ IsFiniteSet(CopiesOf(rootFolders', s))
               /\ Cardinality(CopiesOf(rootFolders', s)) = wanted'[s]
    <2>1. Cardinality(CopiesOf(rootFolders, s)) = wanted[s]
      BY DEF ImportInv
    <2>2. CASE rootFolders[prior.folder] = Missing
      BY <1>1, <1>3, <1>4, <2>1, <2>2
    <2>3. CASE rootFolders[prior.folder] # Missing
      BY <1>1, <1>3, <1>4, <2>1, <2>3
    <2> QED
      BY <2>2, <2>3
  <1>7. made \subseteq ImportSecrets /\ ReferredIn(environments) \subseteq stored
        /\ stored \subseteq ImportSecrets
    BY <1>0, NewSecretsLemma DEF ImportInv, ImportedVariablesResolve, ImportTypeOK
  <1>8. ReferredIn(envs) \subseteq ReferredIn(environments)
    BY <1>1 DEF ReferredIn
  <1>9. /\ chosen' \in ImportEnvs \union {Missing}
        /\ chosen' # Missing => chosen' \in Present /\ chosen' # prior.env
    BY <1>0, <1>2 DEF Deselected, ImportTypeOK, ImportInv, ImportedVariablesResolve
  <1>10. stored' = stored \union made
    BY <1>2 DEF Written
  <1>11. stored' \subseteq ImportSecrets /\ spilled' \subseteq ImportSecrets
    BY <1>0, <1>2, <1>7, <1>10 DEF ImportTypeOK
  <1>12. ImportTypeOK'
    BY <1>0, <1>3, <1>5, <1>9, <1>11 DEF ImportTypeOK
  <1>13. ImportedVariablesResolve'
    <2>1. ReferredIn(environments') \subseteq stored'
      BY <1>3, <1>7, <1>8, <1>10
    <2>2. chosen' # Missing => chosen' \in ImportEnvs /\ environments'[chosen'] # Missing
      BY <1>2a, <1>3, <1>9 DEF Present
    <2>3. chosen' # Missing => chosen' \in Present'
      BY <2>2 DEF Present
    <2> QED
      BY <2>1, <2>3 DEF ImportedVariablesResolve
  <1>14. OnlySpilledSecretsStay'
    <2>1. smooth => stored \subseteq ReferredIn(environments) \union spilled
      BY DEF ImportInv, OnlySpilledSecretsStay
    <2>2. smooth' => stored' \subseteq ReferredIn(environments') \union spilled'
      BY <1>2, <1>3, <1>10, <2>1
    <2> QED
      BY <2>2 DEF OnlySpilledSecretsStay
  <1> QED
    BY <1>3, <1>6, <1>12, <1>13, <1>14 DEF ImportInv

LEMMA UpdateStep ==
  ASSUME ImportInv, NEW doc \in Documents, Update(doc)
  PROVE  ImportInv'
  <1>1. CASE WriteFails(doc)
    BY <1>1, WriteFailsStep
  <1>2. ASSUME NEW made \in NewSecrets(doc),
               stored' = stored \union made, spilled' = spilled \union made,
               TablesStay, UNCHANGED smooth
        PROVE  ImportInv'
    <2>1. made \in SUBSET ImportSecrets /\ smooth \in BOOLEAN
      BY NewSecretsLemma DEF ImportInv, ImportTypeOK
    <2> QED
      BY <1>2, <2>1, StoreLemma DEF TablesStay
  <1>3. ASSUME NEW made \in NewSecrets(doc), Latest(doc.source) # 0,
               Replaced(doc, made, imports[Latest(doc.source)]),
               IF rootFolders[imports[Latest(doc.source)].folder] = Missing
               THEN wanted' = [wanted EXCEPT ![doc.source] = @ + 1] ELSE UNCHANGED wanted,
               UNCHANGED smooth
        PROVE  ImportInv'
    BY <1>3, ReplacedStep
  <1>4. ASSUME NEW made \in NewSecrets(doc), RolledBack(made), TablesStay
        PROVE  ImportInv'
    BY <1>4, RolledBackStep
  <1> QED
    BY <1>1, <1>2, <1>3, <1>4 DEF Update

\* The steps of the user.
LEMMA MakeFolderStep ==
  ASSUME ImportInv, NEW f \in ImportIds, MakeFolder(f)
  PROVE  ImportInv'
  <1>0. ImportTypeOK
    BY DEF ImportInv
  <1>1. /\ f \in NewFolders
        /\ rootFolders' = Put(rootFolders, f, OwnFolder)
        /\ UNCHANGED <<environments, chosen, imports, stored, wanted, spilled, smooth>>
    BY DEF MakeFolder, AnyOf, Put
  <1>2. rootFolders[f] = Missing /\ f \notin Recorded
    BY <1>1 DEF NewFolders, FoldersThere
  <1>3. DOMAIN rootFolders = ImportIds /\ OwnFolder # Missing
    BY <1>0, ImportConstants DEF ImportTypeOK
  <1>4. ImportTypeOK'
    BY <1>0, <1>1 DEF ImportTypeOK, Put
  <1>5. ASSUME NEW s \in Sources
        PROVE  /\ IsFiniteSet(CopiesOf(rootFolders', s))
               /\ Cardinality(CopiesOf(rootFolders', s)) = wanted'[s]
    <2>1. IsFiniteSet(CopiesOf(rootFolders, s)) /\ Cardinality(CopiesOf(rootFolders, s)) = wanted[s]
      BY DEF ImportInv
    <2>2. OwnFolder.source # s
      BY ImportConstants
    <2>3. IsFiniteSet(CopiesOf(rootFolders', s)) /\ CopiesOf(rootFolders', s) = CopiesOf(rootFolders, s)
      BY <1>1, <1>2, <1>3, <2>1, <2>2, CopyComes
    <2> QED
      BY <1>1, <2>1, <2>3
  <1>6. ASSUME NEW i \in DOMAIN imports', rootFolders'[imports'[i].folder] # Missing
        PROVE  rootFolders'[imports'[i].folder].source = imports'[i].source
    <2>0. imports' = imports /\ i \in DOMAIN imports
      BY <1>1
    <2>0a. imports[i] \in ImportRecord
      BY <1>0, <2>0 DEF ImportTypeOK
    <2>1. imports' = imports /\ imports[i].folder # f /\ imports[i].folder \in ImportIds
      BY <1>2, <2>0, <2>0a DEF Recorded, ImportRecord
    <2>2. rootFolders'[imports[i].folder] = rootFolders[imports[i].folder]
      BY <1>1, <1>3, <2>1 DEF Put
    <2> QED
      BY <1>6, <2>1, <2>2 DEF ImportInv
  <1>7. Present' = Present /\ ReferredIn(environments)' = ReferredIn(environments)
    BY <1>1 DEF Present, ReferredIn
  <1>8. \A e, g \in Present' : e # g => environments'[e].refs \intersect environments'[g].refs = {}
    BY <1>1, <1>7 DEF ImportInv
  <1>9. ImportedVariablesResolve' /\ OnlySpilledSecretsStay'
    BY <1>1, <1>7 DEF ImportInv, ImportedVariablesResolve, OnlySpilledSecretsStay
  <1> QED
    BY <1>4, <1>5, <1>6, <1>8, <1>9 DEF ImportInv

LEMMA DropFolderStep ==
  ASSUME ImportInv, NEW f \in ImportIds, DropFolder(f)
  PROVE  ImportInv'
  <1>0. ImportTypeOK
    BY DEF ImportInv
  <1>1. /\ rootFolders[f] # Missing
        /\ rootFolders' = Put(rootFolders, f, Missing)
        /\ wanted' = IF rootFolders[f] = OwnFolder THEN wanted
                     ELSE [wanted EXCEPT ![rootFolders[f].source] = @ - 1]
        /\ UNCHANGED <<environments, chosen, imports, stored, spilled, smooth>>
    BY DEF DropFolder, FoldersThere, Put
  <1>2. DOMAIN rootFolders = ImportIds /\ wanted \in [Sources -> Nat]
    BY <1>0 DEF ImportTypeOK
  <1>3. rootFolders[f] # OwnFolder => rootFolders[f] \in Documents /\ rootFolders[f].source \in Sources
    BY <1>0, <1>1, ImportConstants DEF ImportTypeOK
  <1>4. \A s \in Sources :
          /\ IsFiniteSet(CopiesOf(rootFolders, s)) /\ Cardinality(CopiesOf(rootFolders, s)) = wanted[s]
          /\ IsFiniteSet(CopiesOf(rootFolders', s))
          /\ rootFolders[f].source = s =>
               /\ Cardinality(CopiesOf(rootFolders', s)) = Cardinality(CopiesOf(rootFolders, s)) - 1
               /\ Cardinality(CopiesOf(rootFolders, s)) > 0
          /\ rootFolders[f].source # s =>
               Cardinality(CopiesOf(rootFolders', s)) = Cardinality(CopiesOf(rootFolders, s))
    BY <1>1, <1>2, CopyGoes DEF ImportInv
  <1>5. wanted' \in [Sources -> Nat] /\ \A s \in Sources : Cardinality(CopiesOf(rootFolders', s)) = wanted'[s]
    <2>1. CASE rootFolders[f] = OwnFolder
      <3>1. \A s \in Sources : rootFolders[f].source # s
        BY <2>1, ImportConstants
      <3> QED
        BY <1>1, <1>2, <1>4, <2>1, <3>1
    <2>2. CASE rootFolders[f] # OwnFolder
      <3> DEFINE t == rootFolders[f].source
      <3>1. t \in Sources /\ wanted' = [wanted EXCEPT ![t] = @ - 1]
        BY <1>1, <1>3, <2>2
      <3>2. \A s \in Sources :
              /\ Cardinality(CopiesOf(rootFolders, s)) = wanted[s]
              /\ t = s => /\ Cardinality(CopiesOf(rootFolders', s)) = Cardinality(CopiesOf(rootFolders, s)) - 1
                          /\ Cardinality(CopiesOf(rootFolders, s)) > 0
              /\ t # s => Cardinality(CopiesOf(rootFolders', s)) = Cardinality(CopiesOf(rootFolders, s))
        BY <1>4
      <3> HIDE DEF t
      <3>3. wanted[t] \in Nat /\ wanted[t] > 0
        BY <1>2, <3>1, <3>2
      <3>4. wanted[t] - 1 \in Nat
        BY <3>3
      <3>5. wanted' \in [Sources -> Nat]
        BY <1>2, <3>1, <3>4
      <3>6. \A s \in Sources : wanted'[s] = IF s = t THEN wanted[s] - 1 ELSE wanted[s]
        BY <1>2, <3>1
      <3>7. \A s \in Sources : Cardinality(CopiesOf(rootFolders', s)) = wanted'[s]
        BY <3>2, <3>6
      <3> QED
        BY <3>5, <3>7
    <2> QED
      BY <2>1, <2>2
  <1>6. ImportTypeOK'
    BY <1>0, <1>1, <1>5 DEF ImportTypeOK, Put
  <1>7. ASSUME NEW i \in DOMAIN imports', rootFolders'[imports'[i].folder] # Missing
        PROVE  rootFolders'[imports'[i].folder].source = imports'[i].source
    <2>0. imports' = imports /\ i \in DOMAIN imports
      BY <1>1
    <2>0a. imports[i] \in ImportRecord
      BY <1>0, <2>0 DEF ImportTypeOK
    <2>1. imports' = imports /\ imports[i].folder \in ImportIds
      BY <2>0, <2>0a DEF ImportRecord
    <2>2. rootFolders'[imports[i].folder] = rootFolders[imports[i].folder]
      BY <1>1, <1>2, <1>7, <2>1 DEF Put
    <2> QED
      BY <1>7, <2>1, <2>2 DEF ImportInv
  <1>8. Present' = Present /\ ReferredIn(environments)' = ReferredIn(environments)
    BY <1>1 DEF Present, ReferredIn
  <1>9. \A e, g \in Present' : e # g => environments'[e].refs \intersect environments'[g].refs = {}
    BY <1>1, <1>8 DEF ImportInv
  <1>10. ImportedVariablesResolve' /\ OnlySpilledSecretsStay'
    BY <1>1, <1>8 DEF ImportInv, ImportedVariablesResolve, OnlySpilledSecretsStay
  <1> QED
    BY <1>4, <1>5, <1>6, <1>7, <1>9, <1>10 DEF ImportInv

\* Neither of the two changes the folders.
LEMMA FoldersStayLemma ==
  ASSUME ImportInv, UNCHANGED <<rootFolders, imports, wanted>>
  PROVE  /\ \A s \in Sources : /\ IsFiniteSet(CopiesOf(rootFolders, s)')
                               /\ Cardinality(CopiesOf(rootFolders, s)') = wanted'[s]
         /\ \A i \in DOMAIN imports' : rootFolders'[imports'[i].folder] # Missing =>
              rootFolders'[imports'[i].folder].source = imports'[i].source
  <1>1. \A s \in Sources : CopiesOf(rootFolders, s)' = CopiesOf(rootFolders, s)
    BY DEF CopiesOf
  <1> QED
    BY <1>1 DEF ImportInv

LEMMA DropEnvironmentStep ==
  ASSUME ImportInv, NEW e \in ImportEnvs, DropEnvironment(e)
  PROVE  ImportInv'
  <1>0. ImportTypeOK
    BY DEF ImportInv
  <1>1. /\ e \in Present
        /\ environments' = [environments EXCEPT ![e] = Missing]
        /\ stored' = stored \ environments[e].refs
        /\ chosen' = IF chosen = e THEN Missing ELSE chosen
        /\ UNCHANGED <<rootFolders, imports, wanted, spilled, smooth>>
    BY DEF DropEnvironment
  <1>2. ImportTypeOK'
    BY <1>0, <1>1 DEF ImportTypeOK
  <1>3. \A g \in ImportEnvs : g # e => environments'[g] = environments[g]
    BY <1>0, <1>1 DEF ImportTypeOK
  <1>4. environments'[e] = Missing
    BY <1>0, <1>1 DEF ImportTypeOK
  <1>5. Present' = Present \ {e}
    BY <1>3, <1>4 DEF Present
  <1>6. ASSUME NEW g \in Present', NEW h \in Present', g # h
        PROVE  environments'[g].refs \intersect environments'[h].refs = {}
    <2>1. g \in Present /\ h \in Present /\ g # e /\ h # e /\ g \in ImportEnvs /\ h \in ImportEnvs
      BY <1>5 DEF Present
    <2>2. environments'[g] = environments[g] /\ environments'[h] = environments[h]
      BY <1>3, <2>1
    <2> QED
      BY <1>6, <2>1, <2>2 DEF ImportInv
  <1>7. ASSUME NEW r \in ReferredIn(environments')
        PROVE  r \in ReferredIn(environments) /\ r \notin environments[e].refs
    <2>1. PICK g \in ImportEnvs : environments'[g] # Missing /\ r \in environments'[g].refs
      BY <1>7 DEF ReferredIn
    <2>2. g # e /\ environments'[g] = environments[g] /\ g \in Present
      BY <1>3, <1>4, <2>1 DEF Present
    <2>3. environments[g].refs \intersect environments[e].refs = {}
      BY <1>1, <2>2 DEF ImportInv
    <2> QED
      BY <2>1, <2>2, <2>3 DEF ReferredIn, Present
  <1>8. ReferredIn(environments) \subseteq ReferredIn(environments') \union environments[e].refs
    <2>1. ASSUME NEW r \in ReferredIn(environments), r \notin environments[e].refs
          PROVE  r \in ReferredIn(environments')
      <3>1. PICK g \in ImportEnvs : environments[g] # Missing /\ r \in environments[g].refs
        BY DEF ReferredIn
      <3>2. environments'[g] = environments[g]
        BY <1>3, <2>1, <3>1
      <3> QED
        BY <3>1, <3>2 DEF ReferredIn
    <2> QED
      BY <2>1
  <1>9. ImportedVariablesResolve'
    BY <1>1, <1>5, <1>7 DEF ImportInv, ImportedVariablesResolve
  <1>10. OnlySpilledSecretsStay'
    BY <1>1, <1>8 DEF ImportInv, OnlySpilledSecretsStay
  <1> QED
    BY <1>1, <1>2, <1>6, <1>9, <1>10, FoldersStayLemma DEF ImportInv

LEMMA ChooseStep ==
  ASSUME ImportInv, NEW e \in ImportEnvs, Choose(e)
  PROVE  ImportInv'
  <1>1. /\ e \in Present /\ chosen' = e
        /\ UNCHANGED <<rootFolders, environments, imports, stored, wanted, spilled, smooth>>
    BY DEF Choose
  <1>2. ImportTypeOK'
    BY <1>1 DEF ImportInv, ImportTypeOK
  <1>3. Present' = Present /\ ReferredIn(environments)' = ReferredIn(environments)
    BY <1>1 DEF Present, ReferredIn
  <1>4. \A g, h \in Present' : g # h => environments'[g].refs \intersect environments'[h].refs = {}
    BY <1>1, <1>3 DEF ImportInv
  <1>5. ImportedVariablesResolve' /\ OnlySpilledSecretsStay'
    BY <1>1, <1>3 DEF ImportInv, ImportedVariablesResolve, OnlySpilledSecretsStay
  <1> QED
    BY <1>1, <1>2, <1>4, <1>5, FoldersStayLemma DEF ImportInv

\* The empty tables.
LEMMA ImportInitially ==
  ASSUME ImportInit
  PROVE  ImportInv
  <1> USE DEF ImportInit
  <1>1. ImportTypeOK
    BY DEF ImportTypeOK
  <1>2. \A s \in Sources : /\ IsFiniteSet(CopiesOf(rootFolders, s))
                           /\ Cardinality(CopiesOf(rootFolders, s)) = wanted[s]
    BY FS_EmptySet DEF CopiesOf
  <1>3. Present = {} /\ ReferredIn(environments) = {}
    BY DEF Present, ReferredIn
  <1>4. ImportedVariablesResolve /\ OnlySpilledSecretsStay
    BY <1>3 DEF ImportedVariablesResolve, OnlySpilledSecretsStay
  <1> QED
    BY <1>1, <1>2, <1>3, <1>4 DEF ImportInv

\* An update changes the folder and the environment of the record only.
UpdateSpares(doc) ==
  /\ \A f \in FoldersThere :
       rootFolders'[f] # rootFolders[f] => rootFolders[f].source = doc.source
  /\ Cardinality({f \in FoldersThere : rootFolders'[f] # rootFolders[f]}) <= 1
  /\ \A e \in Present : environments'[e] # environments[e] =>
       \E i \in DOMAIN imports : imports[i].env = e /\ imports[i].source = doc.source

LEMMA UpdateSparesStep ==
  ASSUME ImportInv, NEW doc \in Documents, Update(doc), rootFolders' # rootFolders
  PROVE  UpdateSpares(doc)
  <1>0. ImportTypeOK
    BY DEF ImportInv
  <1>1. PICK made \in NewSecrets(doc) :
          /\ Latest(doc.source) # 0 /\ Replaced(doc, made, imports[Latest(doc.source)])
    <2>1. ~ TablesStay
      BY DEF TablesStay, tableVars
    <2>2. ~ WriteFails(doc)
      BY <2>1 DEF WriteFails
    <2>3. PICK made \in NewSecrets(doc) :
            /\ Latest(doc.source) # 0 /\ Replaced(doc, made, imports[Latest(doc.source)])
      BY ONLY <2>1, <2>2, Update(doc), Zenon DEF Update
    <2> QED
      BY <2>3
  <1> DEFINE last == Latest(doc.source)
             prior == imports[last]
  <1>2. last \in DOMAIN imports /\ prior.source = doc.source
    BY <1>0, <1>1, LatestLemma DEF ImportTypeOK
  <1>3. Inserted(doc, made, Taken(prior), Spared(prior))
    BY <1>1, ReplacedLemma
  <1>4. /\ prior.folder \in ImportIds
        /\ rootFolders[prior.folder] # Missing => rootFolders[prior.folder].source = doc.source
        /\ Taken(prior) \in [ImportIds -> Documents \union {OwnFolder, Missing}]
        /\ Spared(prior) \in [ImportEnvs -> Environment \union {Missing}]
        /\ \A f \in ImportIds : Taken(prior)[f] # Missing => Taken(prior)[f] = rootFolders[f]
        /\ \A e \in ImportEnvs : Spared(prior)[e] # Missing => Spared(prior)[e] = environments[e]
        /\ \A s \in Sources : IsFiniteSet(CopiesOf(Taken(prior), s))
    BY <1>1, TakenLemma
  <1>5. /\ \A f \in FoldersThere : rootFolders'[f] = Taken(prior)[f]
        /\ \A e \in Present : environments'[e] = Spared(prior)[e]
    BY <1>3, <1>4, InsertedLemma
  <1>6. \A f \in ImportIds : f # prior.folder => Taken(prior)[f] = rootFolders[f]
    BY <1>0 DEF Taken, Put, ImportTypeOK
  <1>7. \A e \in ImportEnvs : e # prior.env => Spared(prior)[e] = environments[e]
    BY DEF Spared
  <1> DEFINE S == {f \in FoldersThere : rootFolders'[f] # rootFolders[f]}
  <1>8. S \subseteq {prior.folder}
    BY <1>5, <1>6 DEF FoldersThere
  <1>9. Cardinality(S) <= 1
    <2>1. IsFiniteSet({prior.folder}) /\ Cardinality({prior.folder}) = 1
      BY FS_Singleton
    <2>2. IsFiniteSet(S) /\ Cardinality(S) <= Cardinality({prior.folder})
      BY <1>8, <2>1, FS_Subset
    <2> QED
      BY <2>1, <2>2
  <1>10. \A f \in FoldersThere : rootFolders'[f] # rootFolders[f] => rootFolders[f].source = doc.source
    BY <1>4, <1>8 DEF FoldersThere
  <1>11. \A e \in Present : environments'[e] # environments[e] => e = prior.env
    BY <1>5, <1>7 DEF Present
  <1> QED
    BY <1>2, <1>9, <1>10, <1>11 DEF UpdateSpares

\* Importing keeps its promises, whatever is imported: every document is there as
\* often as it was asked for, its secrets can be read, only known ones stay
\* behind, and an update takes one copy of its own source.
THEOREM ImportKeepsItsPromise == ImportSpec => ImportCorrect
  <1>1. ImportInit => ImportInv
    BY ImportInitially
  <1>2. ImportInv /\ [ImportNext]_importVars => ImportInv'
    <2> SUFFICES ASSUME ImportInv, [ImportNext]_importVars PROVE ImportInv'
      OBVIOUS
    <2>1. CASE UNCHANGED importVars
      <3>1. UNCHANGED <<tableVars, wanted>> /\ stored' = stored \union {} /\ spilled' = spilled \union {}
        BY <2>1 DEF importVars
      <3>2. smooth' \in BOOLEAN /\ (smooth' => smooth /\ {} \subseteq {}) /\ {} \in SUBSET ImportSecrets
        BY <2>1 DEF importVars, ImportInv, ImportTypeOK
      <3> QED
        BY <3>1, <3>2, StoreLemma
    <2>2. ASSUME NEW doc \in Documents, Import(doc) PROVE ImportInv'
      BY <2>2, ImportStep
    <2>3. ASSUME NEW doc \in Documents, Update(doc) PROVE ImportInv'
      BY <2>3, UpdateStep
    <2>4. ASSUME NEW doc \in Documents, Interrupted(doc) PROVE ImportInv'
      BY <2>4, InterruptedStep
    <2>5. ASSUME NEW f \in ImportIds, MakeFolder(f) PROVE ImportInv'
      BY <2>5, MakeFolderStep
    <2>6. ASSUME NEW f \in ImportIds, DropFolder(f) PROVE ImportInv'
      BY <2>6, DropFolderStep
    <2>7. ASSUME NEW e \in ImportEnvs, DropEnvironment(e) PROVE ImportInv'
      BY <2>7, DropEnvironmentStep
    <2>8. ASSUME NEW e \in ImportEnvs, Choose(e) PROVE ImportInv'
      BY <2>8, ChooseStep
    <2> QED
      BY <2>1, <2>2, <2>3, <2>4, <2>5, <2>6, <2>7, <2>8 DEF ImportNext
  <1>3. ImportInv => ImportTypeOK /\ OneCopyEach /\ ImportedVariablesResolve /\ OnlySpilledSecretsStay
    <2> SUFFICES ASSUME ImportInv PROVE OneCopyEach
      BY DEF ImportInv
    <2>1. \A s \in Sources : {f \in FoldersThere : rootFolders[f].source = s} = CopiesOf(rootFolders, s)
      BY DEF FoldersThere, CopiesOf
    <2>2. \A s \in Sources : Cardinality(CopiesOf(rootFolders, s)) = wanted[s]
      BY DEF ImportInv
    <2>3. ASSUME NEW s \in Sources
          PROVE  Cardinality({f \in FoldersThere : rootFolders[f].source = s}) = wanted[s]
      BY ONLY <2>1, <2>2, <2>3, Zenon
    <2> QED
      BY ONLY <2>3, Zenon DEF OneCopyEach
  <1>4. ImportInv => [rootFolders' # rootFolders => \A doc \in Documents : Update(doc) =>
          /\ \A f \in FoldersThere :
               rootFolders'[f] # rootFolders[f] => rootFolders[f].source = doc.source
          /\ Cardinality({f \in FoldersThere : rootFolders'[f] # rootFolders[f]}) <= 1
          /\ \A e \in Present : environments'[e] # environments[e] =>
               \E i \in DOMAIN imports : imports[i].env = e /\ imports[i].source = doc.source]_importVars
    BY UpdateSparesStep DEF UpdateSpares
  <1> QED
    BY <1>1, <1>2, <1>3, <1>4, PTL DEF ImportSpec, ImportCorrect, UpdatesSpareTheRest

-----------------------------------------------------------------------------
(* Backups *)

\* Values of rows in a workspace, and of those in an archive.
SpaceValues == {"plain", "secret", "excluded"}
KeptValues == {"plain", "excluded"}

\* A workspace that is there.
IsSpace(space) ==
  /\ space = [rows |-> space.rows, base |-> space.base]
  /\ IsRows(space.rows, SpaceValues) /\ Closed(space.rows)
  /\ space.base \in Directories \union {Nowhere}

\* What an archive holds is what was exported, whatever was done to it since.
IsArchive(kept, drawn) ==
  /\ kept = [rows |-> kept.rows, base |-> kept.base, files |-> kept.files, state |-> kept.state,
             original |-> kept.original, complete |-> kept.complete]
  /\ kept.original \in [DOMAIN kept.original -> Row(KeptValues)]
  /\ DOMAIN kept.original \subseteq 1..drawn /\ Closed(kept.original)
  /\ kept.rows = IF kept.complete = TRUE THEN Rewritten(kept.original) ELSE kept.original
  /\ kept.complete \in BOOLEAN
  /\ kept.base \in Directories \union {Nowhere}
  /\ kept.files \subseteq Hashes
  /\ kept.state = "whole" /\ kept.complete =>
       kept.files = {body.hash : body \in FilesIn(kept.original)}

\* The user's own workspace has the first ids, and there is one of it at most;
\* those that were restored have later ones.
IdsFit ==
  /\ FirstIds <= drawnIds /\ drawnIds \in 0..MaxRowId
  /\ \A w \in There : DOMAIN spaceOf[w].rows \subseteq 1..drawnIds
  /\ \A w \in There : cameFrom[w] = Nowhere => DOMAIN spaceOf[w].rows \subseteq 1..FirstIds
  /\ \A w \in There : cameFrom[w] # Nowhere => \A id \in DOMAIN spaceOf[w].rows : FirstIds < id
  /\ \A v, w \in There : v # w => cameFrom[v] # Nowhere \/ cameFrom[w] # Nowhere
  /\ \A v, w \in There : v # w => DOMAIN spaceOf[v].rows \intersect DOMAIN spaceOf[w].rows = {}

\* The inductive invariant.
BackupInv ==
  /\ spaceOf = [w \in Titles |-> spaceOf[w]] /\ cameFrom = [w \in Titles |-> cameFrom[w]]
  /\ disk \in [Directories \X Names -> Hashes \union {Nowhere}]
  /\ \A w \in There : IsSpace(spaceOf[w])
  /\ archive # Nowhere => IsArchive(archive, drawnIds)
  /\ IdsFit
  /\ RestoredIsWhole

\* The first ids are those of all samples.
LEMMA FirstIdsLemma ==
  FirstIds \in 0..MaxRowId /\ \A rows \in Samples : DOMAIN rows \subseteq 1..FirstIds
  <1> DEFINE Enough(n) == \A rows \in Samples : DOMAIN rows \subseteq 1..n
             T == {n \in 0..MaxRowId : Enough(n)}
  <1>1. MaxRowId \in T
    BY SamplesAssumption, MaxRowIdAssumption DEF IsRows
  <1>2. T \in SUBSET Nat /\ T # {}
    BY <1>1, MaxRowIdAssumption
  <1>3. PICK n \in T : \A m \in T : n <= m
    BY <1>2, NatMin
  <1>4. n \in 0..MaxRowId /\ Enough(n) /\ \A m \in 0..(n - 1) : ~Enough(m)
    <2>1. n \in 0..MaxRowId /\ Enough(n)
      BY <1>3
    <2>2. ASSUME NEW m \in 0..(n - 1), Enough(m) PROVE FALSE
      <3>1. m \in 0..MaxRowId /\ ~(n <= m)
        BY <2>1, MaxRowIdAssumption
      <3>2. m \in T
        BY <2>2, <3>1
      <3> QED
        BY <1>3, <3>1, <3>2
    <2> QED
      BY <2>1, <2>2
  <1>5. \A m \in 0..(n - 1) : \E rows \in Samples : ~(DOMAIN rows \subseteq 1..m)
    BY <1>4
  <1>6. \E k \in 0..MaxRowId :
          /\ \A rows \in Samples : DOMAIN rows \subseteq 1..k
          /\ \A m \in 0..(k - 1) : \E rows \in Samples : ~(DOMAIN rows \subseteq 1..m)
    BY <1>4, <1>5
  <1> QED
    BY <1>6 DEF FirstIds

\* The fields of a row.
LEMMA BackupRowFields ==
  ASSUME NEW values, NEW row \in Row(values)
  PROVE  /\ row.kind \in Kinds /\ row.name \in STRING /\ row.of \in Seq(1..MaxRowId)
         /\ row.file \in BodyFile \union {NoBodyFile} /\ row.value \in values
         /\ row.file # NoBodyFile => row.file.hash \in Hashes
  BY DEF Row, BodyFile

\* A row of which the value or the file is another.
LEMMA RowWith ==
  ASSUME NEW values, NEW others, NEW row \in Row(values)
  PROVE  /\ \A v \in others :
              LET r == [row EXCEPT !.value = v] IN
                /\ r \in Row(others) /\ r.value = v /\ r.kind = row.kind /\ r.name = row.name
                /\ r.of = row.of /\ r.file = row.file
         /\ row.value \in others => row \in Row(others)
         /\ \A f \in BodyFile :
              LET r == [row EXCEPT !.file = f] IN
                /\ r \in Row(values) /\ r.file = f /\ r.kind = row.kind /\ r.name = row.name
                /\ r.of = row.of /\ r.value = row.value
         /\ \A s \in Seq(1..MaxRowId) :
              LET r == [row EXCEPT !.of = s] IN
                /\ r \in Row(values) /\ r.of = s /\ r.kind = row.kind /\ r.name = row.name
                /\ r.file = row.file /\ r.value = row.value
  BY DEF Row

\* What an export keeps.
LEMMA SanitizedLemma ==
  ASSUME NEW rows, IsRows(rows, SpaceValues), Closed(rows)
  PROVE  /\ Sanitized(rows) \in [DOMAIN rows -> Row(KeptValues)]
         /\ DOMAIN Sanitized(rows) = DOMAIN rows /\ Closed(Sanitized(rows))
  <1> DEFINE s == Sanitized(rows)
  <1>1. ASSUME NEW id \in DOMAIN rows
        PROVE  s[id] \in Row(KeptValues) /\ s[id].of = rows[id].of
    <2>1. rows[id] \in Row(SpaceValues)
      BY DEF IsRows
    <2>2. s[id] = IF rows[id].value = "secret" THEN [rows[id] EXCEPT !.value = "excluded"] ELSE rows[id]
      BY DEF Sanitized
    <2>3. CASE rows[id].value = "secret"
      <3>1. "excluded" \in KeptValues
        BY DEF KeptValues
      <3> QED
        BY <2>1, <2>2, <2>3, <3>1, RowWith
    <2>4. CASE rows[id].value # "secret"
      <3>1. rows[id].value \in KeptValues
        BY <2>1, <2>4, BackupRowFields DEF SpaceValues, KeptValues
      <3> QED
        BY <2>1, <2>2, <2>4, <3>1, RowWith
    <2> QED
      BY <2>3, <2>4
  <1>2. DOMAIN s = DOMAIN rows /\ s = [id \in DOMAIN rows |-> s[id]]
    BY DEF Sanitized
  <1> HIDE DEF s
  <1>3. s \in [DOMAIN rows -> Row(KeptValues)]
    BY <1>1, <1>2
  <1>4. Closed(s)
    BY <1>1, <1>2 DEF Closed
  <1> QED
    BY <1>2, <1>3, <1>4 DEF s

\* Other paths for the same files.
LEMMA RewrittenLemma ==
  ASSUME NEW rows, rows \in [DOMAIN rows -> Row(KeptValues)], Closed(rows)
  PROVE  /\ Rewritten(rows) \in [DOMAIN rows -> Row(KeptValues)]
         /\ DOMAIN Rewritten(rows) = DOMAIN rows /\ Closed(Rewritten(rows))
         /\ \A id \in DOMAIN rows : LET r == Rewritten(rows)[id] IN
              /\ r.kind = rows[id].kind /\ r.name = rows[id].name /\ r.value = rows[id].value
              /\ r.of = rows[id].of /\ r.file.hash = rows[id].file.hash
              /\ HasFile(r) => HasFile(rows[id]) /\ r.file = EntryFile(rows[id].file.hash)
  <1> DEFINE t == Rewritten(rows)
  <1>1. ASSUME NEW id \in DOMAIN rows
        PROVE  /\ t[id] \in Row(KeptValues)
               /\ t[id].kind = rows[id].kind /\ t[id].name = rows[id].name
               /\ t[id].value = rows[id].value
               /\ t[id].of = rows[id].of /\ t[id].file.hash = rows[id].file.hash
               /\ HasFile(t[id]) => HasFile(rows[id]) /\ t[id].file = EntryFile(rows[id].file.hash)
    <2>1. rows[id] \in Row(KeptValues)
      OBVIOUS
    <2>2. t[id] = IF HasFile(rows[id]) THEN [rows[id] EXCEPT !.file = EntryFile(rows[id].file.hash)] ELSE rows[id]
      BY DEF Rewritten
    <2>3. CASE HasFile(rows[id])
      <3>1. rows[id].file.hash \in Hashes
        BY <2>1, <2>3, BackupRowFields DEF HasFile
      <3>2. EntryFile(rows[id].file.hash) \in BodyFile /\ EntryFile(rows[id].file.hash).hash = rows[id].file.hash
        BY <3>1 DEF EntryFile, BodyFile, Names
      <3> QED
        BY <2>1, <2>2, <2>3, <3>2, RowWith
    <2>4. CASE ~HasFile(rows[id])
      BY <2>1, <2>2, <2>4
    <2> QED
      BY <2>3, <2>4
  <1>2. DOMAIN t = DOMAIN rows /\ t = [id \in DOMAIN rows |-> t[id]]
    BY DEF Rewritten
  <1> HIDE DEF t
  <1>3. t \in [DOMAIN rows -> Row(KeptValues)]
    BY <1>1, <1>2
  <1>4. Closed(t)
    BY <1>1, <1>2 DEF Closed
  <1> QED
    BY <1>1, <1>2, <1>3, <1>4 DEF t

\* The same rows under new ids.
LEMMA RenumberedLemma ==
  ASSUME NEW rows, rows \in [DOMAIN rows -> Row(KeptValues)], Closed(rows),
         DOMAIN rows \subseteq 1..drawnIds, drawnIds \in Nat, drawnIds + drawnIds <= MaxRowId
  PROVE  /\ DOMAIN Renumbered(rows) = {drawnIds + id : id \in DOMAIN rows}
         /\ IsRows(Renumbered(rows), SpaceValues) /\ Closed(Renumbered(rows))
         /\ \A id \in DOMAIN rows : LET r == Renumbered(rows)[drawnIds + id] IN
              /\ r.kind = rows[id].kind /\ r.name = rows[id].name /\ r.value = rows[id].value
              /\ r.file = rows[id].file
              /\ r.of = [i \in DOMAIN rows[id].of |-> drawnIds + rows[id].of[i]]
  <1> DEFINE t == Renumbered(rows)
             Moved(s) == [i \in DOMAIN s |-> drawnIds + s[i]]
  <1>0. MaxRowId \in Nat
    BY MaxRowIdAssumption
  <1>1. DOMAIN t = {drawnIds + id : id \in DOMAIN rows}
    BY DEF Renumbered
  <1>2. ASSUME NEW id \in DOMAIN rows
        PROVE  /\ drawnIds + id \in DOMAIN t /\ drawnIds + id \in 1..MaxRowId
               /\ t[drawnIds + id] \in Row(KeptValues)
               /\ t[drawnIds + id].kind = rows[id].kind /\ t[drawnIds + id].name = rows[id].name
               /\ t[drawnIds + id].value = rows[id].value /\ t[drawnIds + id].file = rows[id].file
               /\ t[drawnIds + id].of = Moved(rows[id].of)
    <2>1. rows[id] \in Row(KeptValues) /\ id \in 1..drawnIds
      OBVIOUS
    <2>2. drawnIds + id \in DOMAIN t /\ (drawnIds + id) - drawnIds = id /\ drawnIds + id \in 1..MaxRowId
      BY <1>0, <1>1, <2>1
    <2>3. t[drawnIds + id] = [rows[id] EXCEPT !.of = [i \in DOMAIN @ |-> drawnIds + @[i]]]
      BY <1>1, <2>2 DEF Renumbered
    <2>4. t[drawnIds + id] = [rows[id] EXCEPT !.of = Moved(rows[id].of)]
      BY <2>1, <2>3 DEF Row
    <2>5. Moved(rows[id].of) \in Seq(1..MaxRowId)
      <3>1. rows[id].of \in Seq(1..MaxRowId)
        BY <2>1, BackupRowFields
      <3>2. \A i \in DOMAIN rows[id].of : rows[id].of[i] \in 1..drawnIds
        BY DEF Closed
      <3>3. \A i \in DOMAIN rows[id].of : drawnIds + rows[id].of[i] \in 1..MaxRowId
        BY <1>0, <3>2
      <3>4. PICK n \in Nat : DOMAIN rows[id].of = 1..n
        BY <3>1
      <3>5. Moved(rows[id].of) \in [1..n -> 1..MaxRowId]
        BY <3>3, <3>4
      <3> HIDE DEF Moved
      <3> QED
        BY <3>5, SeqDef
    <2> HIDE DEF Moved, t
    <2> QED
      BY <2>1, <2>2, <2>4, <2>5, RowWith
  <1> HIDE DEF t
  <1>3. \A new \in DOMAIN t : \E id \in DOMAIN rows : new = drawnIds + id
    BY <1>1
  <1>4. IsRows(t, SpaceValues)
    <2>1. ASSUME NEW new \in DOMAIN t PROVE new \in 1..MaxRowId /\ t[new] \in Row(SpaceValues)
      <3>1. PICK id \in DOMAIN rows : new = drawnIds + id
        BY <1>3
      <3>2. t[new] \in Row(KeptValues) /\ new \in 1..MaxRowId
        BY <1>2, <3>1
      <3>3. t[new].value \in SpaceValues
        BY <3>2, BackupRowFields DEF KeptValues, SpaceValues
      <3> QED
        BY <3>2, <3>3, RowWith
    <2> QED
      BY <2>1 DEF IsRows
  <1>5. Closed(t)
    <2>1. ASSUME NEW new \in DOMAIN t, NEW i \in DOMAIN t[new].of PROVE t[new].of[i] \in DOMAIN t
      <3>1. PICK id \in DOMAIN rows : new = drawnIds + id
        BY <1>3
      <3>2. t[new].of = Moved(rows[id].of)
        BY <1>2, <3>1
      <3>3. i \in DOMAIN rows[id].of /\ t[new].of[i] = drawnIds + rows[id].of[i]
        BY <2>1, <3>2
      <3>4. rows[id].of[i] \in DOMAIN rows
        BY <3>3 DEF Closed
      <3> QED
        BY <1>1, <3>3, <3>4
    <2> QED
      BY <2>1 DEF Closed
  <1> QED
    BY <1>1, <1>2, <1>4, <1>5 DEF t, Moved

\* Other paths do not change what the rows say of one another,
LEMMA DescribedRewritten ==
  ASSUME NEW rows, rows \in [DOMAIN rows -> Row(KeptValues)], Closed(rows)
  PROVE  DescribedRows(Rewritten(rows)) = DescribedRows(rows)
  <1> DEFINE t == Rewritten(rows)
  <1>1. /\ DOMAIN t = DOMAIN rows
        /\ \A id \in DOMAIN rows :
             /\ t[id].kind = rows[id].kind /\ t[id].name = rows[id].name /\ t[id].value = rows[id].value
             /\ t[id].of = rows[id].of /\ t[id].file.hash = rows[id].file.hash
    BY RewrittenLemma
  <1> HIDE DEF t
  <1>2. ASSUME NEW id \in DOMAIN rows PROVE Described(t, id) = Described(rows, id)
    <2>1. [i \in DOMAIN t[id].of |-> t[t[id].of[i]].name] = [i \in DOMAIN rows[id].of |-> rows[rows[id].of[i]].name]
      <3>1. DOMAIN t[id].of = DOMAIN rows[id].of
        BY <1>1
      <3>2. \A i \in DOMAIN rows[id].of : t[t[id].of[i]].name = rows[rows[id].of[i]].name
        BY <1>1 DEF Closed
      <3> QED
        BY <3>1, <3>2
    <2> QED
      BY <1>1, <2>1 DEF Described
  <1> QED
    BY <1>1, <1>2 DEF DescribedRows, t

\* ... nor do new ids.
LEMMA DescribedRenumbered ==
  ASSUME NEW rows, rows \in [DOMAIN rows -> Row(KeptValues)], Closed(rows),
         DOMAIN rows \subseteq 1..drawnIds, drawnIds \in Nat, drawnIds + drawnIds <= MaxRowId
  PROVE  DescribedRows(Renumbered(rows)) = DescribedRows(rows)
  <1> DEFINE t == Renumbered(rows)
  <1>1. /\ DOMAIN t = {drawnIds + id : id \in DOMAIN rows}
        /\ \A id \in DOMAIN rows :
             /\ t[drawnIds + id].kind = rows[id].kind /\ t[drawnIds + id].name = rows[id].name
             /\ t[drawnIds + id].value = rows[id].value /\ t[drawnIds + id].file = rows[id].file
             /\ t[drawnIds + id].of = [i \in DOMAIN rows[id].of |-> drawnIds + rows[id].of[i]]
    BY RenumberedLemma
  <1> HIDE DEF t
  <1>2. ASSUME NEW id \in DOMAIN rows PROVE Described(t, drawnIds + id) = Described(rows, id)
    <2> DEFINE new == t[drawnIds + id]
    <2>1. [i \in DOMAIN new.of |-> t[new.of[i]].name] = [i \in DOMAIN rows[id].of |-> rows[rows[id].of[i]].name]
      <3>1. new.of = [i \in DOMAIN rows[id].of |-> drawnIds + rows[id].of[i]]
        BY <1>1
      <3>2. DOMAIN new.of = DOMAIN rows[id].of
        BY <3>1
      <3>3. \A i \in DOMAIN rows[id].of : t[new.of[i]].name = rows[rows[id].of[i]].name
        <4>1. ASSUME NEW i \in DOMAIN rows[id].of PROVE t[new.of[i]].name = rows[rows[id].of[i]].name
          <5>1. rows[id].of[i] \in DOMAIN rows
            BY DEF Closed
          <5>2. new.of[i] = drawnIds + rows[id].of[i]
            BY <3>1
          <5> QED
            BY <1>1, <5>1, <5>2
        <4> QED
          BY <4>1
      <3> QED
        BY <3>2, <3>3
    <2> QED
      BY <1>1, <2>1 DEF Described
  <1> QED
    BY <1>1, <1>2 DEF DescribedRows, t

\* Two numbers of ids that are both in use.
LEMMA IdsLemma ==
  ASSUME BackupInv
  PROVE  /\ MaxRowId \in Nat /\ drawnIds \in Nat /\ drawnIds <= MaxRowId
         /\ FirstIds \in Nat /\ FirstIds <= drawnIds
  BY FirstIdsLemma, MaxRowIdAssumption DEF BackupInv, IdsFit

\* One workspace comes, goes or is changed.
LEMMA OneSpace ==
  ASSUME BackupInv, NEW w \in Titles, NEW x, NEW c,
         spaceOf' = [spaceOf EXCEPT ![w] = x], cameFrom' = [cameFrom EXCEPT ![w] = c],
         drawnIds <= drawnIds', drawnIds' \in 0..MaxRowId,
         disk' \in [Directories \X Names -> Hashes \union {Nowhere}],
         archive' # Nowhere => IsArchive(archive', drawnIds'),
         x # Nowhere =>
           /\ IsSpace(x) /\ DOMAIN x.rows \subseteq 1..drawnIds'
           /\ c = Nowhere => /\ DOMAIN x.rows \subseteq 1..FirstIds
                             /\ \A v \in There \ {w} : cameFrom[v] # Nowhere
           /\ c # Nowhere => /\ \A id \in DOMAIN x.rows : FirstIds < id
                             /\ DescribedRows(x.rows) = DescribedRows(c)
           /\ \A v \in There \ {w} : DOMAIN spaceOf[v].rows \intersect DOMAIN x.rows = {}
  PROVE  BackupInv'
  <1>1. /\ spaceOf' = [v \in Titles |-> spaceOf'[v]] /\ cameFrom' = [v \in Titles |-> cameFrom'[v]]
        /\ spaceOf'[w] = x /\ cameFrom'[w] = c
        /\ \A v \in Titles : v # w => spaceOf'[v] = spaceOf[v] /\ cameFrom'[v] = cameFrom[v]
    BY DEF BackupInv
  <1>2. \A v \in There' : v \in Titles /\ (v = w \/ v \in There)
    BY <1>1 DEF There
  <1>3. w \in There' => x # Nowhere
    BY <1>1 DEF There
  <1>4. drawnIds \in Nat /\ drawnIds' \in Nat /\ FirstIds \in Nat /\ FirstIds <= drawnIds'
    BY IdsLemma
  <1>5. \A v \in There' : IsSpace(spaceOf'[v])
    BY <1>1, <1>2, <1>3 DEF BackupInv
  <1>6. RestoredIsWhole'
    <2>1. ASSUME NEW v \in There', cameFrom'[v] # Nowhere
          PROVE  DescribedRows(spaceOf'[v].rows) = DescribedRows(cameFrom'[v])
      BY <1>1, <1>2, <1>3, <2>1 DEF BackupInv, RestoredIsWhole
    <2> QED
      BY <2>1 DEF RestoredIsWhole, DescribedRows, Described
  <1>7. IdsFit'
    <2>1. \A v \in There' : DOMAIN spaceOf'[v].rows \subseteq 1..drawnIds'
      <3>1. \A v \in There : DOMAIN spaceOf[v].rows \subseteq 1..drawnIds
        BY DEF BackupInv, IdsFit
      <3>2. 1..drawnIds \subseteq 1..drawnIds'
        BY <1>4
      <3> QED
        BY <1>1, <1>2, <1>3, <3>1, <3>2
    <2>2. \A v \in There' : cameFrom'[v] = Nowhere => DOMAIN spaceOf'[v].rows \subseteq 1..FirstIds
      BY <1>1, <1>2, <1>3 DEF BackupInv, IdsFit
    <2>3. \A v \in There' : cameFrom'[v] # Nowhere => \A id \in DOMAIN spaceOf'[v].rows : FirstIds < id
      BY <1>1, <1>2, <1>3 DEF BackupInv, IdsFit
    <2>4. ASSUME NEW u \in There', NEW v \in There', u # v, cameFrom'[u] = Nowhere, cameFrom'[v] = Nowhere
          PROVE  FALSE
      <3>1. CASE u = w
        BY <1>1, <1>2, <1>3, <2>4, <3>1
      <3>2. CASE v = w
        BY <1>1, <1>2, <1>3, <2>4, <3>2
      <3>3. CASE u # w /\ v # w
        <4>1. u \in There /\ v \in There /\ cameFrom[u] = Nowhere /\ cameFrom[v] = Nowhere
          BY <1>1, <1>2, <2>4, <3>3
        <4> QED
          BY <2>4, <4>1 DEF BackupInv, IdsFit
      <3> QED
        BY <3>1, <3>2, <3>3
    <2>5. \A u, v \in There' : u # v => DOMAIN spaceOf'[u].rows \intersect DOMAIN spaceOf'[v].rows = {}
      BY <1>1, <1>2, <1>3 DEF BackupInv, IdsFit
    <2> QED
      BY <1>4, <2>1, <2>2, <2>3, <2>4, <2>5 DEF IdsFit
  <1>8. \A v \in There' : (IsSpace(spaceOf[v]))'
    BY <1>5 DEF IsSpace, IsRows, Closed
  <1>9. archive' # Nowhere => (IsArchive(archive, drawnIds))'
    BY DEF IsArchive
  <1> QED
    BY <1>1, <1>6, <1>7, <1>8, <1>9 DEF BackupInv

\* Only the archive or the disk changes.
LEMMA NoSpace ==
  ASSUME BackupInv, UNCHANGED <<spaceOf, drawnIds, cameFrom>>,
         disk' \in [Directories \X Names -> Hashes \union {Nowhere}],
         archive' # Nowhere => IsArchive(archive', drawnIds)
  PROVE  BackupInv'
  <1>1. There' = There
    BY DEF There
  <1>2. IdsFit' /\ RestoredIsWhole'
    BY <1>1 DEF BackupInv, IdsFit, RestoredIsWhole
  <1>3. \A v \in There' : (IsSpace(spaceOf[v]))'
    BY <1>1 DEF BackupInv
  <1>4. archive' # Nowhere => (IsArchive(archive, drawnIds))'
    BY DEF IsArchive
  <1>5. (spaceOf = [v \in Titles |-> spaceOf[v]])' /\ (cameFrom = [v \in Titles |-> cameFrom[v]])'
    BY DEF BackupInv
  <1> QED
    BY <1>2, <1>3, <1>4, <1>5 DEF BackupInv

\* The hashes of files that rows have.
LEMMA FilesLemma ==
  ASSUME NEW rows, rows \in [DOMAIN rows -> Row(KeptValues)]
  PROVE  {body.hash : body \in FilesIn(rows)} \subseteq Hashes
  <1>1. ASSUME NEW id \in DOMAIN rows, HasFile(rows[id]) PROVE rows[id].file.hash \in Hashes
    <2>1. rows[id] \in Row(KeptValues)
      OBVIOUS
    <2> QED
      BY <1>1, <2>1, BackupRowFields DEF HasFile
  <1> QED
    BY <1>1 DEF FilesIn

\* One lemma for each command: exporting a workspace,
LEMMA ExportStep ==
  ASSUME BackupInv, NEW w \in Titles, NEW withFiles \in BOOLEAN, NEW base, Export(w, withFiles, base)
  PROVE  BackupInv'
  <1> DEFINE rows == Sanitized(spaceOf[w].rows)
             kept == [rows |-> IF withFiles THEN Rewritten(rows) ELSE rows,
                      base |-> spaceOf[w].base,
                      files |-> IF withFiles THEN {body.hash : body \in FilesIn(rows)} ELSE {},
                      state |-> "whole", original |-> rows, complete |-> withFiles]
  <1>1. archive' = kept \/ archive' = Nowhere
    BY Zenon DEF Export
  <1>2. w \in There /\ IsSpace(spaceOf[w]) /\ DOMAIN spaceOf[w].rows \subseteq 1..drawnIds
    BY DEF Export, BackupInv, IdsFit
  <1>3. /\ rows \in [DOMAIN spaceOf[w].rows -> Row(KeptValues)]
        /\ DOMAIN rows = DOMAIN spaceOf[w].rows /\ Closed(rows)
    BY <1>2, SanitizedLemma DEF IsSpace
  <1>4. /\ rows \in [DOMAIN rows -> Row(KeptValues)] /\ DOMAIN rows \subseteq 1..drawnIds /\ Closed(rows)
        /\ spaceOf[w].base \in Directories \union {Nowhere}
    BY <1>2, <1>3 DEF IsSpace
  <1> HIDE DEF rows
  <1>5. {body.hash : body \in FilesIn(rows)} \subseteq Hashes
    BY <1>4, FilesLemma
  <1>6. IsArchive(kept, drawnIds)
    BY <1>4, <1>5 DEF IsArchive
  <1> QED
    BY <1>1, <1>6, NoSpace DEF Export, BackupInv

\* ... what happens to the archive,
LEMMA DamageStep ==
  ASSUME BackupInv, NEW state \in {"changed", "fileMissing"}, DamageArchive(state)
  PROVE  BackupInv'
  <1>1. archive # Nowhere /\ IsArchive(archive, drawnIds)
    BY DEF DamageArchive, BackupInv
  <1> DEFINE files == IF state = "fileMissing" THEN {} ELSE archive.files
             kept == [rows |-> archive.rows, base |-> archive.base, files |-> files, state |-> state,
                      original |-> archive.original, complete |-> archive.complete]
  <1>2. archive' = [archive EXCEPT !.state = state, !.files = IF state = "fileMissing" THEN {} ELSE @]
    BY DEF DamageArchive
  <1>3. archive' = kept
    BY <1>1, <1>2 DEF IsArchive
  <1>4. IsArchive(kept, drawnIds)
    BY <1>1 DEF IsArchive
  <1> QED
    BY <1>3, <1>4, NoSpace DEF DamageArchive, BackupInv

\* ... and to the files,
LEMMA ChangeFileStep ==
  ASSUME BackupInv, NEW place \in Directories \X FileNames, NEW hash \in Hashes \union {Nowhere},
         ChangeFile(place, hash)
  PROVE  BackupInv'
  <1>1. place \in Directories \X Names
    BY DEF Names
  <1>2. disk' \in [Directories \X Names -> Hashes \union {Nowhere}]
    BY <1>1 DEF ChangeFile, BackupInv
  <1> QED
    BY <1>2, NoSpace DEF ChangeFile, BackupInv

\* The archive is as good with more ids drawn.
LEMMA ArchiveKept ==
  ASSUME NEW kept, NEW m \in Nat, NEW n \in Nat, m <= n, IsArchive(kept, m)
  PROVE  IsArchive(kept, n)
  <1>1. 1..m \subseteq 1..n
    OBVIOUS
  <1> QED
    BY <1>1 DEF IsArchive

\* What a restoration makes of an archive.
LEMMA RestoredRows ==
  ASSUME BackupInv, archive # Nowhere, drawnIds + drawnIds <= MaxRowId
  PROVE  /\ IsRows(Renumbered(archive.rows), SpaceValues) /\ Closed(Renumbered(archive.rows))
         /\ \A id \in DOMAIN Renumbered(archive.rows) : drawnIds < id /\ id \in 1..(drawnIds + drawnIds)
         /\ DescribedRows(Renumbered(archive.rows)) = DescribedRows(archive.original)
         /\ archive.original # Nowhere
  <1>1. IsArchive(archive, drawnIds) /\ drawnIds \in Nat /\ MaxRowId \in Nat
    BY IdsLemma DEF BackupInv
  <1> DEFINE old == archive.original
             rows == archive.rows
  <1>2. /\ old \in [DOMAIN old -> Row(KeptValues)] /\ Closed(old) /\ DOMAIN old \subseteq 1..drawnIds
        /\ rows = Rewritten(old) \/ rows = old
    BY <1>1 DEF IsArchive
  <1> HIDE DEF old, rows
  <1>3. /\ rows \in [DOMAIN rows -> Row(KeptValues)] /\ Closed(rows) /\ DOMAIN rows \subseteq 1..drawnIds
        /\ DescribedRows(rows) = DescribedRows(old)
    BY <1>2, RewrittenLemma, DescribedRewritten
  <1>4. /\ DOMAIN Renumbered(rows) = {drawnIds + id : id \in DOMAIN rows}
        /\ IsRows(Renumbered(rows), SpaceValues) /\ Closed(Renumbered(rows))
        /\ DescribedRows(Renumbered(rows)) = DescribedRows(rows)
    BY <1>1, <1>3, RenumberedLemma, DescribedRenumbered
  <1>5. \A id \in DOMAIN Renumbered(rows) : drawnIds < id /\ id \in 1..(drawnIds + drawnIds)
    BY <1>1, <1>3, <1>4
  <1>6. old # Nowhere
    <2>1. DOMAIN old \in SUBSET (1..MaxRowId)
      BY <1>1, <1>2
    <2> QED
      BY <1>2, <2>1, NowhereAssumption DEF KeptValues
  <1> QED
    BY <1>3, <1>4, <1>5, <1>6 DEF old, rows

\* ... restoring it as a workspace,
LEMMA RestoreStep ==
  ASSUME BackupInv, NEW w \in Titles, NEW directory, Restore(w, directory)
  PROVE  BackupInv'
  <1> DEFINE x == [rows |-> Renumbered(archive.rows), base |-> archive.base]
             c == archive.original
  <1>1. archive # Nowhere /\ drawnIds + drawnIds <= MaxRowId /\ w \notin There
    BY DEF Restore, Verified
  <1>2. /\ spaceOf' = [spaceOf EXCEPT ![w] = x] /\ cameFrom' = [cameFrom EXCEPT ![w] = c]
        /\ drawnIds' = drawnIds + drawnIds /\ archive' = archive
    BY DEF Restore
  <1>3. /\ IsArchive(archive, drawnIds) /\ drawnIds \in Nat /\ MaxRowId \in Nat
        /\ FirstIds \in Nat /\ FirstIds <= drawnIds
    BY <1>1, IdsLemma DEF BackupInv
  <1>4. disk' \in [Directories \X Names -> Hashes \union {Nowhere}]
    <2>1. CASE UNCHANGED disk
      BY <2>1 DEF BackupInv
    <2>2. ASSUME NEW written \in SUBSET archive.files, WritesFiles(directory, written)
          PROVE  disk' \in [Directories \X Names -> Hashes \union {Nowhere}]
      <3>1. written \subseteq Hashes
        BY <1>3 DEF IsArchive
      <3> QED
        BY <2>2, <3>1 DEF WritesFiles, BackupInv
    <2> QED
      BY <2>1, <2>2 DEF Restore
  <1>5. IsArchive(archive', drawnIds')
    BY <1>2, <1>3, ArchiveKept
  <1>6. /\ IsRows(x.rows, SpaceValues) /\ Closed(x.rows)
        /\ \A id \in DOMAIN x.rows : drawnIds < id /\ id \in 1..(drawnIds + drawnIds)
        /\ DescribedRows(x.rows) = DescribedRows(c) /\ c # Nowhere
    BY <1>1, RestoredRows
  <1>7. x.base \in Directories \union {Nowhere} /\ x = [rows |-> x.rows, base |-> x.base]
    BY <1>3 DEF IsArchive
  <1> HIDE DEF x, c
  <1>8. IsSpace(x) /\ DOMAIN x.rows \subseteq 1..drawnIds'
    BY <1>2, <1>6, <1>7 DEF IsSpace
  <1>9. \A id \in DOMAIN x.rows : FirstIds < id
    BY <1>3, <1>6
  <1>10. \A v \in There \ {w} : DOMAIN spaceOf[v].rows \intersect DOMAIN x.rows = {}
    <2>1. \A v \in There : DOMAIN spaceOf[v].rows \subseteq 1..drawnIds
      BY DEF BackupInv, IdsFit
    <2> QED
      BY <1>3, <1>6, <2>1
  <1>11. drawnIds <= drawnIds' /\ drawnIds' \in 0..MaxRowId
    BY <1>1, <1>2, <1>3
  <1> QED
    BY <1>2, <1>4, <1>5, <1>6, <1>8, <1>9, <1>10, <1>11, OneSpace

\* ... working on a workspace,
LEMMA EditStep ==
  ASSUME BackupInv, NEW w \in Titles, NEW rows \in Samples, EditWorkspace(w, rows)
  PROVE  BackupInv'
  <1> DEFINE x == [rows |-> rows, base |-> spaceOf[w].base]
  <1>1. w \in There /\ cameFrom[w] = Nowhere /\ IsSpace(spaceOf[w]) /\ spaceOf[w].base \in Directories \union {Nowhere}
    BY DEF EditWorkspace, BackupInv, IsSpace
  <1>2. spaceOf' = [spaceOf EXCEPT ![w] = x] /\ cameFrom' = [cameFrom EXCEPT ![w] = Nowhere]
    <2>1. [spaceOf[w] EXCEPT !.rows = rows] = x
      BY <1>1 DEF IsSpace
    <2>2. spaceOf' = [spaceOf EXCEPT ![w] = [spaceOf[w] EXCEPT !.rows = rows]]
      BY DEF EditWorkspace
    <2>3. cameFrom = [cameFrom EXCEPT ![w] = Nowhere]
      BY <1>1 DEF BackupInv
    <2> QED
      BY <2>1, <2>2, <2>3 DEF EditWorkspace
  <1>3. drawnIds \in Nat /\ MaxRowId \in Nat /\ FirstIds \in Nat /\ FirstIds <= drawnIds
        /\ drawnIds <= MaxRowId
    BY IdsLemma
  <1>4. DOMAIN rows \subseteq 1..FirstIds /\ Closed(rows) /\ IsRows(rows, SpaceValues)
    <2>1. IsRows(rows, {"plain", "secret"}) /\ Closed(rows)
      BY SamplesAssumption
    <2>2. ASSUME NEW id \in DOMAIN rows PROVE rows[id] \in Row(SpaceValues)
      <3>1. rows[id] \in Row({"plain", "secret"})
        BY <2>1 DEF IsRows
      <3>2. rows[id].value \in SpaceValues
        BY <3>1, BackupRowFields DEF SpaceValues
      <3> QED
        BY <3>1, <3>2, RowWith
    <2> QED
      BY <2>1, <2>2, FirstIdsLemma DEF IsRows
  <1>5. IsSpace(x) /\ x.rows = rows
    BY <1>1, <1>4 DEF IsSpace
  <1>6. 1..FirstIds \subseteq 1..drawnIds
    BY <1>3
  <1>7. \A v \in There \ {w} : cameFrom[v] # Nowhere /\ \A id \in DOMAIN spaceOf[v].rows : FirstIds < id
    BY <1>1 DEF BackupInv, IdsFit
  <1>8. \A v \in There \ {w} : DOMAIN spaceOf[v].rows \intersect DOMAIN rows = {}
    BY <1>3, <1>4, <1>7
  <1> HIDE DEF x
  <1>9. UNCHANGED <<disk, archive, drawnIds>>
    BY DEF EditWorkspace
  <1>10. disk' \in [Directories \X Names -> Hashes \union {Nowhere}]
         /\ (archive' # Nowhere => IsArchive(archive', drawnIds'))
    BY <1>9 DEF BackupInv
  <1>11. drawnIds <= drawnIds' /\ drawnIds' \in 0..MaxRowId
    BY <1>3, <1>9
  <1>12. DOMAIN x.rows \subseteq 1..drawnIds' /\ DOMAIN x.rows \subseteq 1..FirstIds
    BY <1>4, <1>5, <1>6, <1>9
  <1> QED
    BY <1>2, <1>5, <1>7, <1>8, <1>10, <1>11, <1>12, OneSpace

\* ... moving its directory,
LEMMA SetBaseStep ==
  ASSUME BackupInv, NEW w \in Titles, NEW base \in Directories \union {Nowhere}, SetBase(w, base)
  PROVE  BackupInv'
  <1> DEFINE x == [rows |-> spaceOf[w].rows, base |-> base]
  <1>1. w \in There /\ cameFrom[w] = Nowhere /\ IsSpace(spaceOf[w])
    BY DEF SetBase, BackupInv
  <1>2. spaceOf' = [spaceOf EXCEPT ![w] = x] /\ cameFrom' = [cameFrom EXCEPT ![w] = Nowhere]
    <2>1. [spaceOf[w] EXCEPT !.base = base] = x
      BY <1>1 DEF IsSpace
    <2>2. spaceOf' = [spaceOf EXCEPT ![w] = [spaceOf[w] EXCEPT !.base = base]]
      BY DEF SetBase
    <2>3. cameFrom = [cameFrom EXCEPT ![w] = Nowhere]
      BY <1>1 DEF BackupInv
    <2> QED
      BY <2>1, <2>2, <2>3 DEF SetBase
  <1>3. drawnIds \in Nat /\ MaxRowId \in Nat /\ drawnIds <= MaxRowId
    BY IdsLemma
  <1>4. IsSpace(x) /\ x.rows = spaceOf[w].rows
    BY <1>1 DEF IsSpace
  <1> HIDE DEF x
  <1>5. UNCHANGED <<disk, archive, drawnIds>>
    BY DEF SetBase
  <1>6. disk' \in [Directories \X Names -> Hashes \union {Nowhere}]
        /\ (archive' # Nowhere => IsArchive(archive', drawnIds'))
    BY <1>5 DEF BackupInv
  <1>7. drawnIds <= drawnIds' /\ drawnIds' \in 0..MaxRowId
    BY <1>3, <1>5
  <1>8. /\ DOMAIN x.rows \subseteq 1..drawnIds' /\ DOMAIN x.rows \subseteq 1..FirstIds
        /\ \A v \in There \ {w} : cameFrom[v] # Nowhere /\ DOMAIN spaceOf[v].rows \intersect DOMAIN x.rows = {}
    BY <1>1, <1>4, <1>5 DEF BackupInv, IdsFit
  <1> QED
    BY <1>2, <1>4, <1>6, <1>7, <1>8, OneSpace

\* ... and deleting it.
LEMMA DropSpaceStep ==
  ASSUME BackupInv, NEW w \in Titles, DropWorkspace(w)
  PROVE  BackupInv'
  <1>1. /\ spaceOf' = [spaceOf EXCEPT ![w] = Nowhere] /\ cameFrom' = [cameFrom EXCEPT ![w] = Nowhere]
        /\ UNCHANGED <<disk, archive, drawnIds>>
    BY DEF DropWorkspace
  <1>2. drawnIds \in Nat /\ MaxRowId \in Nat /\ drawnIds <= MaxRowId
    BY IdsLemma
  <1>3. disk' \in [Directories \X Names -> Hashes \union {Nowhere}]
        /\ (archive' # Nowhere => IsArchive(archive', drawnIds'))
    BY <1>1 DEF BackupInv
  <1>4. drawnIds <= drawnIds' /\ drawnIds' \in 0..MaxRowId
    BY <1>1, <1>2
  <1> QED
    BY <1>1, <1>3, <1>4, OneSpace

\* At first there is the workspace of the user.
LEMMA BackupBegins ==
  ASSUME BackupInit
  PROVE  BackupInv
  <1> DEFINE first == CHOOSE w \in Titles : TRUE
             rows == CHOOSE rows \in Samples : TRUE
             x == [rows |-> rows, base |-> Nowhere]
  <1>1. /\ spaceOf = [v \in Titles |-> IF v = first THEN x ELSE Nowhere]
        /\ disk \in [Directories \X Names -> {Nowhere}] /\ archive = Nowhere /\ drawnIds = FirstIds
        /\ cameFrom = [w \in Titles |-> Nowhere]
    BY DEF BackupInit
  <1>2. rows \in Samples
    BY SamplesAssumption
  <1> HIDE DEF first, rows
  <1>3. IsRows(rows, SpaceValues) /\ Closed(rows) /\ DOMAIN rows \subseteq 1..FirstIds
    <2>1. IsRows(rows, {"plain", "secret"}) /\ Closed(rows)
      BY <1>2, SamplesAssumption
    <2>2. ASSUME NEW id \in DOMAIN rows PROVE rows[id] \in Row(SpaceValues)
      <3>1. rows[id] \in Row({"plain", "secret"})
        BY <2>1 DEF IsRows
      <3>2. rows[id].value \in SpaceValues
        BY <3>1, BackupRowFields DEF SpaceValues
      <3> QED
        BY <3>1, <3>2, RowWith
    <2> QED
      BY <1>2, <2>1, <2>2, FirstIdsLemma DEF IsRows
  <1>4. IsSpace(x) /\ x.rows = rows
    BY <1>3 DEF IsSpace
  <1> HIDE DEF x
  <1>5. \A v \in There : v = first /\ spaceOf[v] = x /\ cameFrom[v] = Nowhere
    BY <1>1 DEF There
  <1>6. IdsFit
    <2>1. FirstIds <= drawnIds /\ drawnIds \in 0..MaxRowId
      BY <1>1, FirstIdsLemma, MaxRowIdAssumption
    <2>2. \A v \in There : DOMAIN spaceOf[v].rows \subseteq 1..FirstIds
      BY <1>3, <1>4, <1>5
    <2> QED
      BY <1>1, <1>5, <2>1, <2>2 DEF IdsFit
  <1>7. RestoredIsWhole
    BY <1>5 DEF RestoredIsWhole
  <1>8. spaceOf = [w \in Titles |-> spaceOf[w]] /\ cameFrom = [w \in Titles |-> cameFrom[w]]
    BY <1>1
  <1>9. disk \in [Directories \X Names -> Hashes \union {Nowhere}]
    BY <1>1
  <1> QED
    BY <1>1, <1>4, <1>5, <1>6, <1>7, <1>8, <1>9 DEF BackupInv

\* What the invariant says of the types and of whose the rows are.
LEMMA BackupSays ==
  ASSUME BackupInv
  PROVE  BackupTypeOK /\ RowsAreOwn /\ RestoredIsWhole
  <1>1. RowsAreOwn
    BY DEF BackupInv, IdsFit, IsSpace, RowsAreOwn
  <1>2. ASSUME archive # Nowhere
        PROVE  IsRows(archive.rows, {"plain", "excluded"}) /\ archive.files \subseteq Hashes
    <2>1. IsArchive(archive, drawnIds) /\ drawnIds \in Nat /\ MaxRowId \in Nat /\ drawnIds <= MaxRowId
      BY <1>2, IdsLemma DEF BackupInv
    <2> DEFINE old == archive.original
               rows == archive.rows
    <2>2. /\ old \in [DOMAIN old -> Row(KeptValues)] /\ Closed(old) /\ DOMAIN old \subseteq 1..drawnIds
          /\ rows = Rewritten(old) \/ rows = old
      BY <2>1 DEF IsArchive
    <2> HIDE DEF old, rows
    <2>3. rows \in [DOMAIN rows -> Row(KeptValues)] /\ DOMAIN rows \subseteq 1..drawnIds
      BY <2>2, RewrittenLemma
    <2>4. \A id \in DOMAIN rows : id \in 1..MaxRowId /\ rows[id] \in Row(KeptValues)
      BY <2>1, <2>3
    <2>5. IsRows(rows, {"plain", "excluded"})
      BY <2>4 DEF IsRows, KeptValues
    <2> QED
      BY <2>1, <2>5 DEF IsArchive, rows
  <1>3. BackupTypeOK
    BY <1>2 DEF BackupTypeOK, BackupInv, IdsFit, IsSpace, SpaceValues
  <1> QED
    BY <1>1, <1>3 DEF BackupInv

\* The files of an archive that is whole and has them.
LEMMA FilesReturn ==
  ASSUME BackupInv, NEW w \in Titles, NEW directory \in Directories, Restored(w, directory),
         archive.complete, archive.state = "whole", NEW body \in FilesIn(spaceOf'[w].rows)
  PROVE  body.at = "relative" /\ disk'[PathOf(body, directory)] = body.hash
  <1>1. /\ archive # Nowhere /\ drawnIds + drawnIds <= MaxRowId
        /\ spaceOf'[w].rows = Renumbered(archive.rows)
    BY DEF Restored, Restore, Verified, BackupInv
  <1>2. IsArchive(archive, drawnIds) /\ drawnIds \in Nat
    BY <1>1, IdsLemma DEF BackupInv
  <1> DEFINE old == archive.original
             rows == Rewritten(old)
  <1>3. /\ old \in [DOMAIN old -> Row(KeptValues)] /\ Closed(old) /\ DOMAIN old \subseteq 1..drawnIds
        /\ archive.rows = rows /\ archive.files = {f.hash : f \in FilesIn(old)} /\ archive.files \subseteq Hashes
    BY <1>2 DEF IsArchive
  <1> HIDE DEF old
  <1>4. /\ rows \in [DOMAIN rows -> Row(KeptValues)] /\ Closed(rows) /\ DOMAIN rows = DOMAIN old
        /\ \A id \in DOMAIN old : HasFile(rows[id]) =>
             HasFile(old[id]) /\ rows[id].file = EntryFile(old[id].file.hash)
    BY <1>3, RewrittenLemma
  <1> HIDE DEF rows
  <1>5. /\ DOMAIN Renumbered(rows) = {drawnIds + id : id \in DOMAIN rows}
        /\ \A id \in DOMAIN rows : /\ Renumbered(rows)[drawnIds + id].kind = rows[id].kind
                                   /\ Renumbered(rows)[drawnIds + id].file = rows[id].file
    <2>1. DOMAIN rows \subseteq 1..drawnIds
      BY <1>3, <1>4
    <2> QED
      BY <1>1, <1>2, <1>4, <2>1, RenumberedLemma
  <1>6. PICK new \in DOMAIN Renumbered(rows) : HasFile(Renumbered(rows)[new]) /\ body = Renumbered(rows)[new].file
    BY <1>1, <1>3 DEF FilesIn
  <1>7. PICK id \in DOMAIN rows : new = drawnIds + id
    BY <1>5, <1>6
  <1>8. HasFile(rows[id]) /\ body = rows[id].file
    BY <1>5, <1>6, <1>7 DEF HasFile
  <1>9. HasFile(old[id]) /\ body = EntryFile(old[id].file.hash) /\ id \in DOMAIN old
    BY <1>4, <1>8
  <1> DEFINE hash == old[id].file.hash
  <1>10. hash \in archive.files /\ hash \in Hashes
    BY <1>3, <1>9 DEF FilesIn
  <1>11. body.at = "relative" /\ body.name = hash /\ body.hash = hash
    BY <1>9 DEF EntryFile
  <1> HIDE DEF hash
  <1>12. PathOf(body, directory) = <<directory, hash>>
    BY <1>11 DEF PathOf
  <1>13. <<directory, hash>> \in DOMAIN disk
    BY <1>10 DEF BackupInv, Names
  <1>14. WritesFiles(directory, archive.files)
    BY NowhereAssumption DEF Restored
  <1>15. disk'[<<directory, hash>>] = hash
    BY <1>10, <1>13, <1>14 DEF WritesFiles
  <1> QED
    BY <1>11, <1>12, <1>15

\* Backups keep their promise (NativeBackup: export, read_verified_archive and
\* restore with its new ids): a restored workspace has the rows that were exported
\* with the same references among them, shares none with another, and its body
\* files are where its rows say, whatever happened to the archive in between.
THEOREM BackupsKeepTheirPromise == BackupSpec => BackupCorrect
  <1> DEFINE FilesHere ==
        spaceOf' # spaceOf => \A w \in Titles, directory \in Directories :
          /\ Restored(w, directory)
          /\ archive.complete /\ archive.state = "whole"
          => \A body \in FilesIn(spaceOf'[w].rows) :
               /\ body.at = "relative"
               /\ disk'[PathOf(body, directory)] = body.hash
  <1>1. BackupInit => BackupInv
    BY BackupBegins
  <1>2. BackupInv /\ [BackupNext]_backupVars => BackupInv'
    <2> SUFFICES ASSUME BackupInv, [BackupNext]_backupVars PROVE BackupInv'
      OBVIOUS
    <2>1. ASSUME NEW w \in Titles, DropWorkspace(w) PROVE BackupInv'
      BY <2>1, DropSpaceStep
    <2>2. ASSUME NEW w \in Titles, NEW rows \in Samples, EditWorkspace(w, rows) PROVE BackupInv'
      BY <2>2, EditStep
    <2>3. ASSUME NEW w \in Titles, NEW base \in Directories \union {Nowhere}, SetBase(w, base) PROVE BackupInv'
      BY <2>3, SetBaseStep
    <2>4. ASSUME NEW w \in Titles, NEW base \in Directories \union {Nowhere}, Restore(w, base) PROVE BackupInv'
      BY <2>4, RestoreStep
    <2>5. ASSUME NEW w \in Titles, NEW base \in Directories \union {Nowhere}, NEW files \in BOOLEAN,
                 Export(w, files, base)
          PROVE  BackupInv'
      BY <2>5, ExportStep
    <2>6. ASSUME NEW state \in {"changed", "fileMissing"}, DamageArchive(state) PROVE BackupInv'
      BY <2>6, DamageStep
    <2>7. ASSUME NEW place \in Directories \X FileNames, NEW hash \in Hashes \union {Nowhere},
                 ChangeFile(place, hash)
          PROVE  BackupInv'
      BY <2>7, ChangeFileStep
    <2>8. CASE UNCHANGED backupVars
      BY <2>8, NoSpace DEF backupVars, BackupInv
    <2> QED
      BY <2>1, <2>2, <2>3, <2>4, <2>5, <2>6, <2>7, <2>8 DEF BackupNext
  <1>3. BackupInv => BackupTypeOK /\ RowsAreOwn /\ RestoredIsWhole
    BY BackupSays
  <1>4. BackupInv => FilesHere
    BY FilesReturn
  <1>5. BackupSpec => [](BackupTypeOK /\ RowsAreOwn /\ RestoredIsWhole) /\ [][FilesHere]_backupVars
    BY <1>1, <1>2, <1>3, <1>4, PTL DEF BackupSpec
  <1> QED
    BY <1>5 DEF BackupCorrect, FilesComeBack

=============================================================================
