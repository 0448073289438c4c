--------------------------- MODULE CompilerProofs ---------------------------
(***************************************************************************)
(* Proofs about Compiler: for all programs, and any number of runs, the    *)
(* invariants its runs check.                                              *)
(***************************************************************************)
EXTENDS Compiler, TLAPS

-----------------------------------------------------------------------------
(* The inductive invariant                                                 *)

Before == Phases \cup {"main", "build", "open_c"}
Ending == {"write_h", "flush_c", "flush_h", "return"}
Emitted == Ending \cup {"write_c"}
Built == {"open_c", "open_h"} \cup Loops \cup Emitted
Stages == {"idle"} \cup Before \cup Built

Later(p) ==
  IF p = "names" THEN {"types", "locals", "statements"} \cup Emitted
  ELSE IF p = "types" THEN {"locals", "statements"} \cup Emitted
  ELSE IF p = "locals" THEN {"statements"} \cup Emitted ELSE Emitted

\* A run has no exit code before its end.
NoCode == pc # "idle" => code = "none"

\* How much of the files a run has replaced.
Replaced ==
  /\ cfile.of <= run /\ hfile.of <= run
  /\ pc \in Before => cfile.of < run /\ hfile.of < run
  /\ pc = "open_h" => cfile = Holds("empty") /\ hfile.of < run
  /\ pc \in Loops \cup {"write_c"} => cfile = Holds("empty") /\ hfile = Holds("empty")
  /\ pc \in Ending => cfile.of = run /\ hfile.of = run

\* The first n items of loop p went through, and their errors are counted.
Fine(p, n) ==
  \A i \in 1 .. n :
    /\ Items(p)[i] \notin Thrown \cup Dereferenced(p)
    /\ ~errors => Items(p)[i] \notin Reported

PackageFits ==
  /\ pc = "build" =>
       program.package # "missing" /\ "toplevel" \notin program.absent
  /\ pc \in Built => WellFormed /\ program.absent \subseteq {"file"}
  /\ pc \in Built \ {"open_c"} => program.absent = {}

HeadersFine == pc \in Built /\ ~errors => program.headers \cap Reported = {}

ItemsFine ==
  \A p \in Loops :
    /\ pc = p => Fine(p, at)
    /\ pc \in Later(p) => Fine(p, Len(Items(p)))

\* Before the files are open an error ends the run.
ErrorsHaveCause == pc # "idle" /\ errors => Constructs \cap Reported # {}

\* What is in the files as long as writing has not failed.
Flushing ==
  ~lost =>
    /\ pc \in {"flush_h", "return"} => cfile = Holds("complete")
    /\ pc = "return" => hfile = Holds("complete")

Inv ==
  /\ TypeOK /\ NoCode /\ Replaced
  /\ PackageFits /\ HeadersFine /\ ItemsFine /\ ErrorsHaveCause

-----------------------------------------------------------------------------
(* Types                                                                   *)

Kinds(p) ==
  IF p \in {"names", "types"} THEN TypeKinds
  ELSE IF p = "locals" THEN LocalKinds ELSE StatementKinds

\* What a program consists of.
LEMMA ProgramType ==
  ASSUME program \in Programs
  PROVE  /\ program.package \in Packages /\ program.parserParams \in Nat
         /\ program.headers \subseteq TypeKinds
         /\ program.types \in Seq(TypeKinds)
         /\ program.locals \in Seq(LocalKinds)
         /\ program.statements \in Seq(StatementKinds)
         /\ program.absent \subseteq Inputs
  BY ProgramsAssumption

\* Every loop goes over a sequence of constructs.
LEMMA ItemsType ==
  ASSUME program \in Programs, NEW p \in Loops
  PROVE  /\ Len(Items(p)) \in Nat
         /\ \A i \in 1 .. Len(Items(p)) : Items(p)[i] \in Kinds(p)
  BY ProgramType DEF Items, Loops, Kinds

\* The bound on the runs is a number.
LEMMA MaxRunsType == MaxRuns \in Nat
  BY ProgramsAssumption

\* What a file can hold after a run has written to it.
LEMMA HoldsType ==
  ASSUME run \in Nat,
         NEW text \in {"absent", "empty", "partial", "complete"}
  PROVE  Holds(text) \in Contents
  BY DEF Holds, Contents

\* The types hold before the first run.
LEMMA InitType == Init => TypeOK
  <1> SUFFICES ASSUME Init PROVE TypeOK
    OBVIOUS
  <1>1. cfile \in Contents /\ hfile \in Contents
    BY DEF Init, Absent, Contents
  <1>2. run \in 0 .. MaxRuns /\ at \in Nat
    BY MaxRunsType DEF Init
  <1>3. pc = "idle" /\ pc \notin Loops
    BY DEF Init, Loops
  <1> QED
    BY <1>1, <1>2, <1>3 DEF Init, TypeOK

\* Every step keeps the types.
LEMMA NextType ==
  ASSUME TypeOK, [Next]_vars
  PROVE  TypeOK'
  <1> USE DEF TypeOK, Phases, Loops
  <1>1. \A text \in {"absent", "empty", "partial", "complete"} : Holds(text) \in Contents
    BY HoldsType, MaxRunsType
  <1>2. CASE Start
    <2>1. run' \in 0 .. MaxRuns
      BY <1>2, MaxRunsType DEF Start
    <2> QED
      BY <1>2, <2>1 DEF Start, files
  <1>3. ASSUME NEW c \in {"1", "crash", "killed", "0"}, Exit(c), UNCHANGED files,
               errors' \in BOOLEAN
        PROVE  TypeOK'
    BY <1>3 DEF Exit, files
  <1>23. ASSUME Return PROVE TypeOK'
    BY <1>3, <1>23 DEF Return, files
  <1>4. ASSUME NEW p \in {"parse", "frontend", "midend", "main", "build"}, Goto(p),
               pc \notin Loops
        PROVE  TypeOK'
    <2>1. at = 0 /\ at' = 0 /\ pc' \notin Loops
      BY <1>4 DEF Goto
    <2> QED
      BY <1>4, <2>1 DEF Goto, files
  <1>5. CASE PhaseSucceeds
    <2>1. pc \notin Loops /\ Goto(NextPhase(pc))
      BY <1>5 DEF PhaseSucceeds
    <2>2. NextPhase(pc) \in {"parse", "frontend", "midend", "main"}
      BY DEF NextPhase
    <2> QED
      BY <1>4, <2>1, <2>2
  <1>6. CASE PhaseReports
    BY <1>3, <1>6 DEF PhaseReports, Fail
  <1>7. CASE PhaseThrows
    BY <1>3, <1>7 DEF PhaseThrows, files
  <1>8. CASE LocateMain
    BY <1>3, <1>4, <1>8, <1>23 DEF LocateMain, Fail
  <1>9. CASE Build
    BY <1>3, <1>9, <1>23 DEF Build, Fail, files
  <1>10. CASE OpenC
    BY <1>1, <1>3, <1>10, <1>23 DEF OpenC, Fail
  <1>11. CASE OpenH
    <2>1. CASE Fail
      BY <1>3, <2>1 DEF Fail
    <2>2. CASE /\ hfile' = Holds("empty") /\ pc' = "names"
               /\ UNCHANGED <<run, program, at, errors, code, cfile, lost>>
      <3>1. Len(Items("names"))' \in Nat
        BY <2>2, ItemsType DEF Items
      <3>2. pc' \in Loops /\ at' = 0 /\ at' <= Len(Items(pc))'
        BY <1>11, <2>2, <3>1 DEF OpenH
      <3> QED
        BY <1>1, <2>2, <3>2
    <2> QED
      BY <1>11, <2>1, <2>2 DEF OpenH
  <1>12. CASE EmitItem
    <2>1. /\ Len(Items(pc)) \in Nat /\ at \in Nat
          /\ at < Len(Items(pc)) /\ pc \in Loops
      BY <1>12, ItemsType DEF EmitItem, InLoop
    <2>2. at + 1 \in Nat /\ at + 1 <= Len(Items(pc))
      BY <2>1
    <2>3. Items(pc)' = Items(pc)
      BY <1>12 DEF EmitItem, Items
    <2>4. pc' = pc /\ at' = at + 1
      BY <1>12 DEF EmitItem
    <2>5. at' <= Len(Items(pc))'
      BY <2>2, <2>3, <2>4
    <2>6. at' \in Nat /\ pc' \in Loops
      BY <2>1, <2>2, <2>4
    <2>7. errors' \in BOOLEAN
      BY <1>12 DEF EmitItem
    <2> QED
      BY <1>12, <2>4, <2>5, <2>6, <2>7 DEF EmitItem, files
  <1>13. CASE EmitThrows
    BY <1>3, <1>13 DEF EmitThrows, files
  <1>14. CASE EmitCrashes
    BY <1>3, <1>14 DEF EmitCrashes
  <1>15. CASE EndLoop
    <2>1. pc' \in Loops => Len(Items(pc))' \in Nat
      BY <1>15, ItemsType DEF EndLoop, Items
    <2>2. pc' \in Loops \cup {"write_c"}
      BY <1>15 DEF EndLoop, After
    <2>3. at' = 0 /\ (pc' \in Loops => at' <= Len(Items(pc))')
      BY <1>15, <2>1 DEF EndLoop
    <2> QED
      BY <1>15, <2>2, <2>3 DEF EndLoop, files
  <1>16. CASE WriteC
    BY <1>1, <1>16 DEF WriteC, Written
  <1>17. CASE WriteH
    BY <1>1, <1>17 DEF WriteH, Written
  <1>18. CASE FlushC
    BY <1>1, <1>18 DEF FlushC
  <1>19. CASE FlushH
    BY <1>1, <1>19 DEF FlushH
  <1>20. CASE ReturnFromBackend
    BY <1>20, <1>23 DEF ReturnFromBackend
  <1>21. CASE Kill
    BY <1>3, <1>21 DEF Kill, files
  <1>22. CASE UNCHANGED vars
    BY <1>22 DEF vars, Items
  <1> QED
    BY <1>2, <1>5, <1>6, <1>7, <1>8, <1>9, <1>10, <1>11, <1>12, <1>13, <1>14,
       <1>15, <1>16, <1>17, <1>18, <1>19, <1>20, <1>21, <1>22
       DEF Next, Compile

\* The compiler's variables keep their types, for all programs.
THEOREM TypeCorrect == Spec => []TypeOK
  <1>1. TypeOK /\ [Next]_vars => TypeOK'
    BY NextType
  <1> QED
    BY InitType, <1>1, PTL DEF Spec

-----------------------------------------------------------------------------
(* The files                                                               *)

\* A step that ends a run and one that begins another.
LEMMA EndOfRun ==
  ASSUME TypeOK, NoCode, Replaced, UNCHANGED files,
         NEW c \in {"0", "1", "crash", "killed"}, Exit(c)
  PROVE  NoCode' /\ Replaced'
  BY DEF NoCode, Replaced, Exit, files, Before, Phases, Loops, Ending

\* A return of the backend is one of the former.
LEMMA ReturnEndsRun ==
  ASSUME TypeOK, NoCode, Replaced, Return
  PROVE  NoCode' /\ Replaced'
  BY EndOfRun DEF Return, files

\* What a run has replaced of the files follows from where it is.
LEMMA NextReplaced ==
  ASSUME TypeOK, NoCode, Replaced, [Next]_vars
  PROVE  NoCode' /\ Replaced'
  <1> USE DEF NoCode, Before, Phases, Loops, Ending
  <1>0. /\ run \in Nat /\ cfile.of \in Nat /\ hfile.of \in Nat
        /\ \A text : Holds(text).of = run
    BY MaxRunsType DEF TypeOK, Contents, Holds
  <1>1. CASE Start
    BY <1>0, <1>1 DEF Start, Replaced, files
  <1>2. CASE PhaseSucceeds
    BY <1>2 DEF PhaseSucceeds, NextPhase, Goto, Replaced, files
  <1>3. CASE PhaseReports
    BY <1>3, EndOfRun DEF PhaseReports, Fail
  <1>4. CASE PhaseThrows
    BY <1>4, EndOfRun DEF PhaseThrows, files
  <1>5. CASE LocateMain
    <2>1. CASE Fail
      BY <2>1, EndOfRun DEF Fail
    <2>2. CASE Goto("build")
      BY <1>5, <2>2 DEF LocateMain, Goto, Replaced, files
    <2> QED
      BY <1>5, <2>1, <2>2, ReturnEndsRun DEF LocateMain
  <1>6. CASE Build
    <2>1. CASE Fail
      BY <2>1, EndOfRun DEF Fail
    <2>2. CASE Exit("1") /\ UNCHANGED <<errors, files>>
      BY <2>2, EndOfRun DEF files
    <2>3. CASE pc' = "open_c" /\ UNCHANGED <<run, program, at, code, files>>
      BY <1>6, <2>3 DEF Build, Replaced, files
    <2> QED
      BY <1>6, <2>1, <2>2, <2>3, ReturnEndsRun DEF Build
  <1>7. CASE OpenC
    <2>1. CASE Fail
      BY <2>1, EndOfRun DEF Fail
    <2>2. CASE /\ cfile' = Holds("empty") /\ pc' = "open_h"
               /\ UNCHANGED <<run, program, at, errors, code, hfile, lost>>
      BY <1>0, <1>7, <2>2 DEF OpenC, Replaced, Holds
    <2> QED
      BY <1>7, <2>1, <2>2, ReturnEndsRun DEF OpenC
  <1>8. CASE OpenH
    <2>1. CASE Fail
      BY <2>1, EndOfRun DEF Fail
    <2>2. CASE /\ hfile' = Holds("empty") /\ pc' = "names"
               /\ UNCHANGED <<run, program, at, errors, code, cfile, lost>>
      BY <1>0, <1>8, <2>2 DEF OpenH, Replaced, Holds
    <2> QED
      BY <1>8, <2>1, <2>2 DEF OpenH
  <1>9. CASE EmitItem
    BY <1>9 DEF EmitItem, Replaced, files, Holds
  <1>10. CASE EmitThrows
    BY <1>10, EndOfRun DEF EmitThrows, files
  <1>11. CASE EmitCrashes
    BY <1>11, EndOfRun DEF EmitCrashes
  <1>12. CASE EndLoop
    BY <1>12 DEF EndLoop, After, Replaced, files, Holds
  <1>13. CASE WriteC
    BY <1>0, <1>13 DEF WriteC, Written, Replaced, Holds
  <1>14. CASE WriteH
    BY <1>0, <1>14 DEF WriteH, Written, Replaced, Holds
  <1>15. CASE FlushC
    BY <1>0, <1>15 DEF FlushC, Replaced
  <1>16. CASE FlushH
    BY <1>0, <1>16 DEF FlushH, Replaced
  <1>17. CASE ReturnFromBackend
    BY <1>17, ReturnEndsRun DEF ReturnFromBackend
  <1>18. CASE Kill
    BY <1>18, EndOfRun DEF Kill, files
  <1>19. CASE UNCHANGED vars
    BY <1>19 DEF vars, Replaced, Holds
  <1> QED
    BY <1>1, <1>2, <1>3, <1>4, <1>5, <1>6, <1>7, <1>8, <1>9, <1>10, <1>11,
       <1>12, <1>13, <1>14, <1>15, <1>16, <1>17, <1>18, <1>19
       DEF Next, Compile

\* A complete file is never put beside a complete file of another run.
LEMMA NextNeverMixed ==
  ASSUME TypeOK, Replaced, NeverMixed, [Next]_vars
  PROVE  NeverMixed'
  <1>1. CASE UNCHANGED <<cfile, hfile>>
    BY <1>1 DEF NeverMixed
  <1>2. CASE \E text : cfile' = Holds(text) /\ hfile' = hfile /\ hfile.of = run
    BY <1>2 DEF NeverMixed, Holds
  <1>3. CASE \E text : hfile' = Holds(text) /\ cfile' = cfile /\ cfile.of = run
    BY <1>3 DEF NeverMixed, Holds
  <1>4. CASE cfile' = Holds("empty") \/ hfile' = Holds("empty")
    BY <1>4 DEF NeverMixed, Holds
  <1>5. CASE WriteC \/ FlushC
    <2>1. hfile.of = run
      BY <1>5 DEF WriteC, FlushC, Replaced, Ending, Holds
    <2> QED
      BY <1>1, <1>2, <1>5, <2>1 DEF WriteC, FlushC, Written, files
  <1>6. CASE WriteH \/ FlushH
    <2>1. cfile.of = run
      BY <1>6 DEF WriteH, FlushH, Replaced, Ending, Holds
    <2> QED
      BY <1>1, <1>3, <1>6, <2>1 DEF WriteH, FlushH, Written, files
  <1>7. CASE OpenC
    BY <1>1, <1>4, <1>7 DEF OpenC, Fail, Return, files
  <1>8. CASE OpenH
    BY <1>1, <1>4, <1>8 DEF OpenH, Fail, files
  <1>9. CASE Start \/ Kill \/ UNCHANGED vars
    BY <1>1, <1>9 DEF Start, Kill, vars, files
  <1>10. CASE PhaseSucceeds \/ PhaseReports \/ PhaseThrows \/ LocateMain \/ Build
    BY <1>1, <1>10 DEF PhaseSucceeds, PhaseReports, PhaseThrows, LocateMain,
                       Build, Goto, Fail, Return, files
  <1>11. CASE EmitItem \/ EmitThrows \/ EmitCrashes \/ EndLoop \/ ReturnFromBackend
    BY <1>1, <1>11 DEF EmitItem, EmitThrows, EmitCrashes, EndLoop,
                       ReturnFromBackend, Return, files
  <1> QED
    BY <1>5, <1>6, <1>7, <1>8, <1>9, <1>10, <1>11 DEF Next, Compile

\* However often and wherever runs fail or are killed, two complete files are
\* of one run.
THEOREM FilesOfOneRun == Spec => []NeverMixed
  <1> DEFINE I == TypeOK /\ NoCode /\ Replaced /\ NeverMixed
  <1>1. Init => I
    <2> SUFFICES ASSUME Init PROVE NoCode /\ Replaced /\ NeverMixed
      BY InitType
    <2> QED
      BY DEF Init, NoCode, Replaced, NeverMixed, Absent, Before, Phases, Loops,
             Ending
  <1>2. I /\ [Next]_vars => I'
    BY NextType, NextReplaced, NextNeverMixed
  <1>3. I => NeverMixed
    OBVIOUS
  <1> HIDE DEF I
  <1> QED
    BY <1>1, <1>2, <1>3, PTL DEF Spec

-----------------------------------------------------------------------------
(* The errors                                                              *)

\* Whatever a loop goes over is among the constructs of the program.
LEMMA ItemsAreConstructs ==
  ASSUME program \in Programs, NEW p \in Loops, NEW i \in 1 .. Len(Items(p))
  PROVE  Items(p)[i] \in Constructs
  <1>1. /\ Items(p) \in {program.types, program.locals, program.statements}
        /\ DOMAIN Items(p) = 1 .. Len(Items(p))
    BY ProgramType DEF Items, Loops
  <1> QED
    BY <1>1 DEF Constructs

\* And the other way round.
LEMMA ConstructsAreItems ==
  ASSUME program \in Programs, NEW k \in Constructs
  PROVE  \/ k \in program.headers
         \/ \E p \in {"types", "locals", "statements"} :
              \E i \in 1 .. Len(Items(p)) : k = Items(p)[i]
  <1>1. /\ Items("types") = program.types /\ Items("locals") = program.locals
        /\ Items("statements") = program.statements
    BY DEF Items
  <1>2. /\ DOMAIN program.types = 1 .. Len(program.types)
        /\ DOMAIN program.locals = 1 .. Len(program.locals)
        /\ DOMAIN program.statements = 1 .. Len(program.statements)
    BY ProgramType
  <1>3. ASSUME k \notin program.headers
        PROVE  \/ \E i \in 1 .. Len(program.types) : k = program.types[i]
               \/ \E i \in 1 .. Len(program.locals) : k = program.locals[i]
               \/ \E i \in 1 .. Len(program.statements) : k = program.statements[i]
    BY <1>2, <1>3 DEF Constructs
  <1> QED
    BY <1>1, <1>3

\* Errors are only added during a run.
LEMMA FineStays ==
  ASSUME program' = program, errors => errors', NEW p, NEW n, Fine(p, n)
  PROVE  Fine(p, n)'
  BY DEF Fine, Items

\* A construct the emission came past was reported if it should have been.
LEMMA NextItemsFine ==
  ASSUME TypeOK, ItemsFine, [Next]_vars
  PROVE  ItemsFine'
  <1>1. ASSUME pc' \in {"idle", "open_c", "open_h"} \cup Phases \cup {"main", "build"}
        PROVE  ItemsFine'
    BY <1>1 DEF ItemsFine, Loops, Later, Emitted, Ending, Phases
  <1>2. CASE Start \/ Kill
    BY <1>1, <1>2 DEF Start, Kill, Exit, Phases
  <1>3. CASE PhaseSucceeds \/ PhaseReports \/ PhaseThrows \/ LocateMain \/ Build
    BY <1>1, <1>3 DEF PhaseSucceeds, PhaseReports, PhaseThrows, LocateMain,
                      Build, Goto, NextPhase, Fail, Return, Exit, Phases
  <1>4. CASE OpenC \/ EmitThrows \/ EmitCrashes \/ ReturnFromBackend
    BY <1>1, <1>4 DEF OpenC, Fail, EmitThrows, EmitCrashes, ReturnFromBackend,
                      Return, Exit
  <1>5. CASE OpenH
    <2>1. CASE Fail
      BY <1>1, <2>1 DEF Fail, Exit
    <2>2. CASE pc' = "names" /\ UNCHANGED at
      <3>1. at' = 0
        BY <1>5, <2>2 DEF OpenH, TypeOK, Loops
      <3>2. Fine("names", at)'
        BY <3>1 DEF Fine
      <3> QED
        BY <2>2, <3>2 DEF ItemsFine, Loops, Later, Emitted, Ending
    <2> QED
      BY <1>5, <2>1, <2>2 DEF OpenH
  <1>6. CASE EmitItem
    <2>1. program' = program /\ pc' = pc /\ pc \in Loops /\ (errors => errors')
      BY <1>6 DEF EmitItem, InLoop
    <2>2. ASSUME NEW p \in Loops, NEW n \in Nat, p = pc, n = at
          PROVE  Fine(p, n + 1)'
      <3>1. Fine(p, n)'
        BY <2>1, <2>2, FineStays DEF ItemsFine
      <3>2. /\ Items(p)'[n + 1] \notin Thrown \cup Dereferenced(p)
            /\ ~errors' => Items(p)'[n + 1] \notin Reported
        BY <1>6, <2>1, <2>2 DEF EmitItem, Item, Items
      <3>3. \A i \in 1 .. n + 1 : i \in 1 .. n \/ i = n + 1
        OBVIOUS
      <3> QED
        BY <3>1, <3>2, <3>3 DEF Fine
    <2>3. \A p \in Loops : pc \in Later(p) => Fine(p, Len(Items(p)))'
      BY <2>1, FineStays DEF ItemsFine, Items
    <2>4. at \in Nat /\ at' = at + 1
      BY <1>6 DEF EmitItem, TypeOK
    <2> QED
      BY <2>1, <2>2, <2>3, <2>4 DEF ItemsFine
  <1>7. CASE EndLoop
    <2>1. /\ program' = program /\ errors' = errors /\ pc \in Loops
          /\ pc' = After(pc) /\ at' = 0
      BY <1>7 DEF EndLoop
    <2>2. \A p \in Loops : pc = p \/ pc \in Later(p) => Fine(p, Len(Items(p)))
      BY <1>7 DEF EndLoop, ItemsFine
    <2>3. \A p \in Loops : pc' \in Later(p) => pc = p \/ pc \in Later(p)
      BY <2>1 DEF After, Later, Loops, Emitted, Ending
    <2>4. \A p \in Loops : pc' \in Later(p) => Fine(p, Len(Items(p)))'
      BY <2>1, <2>2, <2>3, FineStays DEF Items
    <2>5. \A p : Fine(p, at)'
      BY <2>1 DEF Fine
    <2> QED
      BY <2>4, <2>5 DEF ItemsFine
  <1>8. CASE WriteC \/ WriteH \/ FlushC \/ FlushH
    <2>1. program' = program /\ errors' = errors /\ pc \in Emitted /\ pc' \in Emitted
      BY <1>8 DEF WriteC, WriteH, FlushC, FlushH, Emitted, Ending
    <2>2. \A p \in Loops : Fine(p, Len(Items(p)))'
      BY <2>1, FineStays DEF ItemsFine, Later, Items, Loops
    <2>3. pc' \notin Loops
      BY <2>1 DEF Emitted, Ending, Loops
    <2> QED
      BY <2>2, <2>3 DEF ItemsFine
  <1>9. CASE UNCHANGED vars
    BY <1>9 DEF vars, ItemsFine, Fine, Items
  <1> QED
    BY <1>2, <1>3, <1>4, <1>5, <1>6, <1>7, <1>8, <1>9 DEF Next, Compile

\* Past FPPProgram::build the package is the one expected, and what is wrong
\* with the type of headers has been reported.
LEMMA NextPackageFits ==
  ASSUME TypeOK, PackageFits, HeadersFine, [Next]_vars
  PROVE  PackageFits' /\ HeadersFine'
  <1> USE DEF PackageFits, HeadersFine, Built, Emitted, Ending, Loops, WellFormed
  <1>1. CASE pc' \in {"idle", "main"} \cup Phases
    BY <1>1 DEF Phases
  <1>2. CASE Start \/ Kill
    BY <1>1, <1>2 DEF Start, Kill, Exit, Phases
  <1>3. CASE PhaseSucceeds \/ PhaseReports \/ PhaseThrows
    BY <1>1, <1>3 DEF PhaseSucceeds, PhaseReports, PhaseThrows, Goto, NextPhase,
                      Fail, Exit, Phases
  <1>4. CASE LocateMain
    BY <1>1, <1>4 DEF LocateMain, Goto, Fail, Return, Exit
  <1>5. CASE Build
    BY <1>1, <1>5, ProgramType DEF Build, Fail, Return, Exit, TypeOK, Inputs
  <1>6. CASE OpenC \/ OpenH
    BY <1>1, <1>6 DEF OpenC, OpenH, Fail, Return, Exit
  <1>7. CASE EmitThrows \/ EmitCrashes \/ ReturnFromBackend
    BY <1>1, <1>7 DEF EmitThrows, EmitCrashes, ReturnFromBackend, Return, Exit
  <1>8. CASE EmitItem \/ EndLoop
    BY <1>8 DEF EmitItem, InLoop, EndLoop, After
  <1>9. CASE WriteC \/ WriteH \/ FlushC \/ FlushH
    BY <1>9 DEF WriteC, WriteH, FlushC, FlushH
  <1>10. CASE UNCHANGED vars
    BY <1>10 DEF vars
  <1> QED
    BY <1>2, <1>3, <1>4, <1>5, <1>6, <1>7, <1>8, <1>9, <1>10 DEF Next, Compile

\* A run that goes on after an error has met a construct that causes one.
LEMMA NextErrorsHaveCause ==
  ASSUME TypeOK, ErrorsHaveCause, [Next]_vars
  PROVE  ErrorsHaveCause'
  <1>1. ASSUME pc' = "idle" PROVE ErrorsHaveCause'
    BY <1>1 DEF ErrorsHaveCause
  <1>2. ASSUME program' = program, errors' = errors, pc # "idle"
        PROVE  ErrorsHaveCause'
    BY <1>2 DEF ErrorsHaveCause, Constructs
  <1>3. CASE Start
    BY <1>3 DEF Start, ErrorsHaveCause
  <1>4. CASE PhaseSucceeds \/ PhaseReports \/ PhaseThrows \/ LocateMain
    BY <1>1, <1>2, <1>4 DEF PhaseSucceeds, PhaseReports, PhaseThrows, LocateMain,
                            Goto, Fail, Return, Exit, Phases
  <1>5. CASE Build
    <2>1. CASE /\ errors' = (errors \/ program.headers \cap Reported # {})
               /\ program' = program
      BY <1>5, <2>1 DEF Build, ErrorsHaveCause, Constructs
    <2> QED
      BY <1>1, <1>5, <2>1 DEF Build, Fail, Return, Exit
  <1>6. CASE EmitItem
    <2>1. /\ program' = program /\ errors' = (errors \/ Item \in Reported)
          /\ pc # "idle"
      BY <1>6 DEF EmitItem, InLoop, Loops
    <2>2. Item \in Constructs
      BY <1>6, ItemsAreConstructs DEF EmitItem, InLoop, Item, TypeOK
    <2>3. Constructs' = Constructs
      BY <2>1 DEF Constructs
    <2> QED
      BY <2>1, <2>2, <2>3 DEF ErrorsHaveCause
  <1>7. CASE OpenC \/ OpenH
    BY <1>1, <1>2, <1>7 DEF OpenC, OpenH, Fail, Return, Exit
  <1>8. CASE EmitThrows \/ EmitCrashes \/ ReturnFromBackend \/ Kill
    BY <1>1, <1>8 DEF EmitThrows, EmitCrashes, ReturnFromBackend, Return, Kill, Exit
  <1>9. CASE EndLoop \/ WriteC \/ WriteH \/ FlushC \/ FlushH
    BY <1>2, <1>9 DEF EndLoop, Loops, WriteC, WriteH, FlushC, FlushH
  <1>10. CASE UNCHANGED vars
    BY <1>10 DEF vars, ErrorsHaveCause, Constructs
  <1> QED
    BY <1>3, <1>4, <1>5, <1>6, <1>7, <1>8, <1>9, <1>10 DEF Next, Compile

\* The inductive invariant holds at first and is kept.
LEMMA InvHolds == (Init => Inv) /\ (Inv /\ [Next]_vars => Inv')
  <1>1. Init => Inv
    <2> SUFFICES ASSUME Init
                 PROVE  NoCode /\ Replaced /\ PackageFits /\ HeadersFine
                        /\ ItemsFine /\ ErrorsHaveCause
      BY InitType DEF Inv
    <2> QED
      BY DEF Init, NoCode, Replaced, PackageFits, HeadersFine, ItemsFine,
             ErrorsHaveCause, Absent, Before, Phases, Built, Loops, Later,
             Emitted, Ending
  <1>2. Inv /\ [Next]_vars => Inv'
    BY NextType, NextReplaced, NextPackageFits, NextItemsFine, NextErrorsHaveCause
       DEF Inv
  <1> QED
    BY <1>1, <1>2

-----------------------------------------------------------------------------
(* How a run ends                                                          *)

\* A step that does not return from the backend ends the run, if at all, with
\* files that are not complete, or not with the code of a return.
LEMMA NextCompleteButRejected ==
  ASSUME Inv, CompleteButRejected, [Next]_vars
  PROVE  CompleteButRejected'
  <1> USE DEF Inv, CompleteButRejected
  <1>1. CASE pc' # "idle" \/ code' # "1"
    BY <1>1
  <1>2. ASSUME UNCHANGED <<files, run>>, cfile # Holds("complete") \/ hfile # Holds("complete")
        PROVE  CompleteButRejected'
    BY <1>2 DEF files, Holds
  <1>3. CASE pc \in Before
    <2>1. cfile.of < run /\ cfile.of \in Nat /\ run \in Nat
      BY <1>3, MaxRunsType DEF Replaced, TypeOK, Contents
    <2>2. cfile # Holds("complete")
      BY <2>1 DEF Holds
    <2>3. CASE PhaseSucceeds \/ PhaseReports \/ PhaseThrows \/ LocateMain \/ Build
      BY <1>1, <1>2, <2>2, <2>3
         DEF PhaseSucceeds, PhaseReports, PhaseThrows, LocateMain, Build, Goto,
             NextPhase, Phases, Fail, Return, Exit, files
    <2>4. CASE OpenC
      BY <1>1, <1>2, <2>2, <2>4 DEF OpenC, Fail, Return, Exit, files
    <2>5. CASE Kill \/ UNCHANGED vars
      BY <1>1, <1>3, <2>5 DEF Kill, Exit, vars, Before, Phases
    <2> QED
      BY <1>3, <2>3, <2>4, <2>5
         DEF Next, Compile, Before, Phases, Start, OpenH, EmitItem, EmitThrows,
             EmitCrashes, EndLoop, InLoop, Loops, WriteC, WriteH, FlushC, FlushH,
             ReturnFromBackend
  <1>4. CASE OpenH
    <2>1. hfile.of < run /\ hfile.of \in Nat /\ run \in Nat
      BY <1>4, MaxRunsType DEF OpenH, Replaced, TypeOK, Contents
    <2>2. hfile # Holds("complete")
      BY <2>1 DEF Holds
    <2> QED
      BY <1>1, <1>2, <1>4, <2>2 DEF OpenH, Fail, Exit
  <1>5. CASE EmitThrows
    <2>1. cfile # Holds("complete")
      BY <1>5 DEF EmitThrows, InLoop, Replaced, Holds
    <2> QED
      BY <1>2, <1>5, <2>1 DEF EmitThrows, Exit, files
  <1>6. CASE ReturnFromBackend
    <2>1. errors => Constructs' \cap Reported # {}
      BY <1>6 DEF ReturnFromBackend, Return, Exit, ErrorsHaveCause, Constructs
    <2> QED
      BY <1>1, <1>6, <2>1 DEF ReturnFromBackend, Return, Exit
  <1>7. CASE Start \/ Kill \/ EmitCrashes
    BY <1>1, <1>7 DEF Start, Kill, EmitCrashes, Exit
  <1>8. CASE EmitItem \/ EndLoop
    BY <1>1, <1>8 DEF EmitItem, InLoop, EndLoop, After, Loops
  <1>9. CASE WriteC \/ WriteH \/ FlushC \/ FlushH
    BY <1>1, <1>9 DEF WriteC, WriteH, FlushC, FlushH
  <1>10. CASE UNCHANGED vars
    BY <1>10 DEF vars, Holds, Constructs
  <1> QED
    BY <1>3, <1>4, <1>5, <1>6, <1>7, <1>8, <1>9, <1>10
       DEF Next, Compile, PhaseSucceeds, PhaseReports, PhaseThrows, LocateMain,
           Build, OpenC, Before

\* When a failed run leaves two complete files, the program has a construct
\* the backend reports: nothing else that fails, not even an exception while
\* emitting, lets the files be completed.
THEOREM CompleteFilesOfFailure == Spec => []CompleteButRejected
  <1>1. Init => CompleteButRejected
    BY DEF Init, CompleteButRejected
  <1>2. Inv /\ CompleteButRejected /\ [Next]_vars => CompleteButRejected'
    BY NextCompleteButRejected
  <1> QED
    BY InvHolds, <1>1, <1>2, PTL DEF Spec

\* Unless writing has failed, the files are complete when the backend returns.
LEMMA NextFlushing ==
  ASSUME Flushing, [Next]_vars
  PROVE  Flushing'
  <1> USE DEF Flushing
  <1>1. CASE pc' \notin {"flush_h", "return"}
    BY <1>1
  <1>2. CASE FlushC \/ FlushH
    BY <1>2 DEF FlushC, FlushH, Holds
  <1>3. CASE UNCHANGED vars
    BY <1>3 DEF vars, Holds
  <1>4. CASE Start \/ Kill \/ EmitThrows \/ EmitCrashes \/ ReturnFromBackend
    BY <1>1, <1>4 DEF Start, Kill, EmitThrows, EmitCrashes, ReturnFromBackend,
                      Return, Exit
  <1>5. CASE PhaseSucceeds \/ PhaseReports \/ PhaseThrows \/ LocateMain \/ Build
    BY <1>1, <1>5 DEF PhaseSucceeds, PhaseReports, PhaseThrows, LocateMain, Build,
                      Goto, NextPhase, Phases, Fail, Return, Exit
  <1>6. CASE OpenC \/ OpenH
    BY <1>1, <1>6 DEF OpenC, OpenH, Fail, Return, Exit
  <1>7. CASE EmitItem \/ EndLoop
    BY <1>1, <1>7 DEF EmitItem, InLoop, EndLoop, After, Loops
  <1>8. CASE WriteC \/ WriteH
    BY <1>1, <1>8 DEF WriteC, WriteH
  <1> QED
    BY <1>2, <1>3, <1>4, <1>5, <1>6, <1>7, <1>8 DEF Next, Compile

\* A return without errors is one from a program nothing is wrong with.
LEMMA ReturnIsSound ==
  ASSUME Inv, pc = "return", ~errors
  PROVE  /\ WellFormed /\ program.absent = {}
         /\ Constructs \cap (Reported \cup Thrown \cup Dereferenced("types")) = {}
  <1>1. program \in Programs
    BY DEF Inv, TypeOK
  <1>2. \A p \in Loops : Fine(p, Len(Items(p)))
    BY DEF Inv, ItemsFine, Loops, Later, Emitted, Ending
  <1>3. ASSUME NEW k \in Constructs
        PROVE  k \notin Reported \cup Thrown \cup Dereferenced("types")
    <2>1. CASE k \in program.headers
      <3>1. k \in TypeKinds /\ k \notin Reported
        BY <1>1, <2>1, ProgramType DEF Inv, HeadersFine, Built, Emitted, Ending
      <3> QED
        BY <3>1 DEF TypeKinds, Reported, Thrown, Dereferenced
    <2>2. ASSUME NEW p \in {"types", "locals", "statements"},
                 NEW i \in 1 .. Len(Items(p)), k = Items(p)[i]
          PROVE  k \notin Reported \cup Thrown \cup Dereferenced("types")
      BY <1>2, <2>2 DEF Fine, Loops, Dereferenced
    <2> QED
      BY <1>1, <2>1, <2>2, ConstructsAreItems
  <1> QED
    BY <1>3 DEF Inv, PackageFits, Built, Emitted, Ending

\* A return before a file is opened leaves none of this run.
LEMMA SilentReturn ==
  ASSUME TypeOK, Replaced, Return, pc \in Before, program.absent # {}
  PROVE  SuccessIsComplete'
  <1>1. /\ cfile.of \in Nat /\ hfile.of \in Nat /\ run \in Nat
        /\ cfile.of < run /\ hfile.of < run
    BY MaxRunsType DEF TypeOK, Contents, Replaced
  <1>2. UNCHANGED <<program, run, cfile, hfile>>
    BY DEF Return, Exit, files
  <1> QED
    BY <1>1, <1>2 DEF SuccessIsComplete

\* Exit code 0 is only given where the backend lacked an input and the run has
\* not touched a file, or for a program all of whose constructs the backend
\* can emit, with both files complete unless writing them has failed.
THEOREM SuccessSound == Spec => []SuccessIsComplete
  <1> DEFINE I == Inv /\ Flushing /\ SuccessIsComplete
  <1>1. Init => I
    BY InvHolds DEF Init, Flushing, SuccessIsComplete
  <1>2. Inv /\ Flushing /\ SuccessIsComplete /\ [Next]_vars => SuccessIsComplete'
    <2> SUFFICES ASSUME Inv, Flushing, SuccessIsComplete, [Next]_vars
                 PROVE  SuccessIsComplete'
      OBVIOUS
    <2>1. ASSUME pc' # "idle" \/ code' # "0" PROVE SuccessIsComplete'
      BY <2>1 DEF SuccessIsComplete
    <2>2. CASE ReturnFromBackend
      <3>1. CASE errors
        BY <2>1, <2>2, <3>1 DEF ReturnFromBackend, Return, Exit
      <3>2. CASE ~errors
        <4>1. /\ Constructs' = Constructs /\ program' = program /\ run' = run
              /\ cfile' = cfile /\ hfile' = hfile /\ lost' = lost /\ pc = "return"
          BY <2>2 DEF ReturnFromBackend, Return, Exit, files, Constructs
        <4> QED
          BY <3>2, <4>1, ReturnIsSound
          DEF SuccessIsComplete, WellFormed, Flushing, Holds
      <3> QED
        BY <3>1, <3>2
    <2>3. CASE UNCHANGED vars
      BY <2>3 DEF vars, SuccessIsComplete, WellFormed, Holds, Constructs
    <2>4. CASE Start \/ Kill \/ EmitThrows \/ EmitCrashes
      BY <2>1, <2>4 DEF Start, Kill, EmitThrows, EmitCrashes, Exit
    <2>9. CASE Return /\ pc \in Before /\ program.absent # {}
      BY <2>9, SilentReturn DEF Inv
    <2>5. CASE PhaseSucceeds \/ PhaseReports \/ PhaseThrows
      BY <2>1, <2>5 DEF PhaseSucceeds, PhaseReports, PhaseThrows, Goto,
                        NextPhase, Phases, Fail, Exit
    <2>10. CASE LocateMain \/ Build
      BY <2>1, <2>9, <2>10 DEF LocateMain, Build, Before, Goto, Fail, Exit
    <2>6. CASE OpenC \/ OpenH
      BY <2>1, <2>6, <2>9 DEF OpenC, OpenH, Before, Fail, Exit
    <2>7. CASE EmitItem \/ EndLoop
      BY <2>1, <2>7 DEF EmitItem, InLoop, EndLoop, After, Loops
    <2>8. CASE WriteC \/ WriteH \/ FlushC \/ FlushH
      BY <2>1, <2>8 DEF WriteC, WriteH, FlushC, FlushH
    <2> QED
      BY <2>2, <2>3, <2>4, <2>5, <2>6, <2>7, <2>8, <2>10 DEF Next, Compile
  <1>3. I /\ [Next]_vars => I'
    BY InvHolds, NextFlushing, <1>2
  <1>4. I => SuccessIsComplete
    OBVIOUS
  <1> HIDE DEF I
  <1> QED
    BY <1>1, <1>3, <1>4, PTL DEF Spec

\* Each null pointer the backend follows comes after the error that says what
\* is wrong, but for a local that is not a variable.
LEMMA NextDiagnosed ==
  ASSUME TypeOK, NoCode, Diagnosed, [Next]_vars
  PROVE  Diagnosed'
  <1>1. ASSUME code' # "crash" PROVE Diagnosed'
    BY <1>1 DEF Diagnosed
  <1>2. CASE EmitCrashes
    <2>1. /\ pc \in Loops /\ Item \in Dereferenced(pc) /\ program' = program
          /\ errors' = (errors \/ Item \in Reported)
      BY <1>2 DEF EmitCrashes, InLoop, Exit
    <2>2. CASE Item \in Reported
      BY <2>1, <2>2 DEF Diagnosed
    <2>3. CASE Item \notin Reported
      <3>1. Item = "instance"
        BY <2>1, <2>3 DEF Dereferenced, Reported
      <3>2. at + 1 \in 1 .. Len(Items(pc))
        BY <1>2, <2>1, ItemsType DEF EmitCrashes, InLoop, TypeOK
      <3>3. Item \in Kinds(pc)
        BY <2>1, <3>2, ItemsType DEF Item, TypeOK
      <3>4. pc = "locals"
        BY <2>1, <3>1, <3>3 DEF Kinds, TypeKinds, StatementKinds, Loops
      <3>5. Items(pc) = program.locals
        BY <3>4 DEF Items
      <3>6. DOMAIN program.locals = 1 .. Len(program.locals)
        BY ProgramType DEF TypeOK
      <3> QED
        BY <2>1, <3>1, <3>2, <3>5, <3>6 DEF Diagnosed, Item
    <2> QED
      BY <2>2, <2>3
  <1>3. CASE Start \/ Kill \/ EmitThrows \/ ReturnFromBackend
    BY <1>1, <1>3 DEF Start, Kill, EmitThrows, ReturnFromBackend, Return, Exit
  <1>4. CASE UNCHANGED vars
    BY <1>4 DEF vars, Diagnosed
  <1>5. ASSUME pc # "idle", code' \in {code, "0", "1"} PROVE Diagnosed'
    BY <1>1, <1>5 DEF NoCode
  <1>6. CASE PhaseSucceeds \/ PhaseReports \/ PhaseThrows \/ LocateMain \/ Build
    BY <1>5, <1>6 DEF PhaseSucceeds, PhaseReports, PhaseThrows, LocateMain, Build,
                      Goto, Phases, Fail, Return, Exit
  <1>7. CASE OpenC \/ OpenH \/ EmitItem \/ EndLoop
    BY <1>5, <1>7 DEF OpenC, OpenH, Fail, Return, Exit, EmitItem, InLoop, EndLoop, Loops
  <1>8. CASE WriteC \/ WriteH \/ FlushC \/ FlushH
    BY <1>5, <1>8 DEF WriteC, WriteH, FlushC, FlushH
  <1> QED
    BY <1>2, <1>3, <1>4, <1>6, <1>7, <1>8 DEF Next, Compile

\* No program makes the compiler crash before it has reported an error, unless
\* its parser has a local that is not a variable.
THEOREM CrashesDiagnosed == Spec => []Diagnosed
  <1>1. Init => Diagnosed
    BY DEF Init, Diagnosed
  <1>2. Inv /\ Diagnosed /\ [Next]_vars => Diagnosed'
    BY NextDiagnosed DEF Inv
  <1> QED
    BY InvHolds, <1>1, <1>2, PTL DEF Spec
=============================================================================
