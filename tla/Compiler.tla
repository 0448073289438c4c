------------------------------ MODULE Compiler ------------------------------
(***************************************************************************)
(* The compiler as it is run from a build: each run is given a program,    *)
(* ends with an exit code and leaves two files, which later runs write     *)
(* over.  p4c's own phases are external: each succeeds, reports an error   *)
(* or throws.  A program is known by the constructs the backend treats     *)
(* differently; the rest of it is "plain".                                 *)
(***************************************************************************)
EXTENDS Naturals, Sequences

CONSTANTS
  Programs,    \* the programs compiled
  MaxRuns      \* bound on the number of runs

TypeKinds ==
  {"plain",
   "unsupported",         \* not a type the backend knows
   "field_unsupported",   \* a struct with a field of such a type
   "alias_unsupported"}   \* a struct with a field of a typedef of one
LocalKinds ==
  {"plain",
   "variable_unsupported",    \* a variable of a type the backend does not know
   "variable_of_name",        \* a variable of a name for such a type
   "instance"}                \* not a variable
StatementKinds ==
  {"plain", "extract_varbit", "extract_non_header", "lookahead_wide",
   "lookahead_unsupported", "other_call", "select_tuple",
   "unknown_expression", "odd_arithmetic", "wide_arithmetic"}
Packages ==
  {"missing",      \* no main
   "arguments",    \* not of one parameter
   "no_parser",    \* of one that is not the parser
   "parser"}

\* What the backend may be left without though nothing has been reported: the
\* program it is to compile, the type p4c has inferred for the parameter
\* headers, the name of the file to compile.
Inputs == {"toplevel", "headers_type", "file"}

ASSUME ProgramsAssumption ==
  /\ Programs \subseteq
       [package : Packages,
        parserParams : Nat,
        headers : SUBSET TypeKinds,   \* types of the members of headers
        types : Seq(TypeKinds), locals : Seq(LocalKinds),
        statements : Seq(StatementKinds),
        absent : SUBSET Inputs]
  /\ Programs # {}
  /\ MaxRuns \in Nat

VARIABLES
  pc,        \* what the compiler does next; "idle" between runs
  run,       \* number of the run
  program,   \* its program
  at,        \* items of the present loop that have been emitted
  errors,    \* errorCount() > 0
  code,      \* exit code of the last run, "crash" or "killed"
  cfile,     \* contents of the two files
  hfile,
  lost       \* history: the run's writing has failed, which nobody knows

vars == <<pc, run, program, at, errors, code, cfile, hfile, lost>>
files == <<cfile, hfile, lost>>

\* A file holds the output of a run, or part of it.
Contents == [text : {"absent", "empty", "partial", "complete"}, of : Nat]
Absent == [text |-> "absent", of |-> 0]
Holds(text) == [text |-> text, of |-> run]

-----------------------------------------------------------------------------
(* What the backend makes of a construct                                   *)

\* It calls ::error.
Reported ==
  {"unsupported", "field_unsupported", "alias_unsupported",
   "variable_unsupported", "variable_of_name", "extract_varbit", "extract_non_header",
   "lookahead_wide", "lookahead_unsupported", "other_call", "select_tuple",
   "unknown_expression", "wide_arithmetic"}

\* It throws.
Thrown == {"odd_arithmetic"}

\* It follows a null pointer: the type of a field it could not create, when
\* the struct is printed; what stands behind a name; the type of a lookahead;
\* a local that is not a variable.
Dereferenced(p) ==
  IF p = "names" THEN {}
  ELSE {"field_unsupported", "variable_of_name", "lookahead_unsupported",
        "instance"}

\* The loops of the emission and what each goes over.
Loops == {"names", "types", "locals", "statements"}
Items(p) ==
  IF p \in {"names", "types"} THEN program.types
  ELSE IF p = "locals" THEN program.locals ELSE program.statements
After(p) ==
  IF p = "names" THEN "types"
  ELSE IF p = "types" THEN "locals"
  ELSE IF p = "locals" THEN "statements" ELSE "write_c"

-----------------------------------------------------------------------------
(* p4c-fpp.cpp                                                             *)

Init ==
  /\ pc = "idle" /\ run = 0 /\ at = 0
  /\ program \in Programs
  /\ errors = FALSE /\ code = "none"
  /\ cfile = Absent /\ hfile = Absent /\ lost = FALSE

\* The build starts the compiler, on this program or another.
Start ==
  /\ pc = "idle" /\ run < MaxRuns
  /\ run' = run + 1
  /\ program' \in Programs
  /\ pc' = "options" /\ errors' = FALSE /\ code' = "none" /\ at' = 0
  /\ lost' = FALSE
  /\ UNCHANGED <<cfile, hfile>>

Exit(c) ==
  /\ pc' = "idle" /\ code' = c /\ at' = 0
  /\ UNCHANGED <<run, program>>

\* The backend returns, and main after it.
Return == Exit(IF errors THEN "1" ELSE "0") /\ UNCHANGED <<errors, files>>

\* ::error, and main comes to its end.
Fail == Exit("1") /\ errors' = TRUE /\ UNCHANGED files

Goto(p) == pc' = p /\ UNCHANGED <<run, program, at, errors, code, files>>

\* The options, the parser, the front end and the mid end come one after the
\* other, each only if none before it has reported an error; the options
\* include that the language is P4-16.
Phases == {"options", "parse", "frontend", "midend"}
NextPhase(p) ==
  IF p = "options" THEN "parse"
  ELSE IF p = "parse" THEN "frontend"
  ELSE IF p = "frontend" THEN "midend" ELSE "main"

PhaseSucceeds == pc \in Phases /\ Goto(NextPhase(pc))
PhaseReports == pc \in Phases /\ Fail

\* An exception is caught in main and printed.
PhaseThrows ==
  /\ pc \in Phases \ {"options"}
  /\ Exit("1")
  /\ UNCHANGED <<errors, files>>

-----------------------------------------------------------------------------
(* fppBackend.cpp: run_fpp_backend                                         *)

\* Without a program the backend returns, without a word.  There is no main,
\* or the options name a target; the only one has no name.
LocateMain ==
  /\ pc = "main"
  /\ \/ "toplevel" \in program.absent /\ Return
     \/ "toplevel" \notin program.absent /\ Fail
     \/ /\ "toplevel" \notin program.absent /\ program.package # "missing"
        /\ Goto("build")

\* The package has the parser, and the parser its two parameters.
WellFormed == program.package = "parser" /\ program.parserParams = 2

\* FPPProgram::build and FPPParser::build.  If p4c knows no type for headers
\* they return, without a word.  Otherwise the type is created here; what is
\* wrong with it is reported and does not stop the build.
Build ==
  /\ pc = "build"
  /\ \/ program.package = "arguments" /\ Fail
     \/ program.package = "no_parser" /\ Exit("1") /\ UNCHANGED <<errors, files>>
     \/ program.package = "parser" /\ ~WellFormed /\ Fail
     \/ WellFormed /\ "headers_type" \in program.absent /\ Return
     \/ /\ WellFormed /\ "headers_type" \notin program.absent
        /\ errors' = (errors \/ program.headers \cap Reported # {})
        /\ pc' = "open_c"
        /\ UNCHANGED <<run, program, at, code, files>>

\* Without the name of a file the backend returns, without a word.  Opening
\* for writing truncates; that it fails is reported.
OpenC ==
  /\ pc = "open_c"
  /\ \/ "file" \in program.absent /\ Return
     \/ "file" \notin program.absent /\ Fail
     \/ /\ "file" \notin program.absent
        /\ cfile' = Holds("empty") /\ pc' = "open_h"
        /\ UNCHANGED <<run, program, at, errors, code, hfile, lost>>

\* Variant of OpenH for a stream that opens its file when it first writes.
OpenHLate ==
  /\ pc = "open_h"
  /\ pc' = "names"
  /\ UNCHANGED <<run, program, at, errors, code, cfile, hfile, lost>>

OpenH ==
  /\ pc = "open_h"
  /\ \/ Fail
     \/ /\ hfile' = Holds("empty") /\ pc' = "names"
        /\ UNCHANGED <<run, program, at, errors, code, cfile, lost>>

\* The next name or type of the header file, local or statement of the C
\* file.  The text is kept in memory.
Item == Items(pc)[at + 1]
InLoop == pc \in Loops /\ at < Len(Items(pc))

\* Variant of EmitItem in which a type that is not known is passed over.
EmitItemQuietly ==
  /\ InLoop /\ Item \notin Thrown \cup Dereferenced(pc)
  /\ at' = at + 1
  /\ errors' = (errors \/ Item \in Reported \ {"unsupported"})
  /\ UNCHANGED <<pc, run, program, code, files>>

\* An error does not stop the emission.
EmitItem ==
  /\ InLoop /\ Item \notin Thrown \cup Dereferenced(pc)
  /\ at' = at + 1
  /\ errors' = (errors \/ Item \in Reported)
  /\ UNCHANGED <<pc, run, program, code, files>>

\* Variant of EmitThrows in which the loop catches and goes on.
EmitThrowsOn ==
  /\ InLoop /\ Item \in Thrown
  /\ at' = at + 1
  /\ errors' = TRUE
  /\ UNCHANGED <<pc, run, program, code, files>>

EmitThrows ==
  /\ InLoop /\ Item \in Thrown
  /\ Exit("1")
  /\ UNCHANGED <<errors, files>>

\* Variant of EmitCrashes in which nothing is said of a type without a name.
EmitCrashesSilently ==
  /\ InLoop /\ Item \in Dereferenced(pc)
  /\ Exit("crash")
  /\ UNCHANGED <<errors, files>>

EmitCrashes ==
  /\ InLoop /\ Item \in Dereferenced(pc)
  /\ Exit("crash")
  /\ errors' = (errors \/ Item \in Reported)
  /\ UNCHANGED files

\* Variant of EndLoop that goes on at the item it has come to.
EndLoopAt ==
  /\ pc \in Loops /\ at = Len(Items(pc))
  /\ pc' = After(pc)
  /\ UNCHANGED <<run, program, at, errors, code, files>>

EndLoop ==
  /\ pc \in Loops /\ at = Len(Items(pc))
  /\ pc' = After(pc) /\ at' = 0
  /\ UNCHANGED <<run, program, errors, code, files>>

\* The texts go to the streams, which write as much as they like until they
\* are flushed.  Nobody asks whether they could.
Written == {Holds(text) : text \in {"empty", "partial", "complete"}}

WriteC ==
  /\ pc = "write_c"
  /\ cfile' \in Written /\ pc' = "write_h"
  /\ UNCHANGED <<run, program, at, errors, code, hfile, lost>>

WriteH ==
  /\ pc = "write_h"
  /\ hfile' \in Written /\ pc' = "flush_c"
  /\ UNCHANGED <<run, program, at, errors, code, cfile, lost>>

FlushC ==
  /\ pc = "flush_c" /\ pc' = "flush_h"
  /\ \/ cfile' = Holds("complete") /\ UNCHANGED lost
     \/ lost' = TRUE /\ UNCHANGED cfile
  /\ UNCHANGED <<run, program, at, errors, code, hfile>>

FlushH ==
  /\ pc = "flush_h" /\ pc' = "return"
  /\ \/ hfile' = Holds("complete") /\ UNCHANGED lost
     \/ lost' = TRUE /\ UNCHANGED hfile
  /\ UNCHANGED <<run, program, at, errors, code, cfile>>

ReturnFromBackend == pc = "return" /\ Return

-----------------------------------------------------------------------------

Compile ==
  \/ PhaseSucceeds \/ PhaseReports \/ PhaseThrows
  \/ LocateMain \/ Build \/ OpenC \/ OpenH
  \/ EmitItem \/ EmitThrows \/ EmitCrashes \/ EndLoop
  \/ WriteC \/ WriteH \/ FlushC \/ FlushH \/ ReturnFromBackend

\* The build is interrupted.
Kill ==
  /\ pc # "idle"
  /\ Exit("killed")
  /\ UNCHANGED <<errors, files>>

Next == Start \/ Compile \/ Kill

Spec == Init /\ [][Next]_vars

-----------------------------------------------------------------------------
(* Properties                                                              *)

TypeOK ==
  /\ pc \in {"idle", "main", "build", "open_c", "open_h", "write_c", "write_h",
            "flush_c", "flush_h", "return"} \cup Phases \cup Loops
  /\ run \in 0 .. MaxRuns /\ program \in Programs
  /\ at \in Nat
  /\ pc \in Loops => at <= Len(Items(pc))
  /\ pc \notin Loops => at = 0
  /\ errors \in BOOLEAN
  /\ code \in {"none", "0", "1", "crash", "killed"}
  /\ cfile \in Contents /\ hfile \in Contents
  /\ lost \in BOOLEAN

\* The constructs of the present program the backend comes by.
Constructs ==
  program.headers \cup
  UNION {{s[i] : i \in DOMAIN s} :
           s \in {program.types, program.locals, program.statements}}

\* Exit code 0 tells one of two things.  Either the backend lacked an input
\* and returned without a word, and then no file is of this run: what stands
\* there is left from an earlier one.  Or both files are complete and of this
\* run, unless writing them failed, which goes unnoticed, and the program has
\* no construct the backend reports, throws at or crashes on, although errors
\* do not stop FPPProgram::build, emitH or emitC.
SuccessIsComplete ==
  pc = "idle" /\ code = "0" =>
    \/ /\ program.absent # {}
       /\ cfile.of # run /\ hfile.of # run
    \/ /\ program.absent = {} /\ WellFormed
       /\ lost \/ (cfile = Holds("complete") /\ hfile = Holds("complete"))
       /\ Constructs \cap (Reported \cup Thrown \cup Dereferenced("types")) = {}

\* However runs fail, are killed or cannot write, a complete .c file never
\* stands beside a complete .h file of another run: run_fpp_backend empties
\* both before it writes to either.
NeverMixed ==
  cfile.text = "complete" /\ hfile.text = "complete" => cfile.of = hfile.of

\* The compiler crashes without having reported anything only on a local of
\* the parser that is not a variable.
Diagnosed ==
  code = "crash" =>
    errors \/ \E i \in DOMAIN program.locals : program.locals[i] = "instance"

\* A run that fails may leave two files that look complete; then the program
\* has a construct the backend reports, and no exception was thrown.
CompleteButRejected ==
  /\ pc = "idle" /\ code = "1"
  /\ cfile = Holds("complete") /\ hfile = Holds("complete")
  => Constructs \cap Reported # {}
=============================================================================
