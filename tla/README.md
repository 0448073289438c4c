# A TLA+ model of the flexible packet parser backend

The repository is a backend of the P4-16 compiler p4c. It translates a P4
parser into one C function, `fpp_parse_packet`, which walks a packet, allocates
a struct for every header the P4 program extracts into its parameter `headers`,
and hands them to its caller as a linked list. `example/` holds a P4 program
for tunnelled traffic, the C file generated from it and a client that prints the
headers of a capture file.

What can go wrong at run time is in the emitted function and its caller: who
owns which block when one of two allocations fails, what the list looks like
when the call ends early, where the headers lie when lengths come from the
packet, whether the state graph of a program always ends, and whether the loads
put the right bits into a field. Most modules are about the emitted code as the
C++ source emits it; the P4 program is a parameter. What can go wrong before is
in the compiler: whether the C of an expression computes what P4 says, whether a
`select` becomes a `switch` that always jumps, and what the compiler leaves
behind when it reports an error, throws, crashes or is stopped.

## Inventory

| Part | Source | State it keeps | Operations | What makes it correct |
|---|---|---|---|---|
| emitted parser function | `fppParser.cpp`, `fppProgram.cpp`, `target.cpp` | bit offset, error code, `*out`, `last_hdr`, `hdr`, `headers`, locals, heap | entry, extract (check, two mallocs, link, load), advance, lookahead, assignment, transition, accept, reject, `fpp_end` | list well formed on every exit, no leak, headers in the packet and in order (to the byte), return code tells the cause, every call returns |
| field loads | `fppParser.cpp` 132-296, `fppType.cpp`, the macros of `fppProgram.cpp` | offset and alignment inside a header | load of a scalar, load of a byte array, lookahead | the value of the field is the packet's bits, on either byte order |
| the example's parser | `example/parser.c`, `example/p4-16/` | 10 local headers, 15 local variables | 28 parser states | nothing read before it is set, the list is a protocol stack, loops end |
| the example's client | `example/example.c` | list walker, exit status | open, read, parse, print, free | no use after free, no leak, all headers printed, honest exit status |
| state translation | `fppParser.cpp`, `fppParser.h` | the AST visitor's position, `hasDefault` | one visit per AST node | a switch goes where its select goes and never on into the next state |
| expressions and statements | `codeGen.cpp` | none | one visit per AST node | what the C code uses has the P4 value, or the program is rejected |
| types | `fppType.cpp` | widths | declaration, emission | widths agree with P4, members hold what is stored in them, an unknown type is reported |
| compile pipeline | `p4c-fpp.cpp`, `fppBackend.cpp`, `midend.cpp` | error count, two output files | parse, front end, mid end, build, open, emit, write, exit | exit code 0 with files means complete ones of this run; files of different runs are never a pair; no silent crash |
| program object | `fppProgram.cpp` | two texts in memory | build, the loops of `emitH` and `emitC` | an error does not go unreported, whatever follows it |
| options, target, model, build files | the rest | constants | none | |

The parts meet in a few places. The pipeline builds the program object and
emits the header file and the C file; the state translation calls the field
loads for every extract and the expression generator for every select and
advance. At run time the client calls `fpp_parse_packet` once for each packet,
passing the address of one pointer it reuses; the function resets that pointer
and threads the new list through it; the client then owns the list and frees
it. Nothing runs concurrently. The only thing that outlives a process is the
pair of output files, which a later run writes over. The hard behaviours are
partial failure (an allocation fails between two others; a packet ends inside a
loop of states), pointers that outlive what they point to (the reused `*out`,
the `tmp` of the client's walk), lengths read from the packet, termination, and
the order of cast, swap, shift and mask. The list of hazards with their lines
is in `PROJECT.json`.

## Modules

    HeaderChain            what a call promises its caller
      ^ implemented by
    FppParser              the emitted function, for any P4 parser
      ^ extended by
      |- FppParserProofs   types, verdict, list, heap and where the headers lie,
      |                    and that FppParser implements HeaderChain, proved
      |- MCFppParser       a parser of four states with every construct
      |- FppFlow           what the states of a P4 program say about all its runs
      |    ^ FppFlowProofs      that they do, proved
      |    ^ MCExample     ... running ExampleProgram (example/parser.c as data)
      |      ^ MCExampleFlow    whose states are as FppFlow asks
      `- ExampleClient     main and process_packet around the function
           ^ ExampleClientProofs the client on any parser, proved
           ^ MCExampleClient
    FieldLoad              the loads of one header, bit by bit
      ^ FieldLoadProofs    which fields and lookaheads are exact, proved
      ^ ExampleHeaders     the headers of headers.p4 and the structs of parser.h;
                           agrees with ExampleProgram
        ^ ExampleHeadersProofs where its fields lie and what is read, proved
        ^ MCFieldLoad      all widths at all alignments, and those headers
    Expression             what the C of an expression computes
      ^ ExpressionProofs   that careful programs get P4's values, proved
      ^ MCExpression
    Select                 the switch of a select
      ^ SelectProofs       that it goes where the select goes, proved
    Compiler               runs of the compiler and the files they leave
      ^ MCCompiler
      ^ CompilerProofs     exit codes, files and crashes, proved

**FppParser.** One step is a group of emitted statements between two points
where control can leave the function.

| Action | Emitted code |
|---|---|
| `Call(n)` | declarations, `*out = NULL`, `goto start` |
| `ExtractTooShort`, `ExtractFits` | the length check `packetEnd < packetStart + BYTES(offset + width)`, which rounds down to bytes (`TooShort`) |
| `AllocHeader`, `AllocNode` | the two `malloc`s with their failure branches, the second of which frees the header |
| `LinkNode` | `if (*out == NULL) ... else last_hdr->next = hdr ...; headers->header_offset = ...` |
| `LoadFields` | the loads, `offset += width`, `header_valid = 1` |
| `Advance`, `Assign`, `Transition` | `offset += e`, forward or back; assignment or lookahead; `goto` or `switch` |
| `AcceptState`, `RejectState`, `EndLabel` | the three returns |
| `Release` | the caller has freed the list (external) |

The P4 program is given by constants: for each state its statements, its
possible successors and what its select reads. The packet is not represented:
a select may take any case, an advance any amount the program lists, so every
packet's behaviour is included. An amount may be negative: the argument of an
advance is a C expression, and with a literal over `INT_MAX` it is a `long`, as
in `packet.advance(2147483648 - x)`. `offset` is the signed number that the
emitted `uint64_t` stands for: one below zero is a very large one in C, and an
extract that ends there does not fit. `Forward` says that a program's advances
are not negative; it is named where it is needed and assumed nowhere else. Where
the offset is behind the packet or in front of it, a load is taken to give some
value; that it is undefined in C, and may crash, is not modelled.

Headers that are members of the parameter `headers` (`Listed`) are allocated and
linked; any other header is a local variable. The heap is a set of blocks with contents; `Malloc` says which block
`malloc` may return, and failure is always possible. `chain` is a history
variable, used by properties only: the nodes in the order they were linked.
`header[b].fields` and `.valid` are `"junk"` from `malloc` on until they are
written.

**HeaderChain** has no heap and no program: a call begins, delivers headers
each of which lies in the packet and none before the end of the previous one,
concludes with a code, and nothing changes until the caller releases the list.
Ends are exact (`EndOf`), and so is the promise for headers of whole bytes. For
any other it is weaker, as the emitted check is (`EndsBy`): it leaves out the
bits behind the last whole byte, so a header of 12 bits behind one of 16 is
delivered from a packet of three bytes although it ends four bits behind it, and
the next header may start in that last byte. `FppParser` implements it under the mapping `Abstract`: a header is delivered
at the moment its loads are done, not when it is linked.

**ExampleProgram** is `example/parser.c` as a table: one definition for each
labelled block, with the statements in their order, the targets of its `switch`
and the names the `switch` reads. Arithmetic on `uint32_t` is modulo the
constant `Wrap`, so that an IHL below 5 wraps as it does in C. (The left shift
of a negative `int32_t` in that expression is undefined in C; it is taken as
two's complement, which is what compilers for this code do.)

**FppFlow** relates a P4 program to the runs of the function emitted for it. Its
tables say what holds whenever a state is entered: which names are assigned
(`Before`) and which header may be the last on the list (`Above`); and which
header may follow which (`Under`), which may end an accepted packet (`Final`),
and behind which local the offset may leave a byte boundary (`Odd`). `ReadsFlow`,
`StackFlow` and `AlignFlow` are conditions on one state and its transitions at a
time, as a reader checks them in `parser.p4`. The properties `ReadsDefined` (of
`FppParser`), `Layered`, `AcceptedDeepEnough` and `OnlyOddMisaligns` are about
runs. `MCExample` gives the tables of the example.

**ExampleClient** runs `FppParser` step by step inside `main`'s call and
replaces the external `Release` by the walk itself: print, step, free the
header, free the node. `libpcap` is external: opening may fail, a read may
fail at any packet.

**FieldLoad** describes a value by where its bits come from: bit k of a value
is the index of a packet bit, or zero. Load, cast, swap, shift and mask only
move or drop bits, so one such description covers every packet. One step is one
field. **ExampleHeaders** gives the layouts of `headers.p4`, where their fields
lie (`Positions`) and how long they are (`Bitsize`); its assumption
`WidthsAgree` compares them with the widths `parser.c` checks for, and
`StructsAgree` compares the members of `parser.h` with those the backend
declares.

**Expression** grows an expression one operation at a time: `Binary`, `Shift`,
`Connective`, `Unary`, `Cast`, `Order`, `Equality`, `MemCompare`, the two places
of a `?:`, and `Assignment`. Of the part grown so far the state keeps the P4
type and value and the C type and value, nothing else, so the reachable states
are those of expressions of any length in which each operation has a variable or
literal as its other operand. C's side is translated from `codeGen.cpp` (what is
emitted, when `widthCheck` rejects) and from C's promotions and conversions
(external); signed overflow and shifts by too much are `Undefined`, and the
expression grows no further. A byte has `Byte` bits and no type more than
`Widest`. `Use` is a select, an advance or a condition.

It is known from finding 3 that not every use is right, so the positive
properties are about programs that keep to a rule (`Careful`): compute on and
store anything, but look only at *clean* operands, whose types alone show that C
has the P4 value. A variable is clean; a sum is clean if C computes it in the
very type it has in P4 (32 bits, unsigned); a cast to a C type of the same or
less width cleans, so does a non-negative mask; a 16-bit sum is not. Both
operands of an order must be looked at with that care, since a wide variable is
an array and its address is what C compares: an earlier form of the rule asked
it of one of them only, and the proof could not be done for a wide literal
compared with a wide variable. `CleanExact` says that the rule is sound,
`Congruent` that an unclean value differs from the P4 value by a multiple of 2^w
only.

**Select** follows `StateTranslationVisitor` through the states of a parser and
the cases of their selects. What P4 makes of the cases (the first that matches,
or reject) and what C makes of the arms (the one with the label wherever it is,
or the default, or else the text behind the switch, which is the next state) are
given separately and compared. Cases behind a default are external: the mid end
drops them.

**Compiler** is the process, run again and again as a build does. A program is
known by its package, the number of its parser's parameters and the kinds of its
types, locals and statements, as far as the backend treats them differently.

| Action | Code |
|---|---|
| `Start`, `Kill` | the build starts or stops the process (external) |
| `PhaseSucceeds`, `PhaseReports`, `PhaseThrows` | options, parser, front end, mid end (external) and the tests of `errorCount()` after each |
| `LocateMain`, `Build` | `run_fpp_backend` up to the files, `FPPProgram::build`, `FPPParser::build`; each may return without a word (`Return`) |
| `OpenC`, `OpenH` | the test of the file's name, which may return without a word, and the two calls of `openFile`, which truncate |
| `EmitItem`, `EmitThrows`, `EmitCrashes`, `EndLoop` | the loops of `emitTypes`, `emitC` and `FPPParser::emit` over types, locals and statements; `::error` (which does not stop them), `BUG` and null pointers |
| `WriteC`, `WriteH`, `FlushC`, `FlushH` | `<<` and `flush` |
| `ReturnFromBackend` | back through `compile` to `main`'s exit code |

What the backend may find missing without saying so (`Inputs`: the program, the
type of the parameter `headers`, the name of the file) is a part of the program.
A file's content is known by how much of a run's output it holds and which
run's. Streams write whatever they like between `<<` and `flush`. The second of
the two loops over the locals repeats the first and is not modelled apart.

Definitions called a *variant* in their comment are deliberate mistakes next to
the definition they differ from; they document that a property can fail, and no
specification uses them.

## Runs

| Run | Asks | Instance |
|---|---|---|
| `FppParser` | types, return code, shape of the list, ownership, loaded headers, geometry; every call returns; `HeaderChain` is implemented | 4 states with a tag loop, a tunnel, a local header, a header of 12 bits, lookahead and advance; packets of 0 to 9 bytes; 6 blocks |
| `Example` | defined reads, headers inside the packet and apart to the bit, protocol stack, accepted lists, byte boundaries | the 28 states; packets of 33 and 82 bytes; 10 blocks |
| `ExampleLive` | every call returns; `HeaderChain` is implemented; the assumption `ExampleFlows`: the example's states are as `FppFlow` asks | the same; 33 and 58 bytes |
| `ExampleClient` | use after free, leaks, order of printing, exit status; the program ends | up to 3 packets of 1 or 3 bytes; 6 blocks; an advance by -24 or 0 bits |
| `FieldLoads` | exactly which fields and lookaheads have their P4 value, and of the example's all but one; no byte read in vain or behind the header; values fit their members | all widths 1..72 after all alignments 0..7; all lookaheads 1..32; the 16 headers; hosts of both byte orders |
| `ExampleHeadersAll` | every field of the example is exact: **violated** | little-endian |
| `ExampleShipped` | the same with the loads in the checked-in `parser.c`, without `ipv6_h`: **violated** | little-endian |
| `SelectSwitch` | the switch goes where the select goes | 3 keys, 3 states, up to 3 cases |
| `ExpressionCareful` | clean operands have their P4 values in careful programs, the rest is right modulo 2^w | 10 types and bool, up to 5 values each, 5 literals |
| `ExpressionNarrow`, `ExpressionWide` | what is not rejected is right: **violated** | variables of 8 and of 40 bits (in the scale below) |
| `CompilerRuns` | exit code 0, crashes, pairs of files, complete files of a failing run | every construct alone and in pairs, every missing input, 2 runs, writes may fail |

What the properties say, in short:

- `VerdictSound`: `NoError` only from a transition to accept,
  `ParserDefaultReject` only from one to reject, `PacketTooShort` only at an
  extract that does not fit, `OutOfMemory` only at one that does.
- `ListShape`, `Ownership`, `Complete`: at every step `*out`, `last_hdr` and
  the `next` fields thread exactly the linked nodes; the allocated blocks are
  those on the list and those of the running extract, each in one role; every
  header on the list but the one being loaded is loaded and valid.
- `Geometry`: each header ends by the end of the packet and by the start of the
  next, also with advances over amounts that are not whole bytes; only of a
  header that is not of whole bytes may up to seven bits hang over. `Inside`:
  no bit does, which holds where all listed headers are of whole bytes.
- `ReadsDefined`: no expression reads a local that this call has not set.
- `Layered`, `AcceptedDeepEnough`: what a caller of the example may take the
  list for. `OnlyOddMisaligns`: the offset leaves a byte boundary only behind an
  odd local. The example has one, `gre_sre`: the `length` of a GRE source route
  entry, a number of bytes, is added to an offset in bits.
- `StraightFieldsExact`, `LookaheadsExact`: a field has its P4 value if and only
  if it is `Straight`, that is, lies within the load chosen for it; a lookahead
  on a little-endian host if and only if it has up to 8, 16 or 32 bits.
- `OnlyTrafficClassIsLost`: of the example's fields and lookaheads only
  `ipv6_h.traffic_class` differs from its P4 value, on hosts of either order.
- `ReadsItsBytes`: a straight field's load reads the bytes the field lies in, or
  four where it lies in three. `LoadsInHeader`: in the example's headers the one
  length check covers all loads, also those wider than their fields.
- `MembersHold`: the bits and elements stored are within the member the backend
  declares; the members of `parser.h` are those (`StructsAgree`).
- `CleanExact`, `Congruent`: see **Expression** above. `RejectsOrExact`: every
  key, amount and condition has its P4 value; of careful programs it is proved,
  of others it is what finding 3 refutes.
- `SwitchIsSelect`: for every value of the key, and with exactly one default.
- `NeverMixed`: a complete `.c` file never stands beside a complete `.h` file
  of another run, since both are emptied before either is written. It holds
  although writes fail and runs are killed anywhere.
- `SuccessIsComplete`: exit code 0 means one of two things. Either one of
  `Inputs` was missing, the backend returned without a word, and no file is of
  this run: what stands there is an earlier run's. Or there are two complete
  files of this run and a program without any construct that is reported, throws
  or crashes, although errors do not stop `build`, `emitH` or `emitC`. A failure
  to write is excepted (`lost`): nobody asks the streams.
- `CompleteButRejected`: complete files of a failing run come from a reported
  construct, never from an exception. `Diagnosed`: only a local that is not a
  variable makes the compiler crash without a word.
- `CallReturns`, `Terminates`: liveness.

**Bounds.** In `MCFppParser` the longest packet of 9 bytes admits three listed
headers with tags between them, so an append to an empty list, to a list of one
and to a longer one all occur, and every length check is met from both sides.
Six blocks are three headers and nodes: running out is then met both from an
empty and from a full heap (malloc may also fail at any time). For the example,
33 bytes hold an Ethernet and one byte short of an IPv4 header, 58 an IPv4 and a
TCP or IPv6 header, 82 a tunnel inside UDP or a second IP header with a
transport header; `Words` includes 4, one below the shortest legal header
length, so the wrap occurs. 4096 stands for 2^32 in `Wrap`: what matters is only
that a wrapped advance exceeds every packet. `malloc` may return any free block,
except that the example takes the first free one, which `MCFppParser` and the
proofs justify. 72 bits are three loads beyond the widest machine load used, and
what follows depends on the width modulo 8 only.

In `MCExpression` a byte has two bits, so that C has types of 2, 4, 8 (int) and
16 (long) bits; the widths are those below, at and above each (half a byte, one,
one and a half, two, three, four, five bytes) and the values lie at both ends of
a range, next to them and in its middle. The literals include an int, a negative
one, a long and one of a wide type. `Widest` is the 16 bits of a long. The
conversions depend on the order of the widths only. There is no bound on the
length of an expression: TLC reaches the fixpoint. In `MCCompiler` there are two
runs, since mixing needs two. Two types and two statements let each construct
come before and after a plain one or another construct. In `Select` three cases
and three keys allow repeated keys, missing keys and a default at the end.

**Fairness.** `FairSpec` asks weak fairness of the function's own steps
(`ParserNext`) and nothing of the caller: one thread that is not stopped.
`ClientSpec` asks the same of the whole program. That a process runs justifies
only that a step that is always possible is eventually taken. That loops end is
not assumed: it follows from the packet's finite length, and fails for a program with a cycle
that extracts nothing or whose advance goes back.

**Where a model may stop.** The `FieldLoads`, `ExampleHeadersAll` and
`ExampleShipped` runs do not check deadlock: a header has a last field. Nor do
the runs of `Expression` (a used or rejected expression is finished), the
`SelectSwitch` run (the default is the last case, and cases are bounded) and
`CompilerRuns` (`MaxRuns`). All others do.

## Findings

1. `compileExtractField` (`fppParser.cpp` 165-183) casts the loaded word to the
   C type of the field before the byte swap. A field of at most 8 bits that
   lies in two bytes is read with `load_half`, cast to `uint8_t` and only then
   swapped: its low bits are lost. In the example this hits
   `ipv6_h.traffic_class` (`headers.p4` 96). More generally a field is exact if
   and only if it fits the load chosen for it (`Straight`): one of 9 to 16 bits
   over three bytes, one of 17 to 32 over five, an array that is not a whole
   number of bytes, and on a little-endian host one that does not start at a byte
   boundary are not (`FieldsCorrect`).
2. The checked-in `example/parser.c` is not what this backend emits, although
   `example/README.md` says it is generated by it: its loads mask before they
   swap. `vid`, `label`, `res`, `frag_offset`, `traffic_class` and
   `flow_label` are wrong on a little-endian host.
3. The comment at `widthCheck` (`codeGen.cpp` 311-314) says: "Rather than
   generate incorrect results, we reject programs that do not perform arithmetic
   on machine-supported widths." Four kinds of programs are accepted and wrong:
   - arithmetic on 8 and 16 bits is computed in `int` and not cut
     (`ExpressionNarrow`): for variables `x` = 0 and `y` = 1 of `bit<8>` the key
     of `select (x - y)` is -1, not 255;
   - 24 bits pass the test `size % 8 == 0` and stay in `uint32_t`
     (`ExpressionNarrow` with `Inputs <- ThreeBytes` shows it);
   - a 32-bit literal over `INT_MAX` is a `long`, and so is what is computed
     with it (`Inputs <- Words` and `Literals <- MinusFive`); an advance by such
     a value can go back where P4 wraps around;
   - comparisons of more than 32 bits are not rejected (`ExpressionWide`): an
     order compares the addresses of two arrays, and `==` and `!=` are both
     `memcmp(..)`, which is zero when the operands are equal.

   The example is not hit: its one subtraction is on `int<32>`, is shifted and
   then cast to `uint32_t`, and its keys are variables.

A lookahead still masks first (`compileLookahead`). For up to 8 bits and for whole
halves and words that is exact, and the example uses only 4, 8, 16 and 32 bits;
every other width is wrong on a little-endian host, as in 2
(`LookaheadsCorrect`).

## Theorems

Every invariant that a passing run checks is stated by a theorem below.

**The emitted function.** `FppParserProofs` proves for every P4 parser, every
set of packet lengths, every heap and every deterministic or non-deterministic
`malloc` that returns free blocks (`ProgramAssumption`, `LensAssumption`,
`HeapAssumption`):

| Theorem | If | States |
|---|---|---|
| `TypeCorrect` | | `Spec => []TypeOK` |
| `VerdictCorrect` | | `Spec => []VerdictSound` |
| `ListWellFormed` | | `Spec => []ListShape` |
| `NothingLeaks` | | `Spec => []Ownership` |
| `NoJunkDelivered` | | `Spec => []Complete` |
| `HeadersInOrder` | `Forward` | `Spec => []Geometry` |
| `WholeHeadersInside` | `Forward`, listed headers of whole bytes | `Spec => []Inside` |
| `KeepsPromise` | `Forward` | `Spec => ImplementsHeaderChain` |

`TypeOK` is not inductive: that the header being loaded is a block of the heap
needs what the program counter implies, so `TypeInv` adds `Control` (what an
extract has established, what `fpp_errorCode` holds where) and `Placed` (which
pointers are set where). `VerdictSound` follows from it, since the place and the
error code at each return name the reason. `ListShape`, `Ownership` and
`Complete` are not inductive one by one: appending to the list keeps it a list
only if the new node is not on it, which is ownership, and a load completes the
right header only if `headers` is the last node's, which is `Linking`. Their
conjunction `HeapInv` is inductive relative to `TypeInv`. The proof has one
lemma for each of the four actions that touch the heap and one, `Frame`, for
all the others.

For `Geometry` and `Inside` the invariant `GeometryInv` is about ends rounded
down as the check does it (`EndAt`, `Rounded`). It needs, beside these, that the
nodes on the list have a type whose width is known (`Typed`) and that no offset
is below zero (`NonNegative`), which is what `Forward` is for. The argument is
that the last header's rounded end is at or before `BYTES(offset)`, which an advance
can only increase; that the next one starts there; and that the check compares a
sum rounded once, while the rounded end is a sum of two numbers each rounded
down, which is never larger (`BytesOrder`). It does not need the offset to be on
a byte boundary. What was rounded off is less than a byte, and nothing for a
header of whole bytes (`ByteEnd`), which gives both properties their exact ends
(`RoundedGeometry`).

`KeepsPromise` rests on the conjunction `Inv` of all of these. `LoadFields` of
a listed header is `Deliver`: `Geometry` gives its place and its end, and that
the prefix does not change is `Unshared`. A return is `Conclude`; `Release`
needs `VerdictSound`, since the abstract caller releases only after a return
code. Every other step is silent (`SilentStep`); for the two `malloc`s and for
linking this is because they touch nothing that is already on the list.

**P4 programs.** Whether a name is set before it is read, or what the list looks
like as a protocol stack, is up to the P4 program. `FppFlowProofs` proves for every
program, packet length and heap that conditions on single states are enough:

| Theorem | If | States |
|---|---|---|
| `ReadsCorrect` | `ReadsFlow` | `Spec => []ReadsDefined` |
| `ListIsStack` | `StackFlow` | `Spec => []Layered` |
| `AcceptsDeepEnough` | `StackFlow` | `Spec => []AcceptedDeepEnough` |
| `StartsAligned` | `AlignFlow` | `Spec => []OnlyOddMisaligns` |

The conditions speak of constants only, so TLC decides them for a given program;
for the example it finds them true with the tables of `MCExample` (the assumption
`ExampleFlows`). The theorems then hold of the example with packets of any
length and any heap, where the `Example` run has 33 and 82 bytes and 10 blocks.
The invariant `ReadsInv` says that at statement p of a state all of `AssignedAt`
is assigned and `headers` points to the header last listed there; an extract's
several steps lie between p and p + 1, so nothing is claimed of its own header
until it is loaded. `StackInv` says the same of the end of the list and carries
`Layered` along. It needs `HeapInv`: a type written to a fresh node must not
change one on the list. `OnlyOddMisaligns` is inductive given `ReadsInv`.

**The client.** `ExampleClientProofs` proves for every P4 parser, heap and number
of packets:

| Theorem | States |
|---|---|
| `ClientTypeCorrect` | `ClientSpec => []ClientTypeOK` |
| `SafeFrees` | `ClientSpec => []NoUseAfterFree` |
| `ClientFreesAll` | `ClientSpec => []NoLeak` |
| `ClientPrintsAll` | `ClientSpec => []PrintsTheChain` |
| `HonestExit` | `ClientSpec => []ExitStatus` |

The client's steps other than the walk leave the parser's variables alone, and
the parser's do not touch the client's, so `TypeInv`, `HeapInv` and their lemmas
are used again. But while `process_packet` frees the list, `HeapInv` is false:
`*out` and `chain` still name blocks that are gone. There the invariant
`ClientInv` has `Walk` in its place: what is allocated are exactly the nodes of
`chain` from `head` on with their headers (without the header between the two
`free`s), each once, and what has been printed are those before. `InStep` ties
the two programs' counters together and `Honest` says what the exit status
stands for at each place.

**Field loads.** `FieldLoadProofs` proves for headers of any number of fields of
any widths, on hosts of either byte order (`LayoutAssumption`):

| Theorem | States |
|---|---|
| `FieldsCorrect` | `Spec => []StraightFieldsExact` |
| `LookaheadsCorrect` | `Spec => []LookaheadsExact` |
| `BytesCorrect` | `Spec => []ReadsItsBytes` |
| `MembersCorrect` | `Spec => []MembersHold` |

`LoadInv` needs one thing beside the four properties, that the alignment the
backend counts is the offset modulo 8. The lemmas are about one load each.
`HostOrder` says what a swapped load is on either host: the packet's bits in the
order of their weight. From it follow the exact cases (`ScalarExact`,
`LookaheadExact`, `ArrayExact` and those for big-endian hosts), and for the
inexact ones (`ScalarLoses`, `LookaheadLoses`, `ArrayLoses`) a bit is named that
differs: a negative shift, the top bit of a field that was cut, or the last
element of an array.

`ExampleHeadersProofs` proves for the sixteen headers of `headers.p4`, any
lookaheads and hosts of either byte order what `FieldLoadProofs` leaves to the
layout:

| Theorem | States |
|---|---|
| `LoadsCovered` | `Spec => []LoadsInHeader` |
| `TrafficClassAlone` | `Spec => []OnlyTrafficClassIsLost` |

`ExampleInv` adds to `LoadInv` that the next field begins where `Positions` puts
it (`Following`). `ExampleKnown` then goes through the fields of each header: at
its position each is straight, but for the traffic class, and its load stays in
the header. `Positions` is a recursive function; that it is the list of numbers
a reader would write beside the layout (`Listing`) is shown by looking at the
least place where the two differ.

**Expressions.** `ExpressionProofs` proves for bytes of any number of bits, any
types up to any `Widest` that a long fits in, any variables and literals, and
expressions of any length (`ByteAssumption`, `LeafAssumption`):

| Theorem | If | States |
|---|---|---|
| `TypeCorrect` | `Careful` | `Spec => []TypeOK` |
| `CleanIsExact` | `Careful` | `Spec => []CleanExact` |
| `AcceptedIsCongruent` | `Careful` | `Spec => []Congruent` |
| `UsedIsExact` | `Careful` | `Spec => []RejectsOrExact` |

`Careful` is needed: without it `ExpressionNarrow` and `ExpressionWide` are
counterexamples to the last. The invariant is `Faithful` of the operand grown so
far: a bool is 0 or 1 in C; a narrow number has a C type at least as wide as its
P4 type, and signed if that is; its value is one of its C type, congruent to the
P4 value modulo 2^w, and equal to it if it is clean; and of wide numbers there
are only variables and literals, since everything else is rejected. Congruence
alone would not do, since a right shift, a comparison and a widening cast need
equality, nor would equality of clean operands, since a cast cleans what is only
congruent. There is one lemma for each operation (`BinaryFaithful` to
`AssignmentFaithful`). They rest on facts about 2^n (`PowerSum`,
`PowerDivides`), about congruence (`CongruentsTimes`, `CongruentsUnique`), and
on what `&`, `|` and `^` do: the low w bits of the result depend on the low w
bits of the operands only (`BothLocal`), and the bits above them change it by a
multiple of 2^w (`BothHigh`), so congruent operands give congruent results; and
those bits repeat the sign (`BothSign`), so equal operands give equal results in
a wider type. Powers of two and the bits two numbers share are recursive
functions. What is said of them for all n is proved without the library's
induction theorems, which take operators: `Induction` is stated for a set of
numbers and `Recursion` for a step given as a function.

**The switch.** `SelectProofs` proves `SwitchCorrect`, `Spec =>
[]SwitchIsSelect`, for any keys and states and any number of cases. By
`SelectInv` a default is the last case, and the arms are the cases, followed by
a default to reject if the select has none. Then the first case that matches a
value (`FirstMatch`) is the one whose label it is (`JumpToArm`), since labels do
not repeat, or else the default (`JumpToDefault`).

**The compiler.** `CompilerProofs` proves for every set of programs and any
number of runs (`ProgramsAssumption`):

| Theorem | States |
|---|---|
| `TypeCorrect` | `Spec => []TypeOK` |
| `FilesOfOneRun` | `Spec => []NeverMixed` |
| `CompleteFilesOfFailure` | `Spec => []CompleteButRejected` |
| `SuccessSound` | `Spec => []SuccessIsComplete` |
| `CrashesDiagnosed` | `Spec => []Diagnosed` |

`NeverMixed` needs to know of which run the files are: `Replaced` says that
after both are open neither is of an earlier run, and that before a file is
open no file is of this one. The rest needs what the run has come by so far:
`ItemsFine` says that the items gone through, in this loop and those before
it, neither threw nor crashed, and that as long as no error is reported none of
them is one that is reported; `HeadersFine` and `PackageFits` say the same of
what `Build` looked at; and `ErrorsHaveCause` is the converse: while a run is on,
a reported error has a construct that caused it. Their conjunction with
`TypeOK` and `NoCode` (no exit code while running) is the inductive `Inv`;
`SuccessSound` adds `Flushing`: what the flushes have made complete if nothing
was lost. A return without a word comes before the files are open, where
`Replaced` says that they are an earlier run's (`SilentReturn`).

**Only model-checked.**

- That the example's states are as `FppFlow` asks (`ExampleFlows`) and that its
  headers agree with `parser.h` and `parser.c` (`StructsAgree`, `WidthsAgree`):
  constants, evaluated by TLC.
- That the bad cases do occur: the four runs that expect a violation.
- Liveness (`CallReturns`, `Terminates`), which is out of the prover's reach, with
  `ENABLED`.

## Not modelled

- The value of a select, and packet contents in general: left open in
  `FppParser`, which includes all packets. So nothing is said about which
  packets are accepted.
- A wrap of the 64-bit offset by its size, which takes 2^32 advances in one call.
- What a load at an offset outside the packet does beyond giving some value.
- The bounds of lookahead and advance: the code checks neither.
- Signed fields narrower than their type: `compileExtractField` masks them and
  does not extend the sign. The example has none.
- Storage of locals over 32 bits: the backend declares them as pointers and
  copies to the address of the pointer (`fppProgram.cpp` 96, `codeGen.cpp` 235).
- In expressions: casts between `bool` and `bit<1>`, concatenation and slices
  (rejected by C and by the backend), and ifs and returns.
- Names of the output files, printing, formatting and includes.
- p4c itself, libpcap and the C library, beyond what the code uses of them.

## Plan

1. Done: `FppParser`, `HeaderChain`, the example's program, client and headers,
   `FieldLoad`; `Expression`, `Select`, `Compiler`; the theorems above.
2. Signed fields in `FieldLoad`, so that `Expression`'s variables can start from
   what a load stores.
3. `Translate`: the state translation as an operator from the AST of
   `parser.p4` to the table in `ExampleProgram`, compared for equality.
