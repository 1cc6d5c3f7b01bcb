------------------------- MODULE LibraryInvariants -------------------------
(***************************************************************************)
(* The inductive invariants of the parts of the board support package that *)
(* Library puts side by side.  Each invariant is the conjunction of its    *)
(* named parts; that of Log has a module of its own.                       *)
(***************************************************************************)
EXTENDS Library, LogInvariant

-----------------------------------------------------------------------------
(* Files *)

StdInUse == \A i \in Std : InUse(i)

\* Descriptors of devices lie below the mark, the standard ones included once
\* they are redirected.
Marked == \A i \in FD : (i > 2 /\ InUse(i)) \/ fd_list[i].isdev => i <= max_fd

IsDevice == \A i \in FD : fd_list[i].isdev => InUse(i) /\ fd_list[i].dev \notin FileSystem

LockedInMain == \A i \in FD : fd_list[i].excl => fd_list[i].isdev /\ pc \in {"main", "exit"}

SharersAbove ==
  \A i, j \in FD : fd_list[i].excl /\ j # i /\ fd_list[j].dev = fd_list[i].dev => j > i

FilesInv == TypeOK /\ StdInUse /\ Marked /\ IsDevice /\ LockedInMain /\ SharersAbove

Descriptor == [dev : File \cup {None}, mode : Mode, set : SUBSET Flag, isdev : BOOLEAN, excl : BOOLEAN]

StdOpen == \A i \in Std : fd_list[i].dev \in {DevNull, Console} \cap registered

OthersFree == pc \notin {"main", "exit"} => \A i \in FD : i > 2 => ~InUse(i)

\* The standard descriptors alt_io_redirect has been through.
Redirected ==
  {i \in Std : \/ pc \in {"main", "exit"}
               \/ i = 1 /\ pc \in {"stdin", "stderr"}
               \/ i = 0 /\ pc = "stderr"}

StdAgree ==
  "open" \notin Provides[Console] /\ Console \in registered =>
    \A i \in Redirected : fd_list[i].dev = Console

StdInv == StdOpen /\ OthersFree /\ StdAgree

\* What a step of main must leave alone.
StdKept ==
  /\ \A i \in Std : fd_list'[i].dev = fd_list[i].dev
  /\ registered' = registered
  /\ pc \in {"main", "exit"} /\ pc' \in {"main", "exit"}

-----------------------------------------------------------------------------
(* Interrupts *)

Handlers == [line : Line, open : BOOLEAN, old : SUBSET Line]

\* What alt_priority_mask is while the handler at place n of the stack r has not
\* opened itself.
Below(r, n) == IF n = 1 THEN Line ELSE Higher(r[n - 1].line)

TopOf(r) == r[Len(r)]

\* Lines fall towards the top, everything but the top is open and holds the mask
\* that it has to put back, and the stack alone says what PIE (unless it is
\* empty) and alt_priority_mask are.
Stack(r, on, m) ==
  /\ r \in Seq(Handlers)
  /\ \A a, b \in DOMAIN r : a < b => r[b].line < r[a].line
  /\ \A n \in DOMAIN r : n < Len(r) => r[n].open
  /\ \A n \in DOMAIN r : r[n].open => r[n].old = Below(r, n)
  /\ r = <<>> => m = Line
  /\ r # <<>> => /\ on <=> TopOf(r).open
                 /\ m = IF TopOf(r).open THEN Higher(TopOf(r).line) ELSE Below(r, Len(r))

\* Only the outermost section found interrupts on; a section is open exactly
\* while the program has them off.
SectionsNest ==
  /\ sections \in Seq(BOOLEAN)
  /\ \A n \in DOMAIN sections : sections[n] <=> n = 1
  /\ InProgram => (status <=> sections = <<>>)

InterruptsInv ==
  /\ table \subseteq Line /\ requests \subseteq Line /\ mask \subseteq Line
  /\ status \in BOOLEAN
  /\ Stack(running, status, mask)
  /\ TablesAgree /\ SectionsNest /\ SectionKept

-----------------------------------------------------------------------------
(* Process *)

\* The destructors or constructors called when k of Ctors are left, as in RunsOnce.
Called(what, k) == [n \in 1..(Ctors - k) |-> <<what, Ctors + 1 - n>>]

CallsOf == {"ctor", "dtor"} \X Int

\* The image of .rwdata has its initial values and is never written.
ImageKept ==
  /\ ram \in [Address -> {<<"zero">>, <<"written">>} \cup {Initial(n) : n \in Data}]
  /\ \A n \in Data : ram[Flash_rwdata_start + n] = Initial(n)

\* How far the loop of crt0.S or alt_load has come, with what it leaves behind it.
LoopAt ==
  CASE step = "bss"  -> /\ next_ \in Bss_start..Bss_end
                        /\ \A a \in Bss_start..(next_ - 1) : ram[a] = <<"zero">>
    [] step = "load" -> /\ next_ \in 0..DataWords
                        /\ \A a \in Bss : ram[a] = <<"zero">>
                        /\ \A n \in 0..(next_ - 1) : ram[n] = Initial(n)
    [] OTHER         -> next_ \in 0..Ctors

ProcessInv ==
  /\ step \in {"bss", "load", "ctors", "main", "dtors", "spin"}
  /\ ImageKept /\ LoopAt /\ StartsFresh /\ RunsOnce

-----------------------------------------------------------------------------
(* Exceptions *)

AnyFrame == [ret : Routine \X Int, pie : BOOLEAN, from : Instruction,
             raised : BOOLEAN, skip : BOOLEAN, nested : BOOLEAN]

Height == Len(frames)

\* Frame f is one that routine r runs above.
Handles(f, r) ==
  /\ r # "program" /\ ~f.skip
  /\ r = "isr" => f.ret = f.from
  /\ r = "handler" => f.raised /\ f.ret = After(f.from)

\* Only the program has its interrupts on, so only what interrupts the program
\* can be the interrupt routine.
Ordered(s, k) ==
  \A n \in 1..k :
    /\ s[n] \in AnyFrame
    /\ s[n].from[1] = "program" <=> n = 1
    /\ s[n].pie <=> n = 1
    /\ s[n].from[1] = "isr" => n = 2
    /\ n < k => Handles(s[n], s[n + 1].from[1])

Running ==
  /\ pie <=> Height = 0
  /\ at[1] = "program" <=> Height = 0
  /\ Height > 0 => Handles(Top, at[1])
  /\ at[1] = "isr" => Height = 1
  /\ at[1] = "handler" /\ ~Top.nested => ea = After(Top.from)

Testing ==
  /\ Height > 0 /\ ~pie
  /\ ea = After(Top.from) /\ (estatus <=> Top.pie)
  /\ Top.ret = Top.from /\ ~Top.skip /\ ~Top.nested
  /\ ~Top.raised => Top.pie /\ pending

Leaving ==
  /\ Height > 0
  /\ ~StaleEa => Top.ret = IF Top.raised /\ Top.skip THEN After(Top.from) ELSE Top.from

ExceptionsInv ==
  /\ at \in Instruction /\ ea \in Routine \X Int /\ frames \in Seq(AnyFrame)
  /\ pie \in BOOLEAN /\ estatus \in BOOLEAN /\ pending \in BOOLEAN
  /\ state \in {"runs", "test", "exit", "halted"}
  /\ Ordered(frames, Height)
  /\ state = "runs" => Running
  /\ state = "test" => Testing
  /\ state = "exit" => Leaving

-----------------------------------------------------------------------------
(* Board *)

\* The port holds the digits of both numbers, in values of a byte each.
DisplayKept ==
  /\ shown \in (-127..127) \X (-127..127)
  /\ hex = 256 * TwoDigits(shown[1]) + TwoDigits(shown[2])
  /\ 11 \in leds <=> shown[1] < 0
  /\ 10 \in leds <=> shown[2] < 0
  /\ 13 \in leds <=> Magnitude(shown[1]) >= 100
  /\ 12 \in leds <=> Magnitude(shown[2]) >= 100

\* The reads of rUSBIRQ, counted by a byte and its overflows.
ResetKept ==
  /\ stage \in {"low", "high", "wait", "loop"} /\ reads \in Nat
  /\ stage \in {"low", "high"} => reads = 0 /\ warned = 0
  /\ stage \in {"wait", "loop"} =>
       /\ rst = 1 /\ tmp = reads % ByteWrap /\ warned = reads \div ByteWrap
  /\ stage = "loop" => chip = "stable"

BoardInv == DisplayKept /\ ResetKept /\ SleepsAsAsked

-----------------------------------------------------------------------------
(* Timestamp *)

DoingSteps == {"nothing", "stopped", "set", "snapped", "half"}

\* What counter is after e clocks of period p.
After_(e, p) == IF e > p THEN p ELSE p - e

TimestampInv ==
  /\ doing \in DoingSteps /\ counting \in BOOLEAN
  /\ period \in 1..FullScale /\ counter \in 0..period /\ latch \in 0..FullScale
  /\ {elapsed, asked, snapped, taken} \subseteq Nat
  /\ doing # "nothing" => freq # 0
  /\ doing \in {"stopped", "set"} => ~counting
  /\ doing # "set" => counter = After_(elapsed, period)
  /\ counting => elapsed <= period
  /\ doing \in {"snapped", "half"} =>
       latch = After_(snapped, period) /\ asked <= snapped /\ snapped <= elapsed
  /\ doing = "half" =>
       lower = After_(taken, period) % Half /\ asked <= taken /\ taken <= snapped

-----------------------------------------------------------------------------
(* Text *)

Arguments == [c : Chars, x : Words, s : Strings]

\* What the first n characters of a format should print.
Printed(f, a, n) == FlattenSeq([k \in 1..n |-> Shows(f, a, k)])

TextTypes ==
  /\ fmt \in Formats /\ args \in Arguments
  /\ w \in 1..(Len(fmt) + 1) /\ shift \in {Hidden} \cup 0..TopShift
  /\ digits \in BOOLEAN /\ done \in BOOLEAN
  /\ done => shift = Hidden

\* Between two characters of the format, what came before is printed, and the
\* next character is not escaped.
BetweenCharacters ==
  shift = Hidden => out = Printed(fmt, args, w - 1) /\ ~EscapedAt(fmt, w)

\* In the loops over digits at the place shift: the leading zeros are behind it,
\* and so are the digits that are printed.
BetweenDigits ==
  shift # Hidden =>
    /\ w < Len(fmt) /\ fmt[w] = "%" /\ fmt[w + 1] = "x" /\ ~EscapedAt(fmt, w) /\ args.x # 0
    /\ args.x < Power(16)[shift + 1] \/ digits
    /\ digits => HexDigits(args.x) - 1 - shift \in 0..HexDigits(args.x)
    /\ out = Printed(fmt, args, w - 1) \o
             [n \in 1..(IF digits THEN HexDigits(args.x) - 1 - shift ELSE 0) |->
                Hexadecimal(args.x)[n]]

AtTheEnd == done => w > Len(fmt) \/ (w = Len(fmt) /\ fmt[w] = "%")

TextInv == TextTypes /\ BetweenCharacters /\ BetweenDigits /\ AtTheEnd

-----------------------------------------------------------------------------
(* Profile *)

ArcEntry == [from : Site, count : Nat]

FnEntry  == [self : Fn, arcs : Seq(ArcEntry)]

\* The inductive invariant.
Pcs  == {"idle", "arcs", "load", "store", "record", "init", "start", "link", "astray"}

\* The copies of a function, and of an arc in one of them.
FnCopies(F, f)     == {k \in 1..Len(F) : F[k].self = f}

ArcCopies(F, k, s) == {j \in 1..Len(F[k].arcs) : F[k].arcs[j].from = s}

AtMostOne(S) == \A x, y \in S : x = y

AtMostTwo(S) == \A x, y, z \in S : x = y \/ y = z \/ x = z

Mcount == [pc : Pcs, self : Fn, from : Site, fn : Nat, arc : Nat, count : Nat]

Memory == [end : Nat, got : Int, slab : Nat, left : Nat]

HeapBlock == [lo : Nat, hi : Nat, for : {"program", "histogram", "mcount"}]

ProfileTypes ==
  /\ fns \in Seq(FnEntry) /\ act \in [1..2 -> Mcount]
  /\ clock \in BOOLEAN /\ irqs \in BOOLEAN /\ need_init \in BOOLEAN /\ started \in Int
  /\ mem \in Memory
  /\ calls \in [Arc -> Int] /\ lost \in [Arc -> Int]

\* An element that is to be linked: the interrupt routine has linked one like it
\* at most, and nothing has interrupted the interrupt routine.
Links(a) == a.pc \in {"record", "init", "start", "link"}

NewFn(a)    == Links(a) /\ a.fn = 0

NewArcOf(a) == Links(a) /\ a.fn # 0

\* What a walk has found stays where it is.
Walked(F, a) ==
  /\ a.fn # 0 => a.fn \in 1..Len(F) /\ F[a.fn].self = a.self
  /\ a.pc \in {"arcs", "load", "store"} => a.fn # 0
  /\ a.pc \in {"load", "store"} => a.arc \in 1..Len(F[a.fn].arcs) /\ F[a.fn].arcs[a.arc].from = a.from

WalksFound == Walked(fns, act[1]) /\ Walked(fns, act[2]) /\ (~irqs => act[2].pc = "idle")

CopiesFew(F, a, b) ==
  /\ \A f \in Fn : AtMostTwo(FnCopies(F, f))
  /\ \A k \in 1..Len(F), s \in Site : AtMostTwo(ArcCopies(F, k, s))
  /\ NewFn(a) => AtMostOne(FnCopies(F, a.self))
  /\ NewFn(b) => FnCopies(F, b.self) = {}
  /\ NewArcOf(a) => AtMostOne(ArcCopies(F, a.fn, a.from))
  /\ NewArcOf(b) => ArcCopies(F, b.fn, b.from) = {}

CopiesKept == CopiesFew(fns, act[1], act[2])

\* The sampler is started by the call that lets interrupts in, at the latest.
SamplerKept ==
  /\ started \in {0, 1} /\ (need_init => started = 0)
  /\ irqs => started = 1 /\ ~need_init /\ act[1].pc \notin {"init", "start"} /\ act[2].pc \notin {"init", "start"}
  /\ ~irqs => FnCopies(fns, RegisterFn) = {}
  /\ ~need_init => started = 1 \/ act[1].pc \in {"start", "astray"}
  /\ act[1].pc = "start" => ~need_init /\ started = 0
  /\ act[1].pc = "init" => need_init
  /\ ~irqs /\ act[1].pc = "link" /\ act[1].self = RegisterFn => started = 1
  /\ act[1].pc # "idle" /\ act[1].self = RegisterFn => clock
  /\ act[2].pc # "idle" => act[2].self # RegisterFn

\* The blocks of the heap are in front of its end, and the elements of the lists
\* in front of what is left of the current slab.
Apart(b, c) == b.hi <= c.lo \/ c.hi <= b.lo

BlocksKept(m, B) ==
  /\ \A b \in B : /\ b \in HeapBlock /\ b.lo % 4 = 0 /\ b.lo <= b.hi /\ b.hi <= m.end /\ b.hi <= HeapLimit
                  /\ b.for = "histogram" => b.hi = b.lo + 2 * Histogram
  /\ \A b, c \in B : b = c \/ Apart(b, c)

InSlab(lo, hi, B) == \E b \in B : b.for = "mcount" /\ b.lo <= lo /\ hi <= b.hi

NodesKept(m, B, N) ==
  /\ m.slab + m.left <= m.end
  /\ Node <= m.left => InSlab(m.slab, m.slab + m.left, B)
  /\ \A n \in N : n \in Nat /\ n + Node <= m.slab /\ InSlab(n, n + Node, B)
  /\ \A n, o \in N : n = o \/ o + Node <= n \/ n + Node <= o
  /\ IsFiniteSet(N)

HeapKept == BlocksKept(mem, blocks) /\ NodesKept(mem, blocks, nodes) /\ Cardinality(nodes) = Elements(fns)

ProfileInv ==
  ProfileTypes /\ WalksFound /\ CopiesKept /\ SamplerKept /\ HeapKept /\ SampleInPlace /\ CountsAddUp
=============================================================================
