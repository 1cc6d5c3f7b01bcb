------------------------------ MODULE Profile ------------------------------
(***************************************************************************)
(* The profiler of the HAL, in a build with -pg: mcount (alt_mcount.S),    *)
(* which counts every call of every function in a graph of arcs, the       *)
(* sampler of the program counter (alt_gmon.c) and sbrk (alt_sbrk.c).      *)
(*                                                                         *)
(* The program calls functions, and so does the interrupt routine between  *)
(* any two loads or stores of the program's own mcount.  Lists only grow   *)
(* at their heads: the load of a head fixes what a walk will find.  A list *)
(* is a sequence here, the oldest element first.                           *)
(***************************************************************************)
EXTENDS Integers, Sequences, FiniteSets, FiniteSetsExt, SequencesExt

CONSTANTS
  Fn, Site,          \* self_pc and from_pc: functions and the places they are called from
  RegisterFn, RegisterSite, \* the call of alt_ic_isr_register by the timer driver
  Node,              \* bytes of a list element: 12
  Slab,              \* MCOUNT_SLAB_INCREMENT: 1020
  HeapLimit,         \* __alt_heap_limit, the heap starts at 0
  Requests,          \* bytes the program asks of sbrk
  TextBytes,         \* s_high_pc - s_low_pc
  BucketBytes,       \* PCSAMPLE_BYTES_PER_BUCKET: 32
  MaxCalls, MaxRequests \* bounds on the calls counted and on the program's requests

ASSUME ProfileAssumption ==
  /\ RegisterFn \in Fn /\ RegisterSite \in Site
  /\ Node \in Nat \ {0} /\ Slab \in Nat /\ Node <= Slab /\ HeapLimit \in Nat
  /\ Requests \subseteq Nat /\ BucketBytes \in Nat \ {0} /\ TextBytes \in Nat

VARIABLES
  fns,          \* the lists of mcount_fn_entry: [self, arcs], arcs: [from, count]
  act,          \* the mcount of the program (1) and of the interrupt routine (2)
  clock,        \* alt_ticks_per_second() # 0
  irqs,         \* interrupts can come
  need_init,    \* pcsample_need_init
  started,      \* how often the sampler's alarm was started
  mem,          \* [end, got, slab, left]: heap_end, what sbrk returned, the current slab
  blocks,       \* history: [lo, hi, for] given out by sbrk
  nodes,        \* history: the addresses of list elements
  hit,          \* history: what the last sample fell on, [lo, for, at]
  calls, lost   \* history, for each arc: calls counted; increments overwritten

memory  == <<mem, blocks, nodes>>
sampler == <<need_init, started, hit>>
history == <<calls, lost>>
profile == <<fns, act, clock, irqs, memory, sampler, history>>

Arc  == Fn \X Site
Idle == [pc |-> "idle", self |-> RegisterFn, from |-> RegisterSite, fn |-> 0, arc |-> 0, count |-> 0]

ProfileInit ==
  /\ fns = <<>> /\ act = <<Idle, Idle>>
  /\ clock = FALSE /\ irqs = FALSE
  /\ need_init = TRUE /\ started = 0 /\ hit = {}
  /\ mem = [end |-> 0, got |-> 0, slab |-> 0, left |-> 0] /\ blocks = {} /\ nodes = {}
  /\ calls = [a \in Arc |-> 0] /\ lost = [a \in Arc |-> 0]

\* A sample has changed bytes that are not the histogram's.
Overrun == \E b \in hit : b.for # "histogram"

\* The interrupt routine runs to its end before the program goes on.  What a
\* program does whose memory a sample has changed is not followed.
Runs(l, pc) == act[l].pc = pc /\ (l = 1 => act[2].pc = "idle") /\ ~Overrun

Goes(l, pc) == act' = [act EXCEPT ![l].pc = pc]

-----------------------------------------------------------------------------
(* sbrk *)

Aligned(a) == 4 * ((a + 3) \div 4)

\* The end of the heap is aligned even for a caller who gets -1.
Sbrk(m, n) ==
  LET e == Aligned(m.end) IN
    IF e + n > HeapLimit THEN [m EXCEPT !.end = e, !.got = -1]
                         ELSE [m EXCEPT !.end = e + n, !.got = e]

Block(a, n, who) == IF a >= 0 THEN {[lo |-> a, hi |-> a + n, for |-> who]} ELSE {}

\* malloc of the C library.
ProgramAsks(n) ==
  /\ Runs(1, "idle") /\ Cardinality({b \in blocks : b.for = "program"}) < MaxRequests
  /\ mem' = Sbrk(mem, n)
  /\ blocks' = blocks \cup Block(mem'.got, n, "program")
  /\ UNCHANGED <<fns, act, clock, irqs, nodes, sampler, history>>

NewSlab(m) == Node > m.left

\* mcount_allocate: what is left of the old slab is forgotten.
Allocate(m) ==
  IF NewSlab(m) THEN LET s == Sbrk(m, Slab) IN [s EXCEPT !.slab = s.got + Node, !.left = Slab - Node]
                ELSE [m EXCEPT !.slab = @ + Node, !.left = @ - Node]

Allocated(m) == Allocate(m).slab - Node

-----------------------------------------------------------------------------
(* mcount *)

\* The newest element of s, among the first n, that passes the test; 0 for none.
FindFn(self) == Max({k \in DOMAIN fns : fns[k].self = self} \cup {0})

FindArc(fn, from) == Max({k \in DOMAIN fns[fn].arcs : fns[fn].arcs[k].from = from} \cup {0})

Sum(f) == FoldSet(LAMBDA a, n : f[a] + n, 0, DOMAIN f)

\* The call of a function: mcount loads the head of the list of functions.
Call(l, f, s) ==
  /\ Runs(l, "idle") /\ (l = 2 => irqs) /\ Sum(calls) < MaxCalls
  /\ f = RegisterFn => s = RegisterSite /\ l = 1 /\ clock /\ ~irqs
  /\ LET k == FindFn(f) IN
       act' = [act EXCEPT ![l] = [Idle EXCEPT !.pc = IF k = 0 THEN "record" ELSE "arcs",
                                              !.self = f, !.from = s, !.fn = k]]
  /\ UNCHANGED <<fns, clock, irqs, memory, sampler, history>>

\* The head of the list of arcs.
WalkArcs(l) ==
  /\ Runs(l, "arcs")
  /\ LET k == FindArc(act[l].fn, act[l].from) IN
       act' = [act EXCEPT ![l].arc = k, ![l].pc = IF k = 0 THEN "record" ELSE "load"]
  /\ UNCHANGED <<fns, clock, irqs, memory, sampler, history>>

Count(l) == fns[act[l].fn].arcs[act[l].arc].count

LoadCount(l) ==
  /\ Runs(l, "load")
  /\ act' = [act EXCEPT ![l].count = Count(l), ![l].pc = "store"]
  /\ UNCHANGED <<fns, clock, irqs, memory, sampler, history>>

\* The function body of alt_ic_isr_register follows its mcount: the timer may
\* interrupt from there on.
Returns(l) ==
  /\ act' = [act EXCEPT ![l] = Idle]
  /\ irqs' = (irqs \/ act[l].self = RegisterFn)
  /\ calls' = [calls EXCEPT ![<<act[l].self, act[l].from>>] = @ + 1]

StoreCount(l) ==
  /\ Runs(l, "store")
  /\ fns' = [fns EXCEPT ![act[l].fn].arcs[act[l].arc].count = act[l].count + 1]
  /\ lost' = [lost EXCEPT ![<<act[l].self, act[l].from>>] = @ + Count(l) - act[l].count]
  /\ Returns(l)
  /\ UNCHANGED <<clock, memory, sampler>>

-----------------------------------------------------------------------------
(* __mcount_record *)

TestNeedInit(l) ==
  /\ Runs(l, "record")
  /\ Goes(l, IF need_init THEN "init" ELSE "link")
  /\ UNCHANGED <<fns, clock, irqs, memory, sampler, history>>

ClearNeedInit(l) ==
  /\ Runs(l, "init") /\ Goes(l, "start")
  /\ need_init' = FALSE
  /\ UNCHANGED <<fns, clock, irqs, memory, started, hit, history>>

Histogram == TextBytes \div BucketBytes

\* nios2_pcsample_init, without a clock yet: to be tried again.
SamplerWaits(l) ==
  /\ Runs(l, "start") /\ ~clock /\ Goes(l, "link")
  /\ need_init' = TRUE
  /\ UNCHANGED <<fns, clock, irqs, memory, started, hit, history>>

SamplerStarts(l) ==
  /\ Runs(l, "start") /\ clock /\ Goes(l, "link")
  /\ mem' = Sbrk(mem, 2 * Histogram)
  /\ mem'.got >= 0
  /\ blocks' = blocks \cup Block(mem'.got, 2 * Histogram, "histogram")
  /\ started' = started + 1
  /\ UNCHANGED <<fns, clock, irqs, nodes, need_init, hit, history>>

NewArc(from) == [from |-> from, count |-> 1]

\* Fault: the element found by the walk is used for a list that has grown.
LinkedInPlace(l) ==
  LET a == act[l] IN
    IF a.fn = 0 THEN <<[self |-> a.self, arcs |-> <<NewArc(a.from)>>]>>
    ELSE [fns EXCEPT ![a.fn].arcs = Append(@, NewArc(a.from))]

\* The walk's result, which may be out of date, decides whether the function is
\* new; the heads of the lists are read again.
Linked(l) ==
  LET a == act[l] IN
    IF a.fn = 0 THEN Append(fns, [self |-> a.self, arcs |-> <<NewArc(a.from)>>])
    ELSE [fns EXCEPT ![a.fn].arcs = Append(@, NewArc(a.from))]

\* With interrupts off: one or two elements are allocated and linked.
Link(l) ==
  /\ Runs(l, "link")
  /\ LET m1 == Allocate(mem)
         m2 == IF act[l].fn = 0 THEN Allocate(m1) ELSE m1 IN
       /\ Allocated(mem) >= 0 /\ (act[l].fn = 0 => Allocated(m1) >= 0)
       /\ mem' = m2
       /\ nodes' = nodes \cup {Allocated(mem)} \cup IF act[l].fn = 0 THEN {Allocated(m1)} ELSE {}
       /\ blocks' = blocks \cup (IF NewSlab(mem) THEN Block(m1.got, Slab, "mcount") ELSE {})
                           \cup (IF act[l].fn = 0 /\ NewSlab(m1) THEN Block(m2.got, Slab, "mcount") ELSE {})
  /\ fns' = Linked(l)
  /\ Returns(l)
  /\ UNCHANGED <<clock, sampler, lost>>

\* Neither caller of sbrk looks for -1: beyond this step the program writes
\* through it, and is not followed.
OutOfHeap(l) ==
  /\ \/ Runs(l, "start") /\ clock /\ Sbrk(mem, 2 * Histogram).got < 0
     \/ Runs(l, "link") /\ \/ NewSlab(mem) /\ Sbrk(mem, Slab).got < 0
                           \/ act[l].fn = 0 /\ NewSlab(Allocate(mem)) /\ Sbrk(Allocate(mem), Slab).got < 0
  /\ Goes(l, "astray")
  /\ UNCHANGED <<fns, clock, irqs, memory, sampler, history>>

-----------------------------------------------------------------------------
(* The clock and the sampler *)

\* alt_sysclk_init, before alt_ic_isr_register.
ClockSet ==
  /\ Runs(1, "idle") /\ ~clock /\ clock' = TRUE
  /\ UNCHANGED <<fns, act, irqs, memory, sampler, history>>

BucketOf(pc) == pc \div BucketBytes

\* The blocks that an unsigned short at address a has a byte of.
BlocksAt(a) ==
  {[lo |-> b.lo, for |-> b.for, at |-> a] : b \in {c \in blocks : c.lo < a + 2 /\ a < c.hi}}

\* nios2_pcsample, for an interrupt at pc bytes after s_low_pc.  Bound: the
\* program is not in its own mcount.
PcSample(pc) ==
  /\ irqs /\ Runs(1, "idle") /\ pc < TextBytes
  /\ \E b \in blocks : b.for = "histogram" /\ hit' = BlocksAt(b.lo + 2 * BucketOf(pc))
  /\ UNCHANGED <<fns, act, clock, irqs, memory, need_init, started, history>>

ProfileNext ==
  \/ \E l \in 1..2 : \/ \E f \in Fn, s \in Site : Call(l, f, s)
                     \/ WalkArcs(l) \/ LoadCount(l) \/ StoreCount(l)
                     \/ TestNeedInit(l) \/ ClearNeedInit(l) \/ SamplerWaits(l) \/ SamplerStarts(l)
                     \/ Link(l) \/ OutOfHeap(l)
  \/ \E n \in Requests : ProgramAsks(n)
  \/ ClockSet
  \/ \E k \in 0..Histogram : PcSample(BucketBytes * k)

ProfileSpec == ProfileInit /\ [][ProfileNext]_profile

-----------------------------------------------------------------------------
(* Properties *)

\* The sum of a sequence of numbers.
Total(s) == LET t[n \in 0..Len(s)] == IF n = 0 THEN 0 ELSE t[n - 1] + s[n] IN t[Len(s)]

\* The calls of f from s as a list of functions shows them.
CountIn(e, f, s) ==
  IF e.self = f
  THEN Total([j \in 1..Len(e.arcs) |-> IF e.arcs[j].from = s THEN e.arcs[j].count ELSE 0])
  ELSE 0
Counted(list, f, s) == Total([k \in 1..Len(list) |-> CountIn(list[k], f, s)])

\* A function and each of its arcs have an element.
Elements(list) == Len(list) + Total([k \in 1..Len(list) |-> Len(list[k].arcs)])

\* Every call is in the profile, in one copy of its arc or another, except the
\* increments of the interrupt routine that the program's own increment of the
\* same arc overwrites (alt_mcount.S; alt_gmon.c:174-181).
CountsAddUp == \A f \in Fn, s \in Site : Counted(fns, f, s) = calls[<<f, s>>] - lost[<<f, s>>]

\* One interrupt leaves at most one more copy (alt_gmon.c:177-180): two elements
\* of a function, two of an arc in each.
FewCopies ==
  /\ \A f \in Fn : Cardinality({k \in DOMAIN fns : fns[k].self = f}) <= 2
  /\ \A k \in DOMAIN fns, s \in Site :
       Cardinality({j \in DOMAIN fns[k].arcs : fns[k].arcs[j].from = s}) <= 2

\* The alarm of the sampler is started once, although the flag that says so is
\* tested and cleared with interrupts on (alt_gmon.c:168): the first call after
\* the clock is set is still made with interrupts off.
SamplerOnce == started <= 1 /\ (irqs => started = 1)

\* What sbrk gives out is aligned, disjoint and below the limit, and each list
\* element has a place of its own in a slab, although the interrupt routine
\* allocates as well.
HeapDisjoint ==
  /\ \A b \in blocks : b.lo % 4 = 0 /\ b.hi <= HeapLimit
  /\ \A b, c \in blocks : b.lo < c.hi /\ c.lo < b.hi => b = c \/ b.lo = b.hi \/ c.lo = c.hi
  /\ \A n \in nodes : /\ \E b \in blocks : b.for = "mcount" /\ b.lo <= n /\ n + Node <= b.hi
                      /\ \A o \in nodes : o # n => o + Node <= n \/ n + Node <= o
  /\ Cardinality(nodes) = Elements(fns)

\* The size of the histogram is rounded down (alt_gmon.c:226), so the last bytes
\* of a text that ends within a bucket are counted behind it (266).  With an odd
\* number of whole buckets that is the gap before the next block.  With an even
\* number it is not harmless: the sample increments the first two bytes of the
\* block that follows, a list element or memory of the program.  Nothing else is
\* ever hit.
SampleInPlace ==
  \A b \in hit :
    \/ b.for = "histogram"
    \/ /\ TextBytes % BucketBytes # 0 /\ Histogram % 2 = 0
       /\ \E h \in blocks : h.for = "histogram" /\ b.lo = h.hi /\ b.at = h.hi

\* The graph of calls and the heap it lives in, whatever interrupts come while a
\* list is walked, extended or allocated for, up to the first sample that falls
\* behind the histogram.
ProfilerSound ==
  CountsAddUp /\ FewCopies /\ SamplerOnce /\ HeapDisjoint /\ SampleInPlace
=============================================================================
