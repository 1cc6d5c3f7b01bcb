---------------------------- MODULE ClockProofs ----------------------------
(***************************************************************************)
(* Proofs about Clock, for any number of alarms and any width of the tick  *)
(* count.  The list is described by Links: the nodes reached from the head *)
(* form the ring On, on which next and previous undo each other.  A walk   *)
(* of alt_tick splits the ring: V, the stretch it has passed, holds alarms *)
(* ahead of this tick, the rest alarms ahead of the tick before.  That the *)
(* rest are called back in time is then Visited, a fact about words.       *)
(***************************************************************************)
EXTENDS Clock, TLAPS

-----------------------------------------------------------------------------
(* Arithmetic on words *)

LEMMA Wrapping ==
  \A z \in (-Wrap)..(2 * Wrap - 1) :
    z % Wrap = IF z < 0 THEN z + Wrap ELSE IF z < Wrap THEN z ELSE z - Wrap
<1>1. Wrap \in Nat \ {0}  BY ClockAssumption
<1>2. SUFFICES ASSUME NEW z \in (-Wrap)..(2 * Wrap - 1)
      PROVE  z % Wrap = IF z < 0 THEN z + Wrap ELSE IF z < Wrap THEN z ELSE z - Wrap
  OBVIOUS
<1>3. CASE z < 0  BY <1>1, <1>3
<1>4. CASE 0 <= z /\ z < Wrap  BY <1>1, <1>4
<1>5. CASE Wrap <= z  BY <1>1, <1>5
<1>6. QED  BY <1>1, <1>3, <1>4, <1>5

\* The ticks from now to a callback time, as left counts them.
LEMMA TicksTo ==
  ASSUME NEW t \in Word, NEW n \in Word
  PROVE  /\ (t - n) % Wrap \in Word
         /\ (t - n) % Wrap = IF t < n THEN t - n + Wrap ELSE t - n
<1> DEFINE z == t - n
<1>1. /\ z \in (-Wrap)..(2 * Wrap - 1) /\ z < Wrap /\ (t < n <=> z < 0) /\ -Wrap < z
      /\ z \in Int /\ Wrap \in Nat
  BY ClockAssumption DEF Word
<1>2. z % Wrap = IF z < 0 THEN z + Wrap ELSE IF z < Wrap THEN z ELSE z - Wrap
  BY <1>1, Wrapping, Zenon
<1>3. z % Wrap = IF t < n THEN z + Wrap ELSE z
  BY <1>1, <1>2, Zenon
<1> HIDE DEF z
<1>4. z % Wrap \in Word  BY <1>1, <1>3 DEF Word
<1>5. QED  BY <1>3, <1>4, Zenon DEF z

\* A callback time k ticks ahead.
LEMMA Ahead ==
  ASSUME NEW n \in Word, NEW k \in 0..MaxTicks
  PROVE  /\ (n + k) % Wrap \in Word
         /\ (n + k) % Wrap = IF n + k < Wrap THEN n + k ELSE n + k - Wrap
         /\ (((n + k) % Wrap) - n) % Wrap = k
<1>1. n + k \in (-Wrap)..(2 * Wrap - 1)  BY ClockAssumption DEF Word
<1>2. (n + k) % Wrap = IF n + k < Wrap THEN n + k ELSE n + k - Wrap
  BY <1>1, Wrapping, ClockAssumption DEF Word
<1>3. (n + k) % Wrap \in Word
  BY <1>2, ClockAssumption DEF Word
<1>4. (((n + k) % Wrap) - n) % Wrap = k
  BY <1>2, <1>3, TicksTo, ClockAssumption DEF Word
<1>5. QED  BY <1>2, <1>3, <1>4

-----------------------------------------------------------------------------
(* The list *)

On == {a \in Alarm : Listed(a)} \cup {List}

\* The ring, linked both ways, seen from either side.
Ring ==
  /\ \A n \in On : /\ next[n] \in On /\ previous[next[n]] = n
                   /\ previous[n] \in On /\ next[previous[n]] = n
  /\ \A S \in SUBSET On : (List \in S /\ \A n \in S : next[n] \in S) => S = On

\* An alarm that was stopped points at itself.
Apart == \A a \in Alarm : next[a] = a => previous[a] = a

Links ==
  /\ next \in [Nodes -> Nodes \cup {Null}] /\ previous \in [Nodes -> Nodes \cup {Null}]
  /\ Ring /\ Apart

\* alt_llist.h puts an alarm that is not on the list behind the head.
LEMMA Inserted ==
  ASSUME Links, NEW a \in Alarm, ~Listed(a), Insert(a)
  PROVE  /\ Links' /\ On' = On \cup {a}
         /\ \A b \in Alarm \ {a} : next'[b] = next[b]
         /\ Listed(a)'
<1> DEFINE q == next[List]
<1>1. /\ a # List /\ a \notin On /\ List \in On /\ q \in On /\ q # a /\ a # Null /\ List # Null
      /\ On \subseteq Nodes /\ previous[q] = List
  BY ClockAssumption DEF On, Links, Ring, Nodes
<1>2. /\ next \in [Nodes -> Nodes \cup {Null}] /\ previous \in [Nodes -> Nodes \cup {Null}]
      /\ a \in Nodes /\ List \in Nodes
  BY DEF Links, Nodes
<1>3. \A n \in Nodes : next'[n] = IF n = List THEN a ELSE IF n = a THEN q ELSE next[n]
  BY <1>1, <1>2 DEF Insert
<1>4. \A n \in Nodes : previous'[n] = IF n = q THEN a ELSE IF n = a THEN List ELSE previous[n]
  BY <1>1, <1>2 DEF Insert
<1>5. next' \in [Nodes -> Nodes \cup {Null}] /\ previous' \in [Nodes -> Nodes \cup {Null}]
  BY <1>1, <1>2 DEF Insert
<1> HIDE DEF q
<1>6. \A b \in Alarm : b \in Nodes /\ b # List  BY ClockAssumption DEF Nodes
<1>7. \A b \in Alarm \ {a} : next'[b] = next[b]
  BY <1>3, <1>6
<1>8. Listed(a)'
  <2>1. q # Null  BY <1>1, ClockAssumption DEF Nodes
  <2>2. next'[a] = q  BY <1>1, <1>2, <1>3
  <2>3. QED  BY <1>1, <2>1, <2>2 DEF Listed
<1>9. On' = On \cup {a}
  BY <1>7, <1>8 DEF On, Listed
<1>10. \A n \in On' : /\ next'[n] \in On' /\ previous'[next'[n]] = n
                     /\ previous'[n] \in On' /\ next'[previous'[n]] = n
  <2>1. SUFFICES ASSUME NEW n \in On \cup {a}
                 PROVE  /\ next'[n] \in On \cup {a} /\ previous'[next'[n]] = n
                        /\ previous'[n] \in On \cup {a} /\ next'[previous'[n]] = n
    BY <1>9
  <2>2. \A m \in On : /\ next[m] \in On /\ previous[next[m]] = m
                     /\ previous[m] \in On /\ next[previous[m]] = m
    BY DEF Links, Ring
  <2>3. n = List \/ n = a \/ (n \in On /\ n # List /\ n # a)  BY <2>1
  <2>4. next'[n] \in On \cup {a} /\ previous'[next'[n]] = n
    BY <1>1, <1>2, <1>3, <1>4, <2>2, <2>3 DEF q
  <2>5. previous'[n] \in On \cup {a} /\ next'[previous'[n]] = n
    BY <1>1, <1>2, <1>3, <1>4, <2>2, <2>3 DEF q
  <2>6. QED  BY <2>4, <2>5
<1>11. ASSUME NEW S \in SUBSET (On'), List \in S, \A n \in S : next'[n] \in S
       PROVE  S = On'
  <2>1. a \in S /\ q \in S
    BY <1>1, <1>2, <1>3, <1>11
  <2> DEFINE T == S \ {a}
  <2>2. T \in SUBSET On /\ List \in T  BY <1>1, <1>9, <1>11
  <2>3. \A n \in T : next[n] \in T
    <3>1. SUFFICES ASSUME NEW n \in T PROVE next[n] \in T
      OBVIOUS
    <3>2. CASE n = List  BY <1>1, <2>1, <3>2 DEF q
    <3>3. CASE n # List
      <4>1. next[n] = next'[n] /\ next[n] \in On
        BY <1>1, <1>3, <2>2, <3>1, <3>3 DEF Links, Ring
      <4>2. QED  BY <1>1, <1>11, <3>1, <4>1
    <3>4. QED  BY <3>2, <3>3
  <2>4. T = On  BY <2>2, <2>3 DEF Links, Ring
  <2>5. QED  BY <1>9, <2>1, <2>4
<1>12. Apart'
  BY <1>1, <1>2, <1>3, <1>4, <1>6, Zenon DEF Links, Apart
<1>13. QED
  BY <1>5, <1>7, <1>8, <1>9, <1>10, <1>11, <1>12 DEF Links, Ring

\* A stopped alarm is left as it is.
LEMMA RemovedTwice ==
  ASSUME Links, NEW a \in Alarm, next[a] # Null, ~Listed(a), Remove(a)
  PROVE  UNCHANGED list
<1>1. next[a] = a /\ previous[a] = a  BY DEF Listed, Links, Apart
<1>2. a \in Nodes /\ DOMAIN next = Nodes /\ DOMAIN previous = Nodes  BY DEF Links, Nodes
<1>3. \A n \in Nodes : next'[n] = next[n] /\ previous'[n] = previous[n]
  BY <1>1, <1>2 DEF Remove, Links
<1>4. next' = [n \in Nodes |-> next'[n]] /\ previous' = [n \in Nodes |-> previous'[n]]
  BY <1>2 DEF Remove
<1>5. next = [n \in Nodes |-> next[n]] /\ previous = [n \in Nodes |-> previous[n]]
  BY DEF Links
<1>6. next' = next /\ previous' = previous
  BY <1>3, <1>4, <1>5
<1>7. QED  BY <1>6 DEF list

\* An alarm leaves the list, its neighbours are linked.
LEMMA Removed ==
  ASSUME Links, NEW a \in Alarm, Listed(a), Remove(a)
  PROVE  /\ Links' /\ On' = On \ {a} /\ ~Listed(a)'
         /\ previous[a] \in On' /\ next[a] \in On'
         /\ \A n \in On' : next'[n] = IF n = previous[a] THEN next[a] ELSE next[n]
         /\ \A n \in On' : previous'[n] = IF n = next[a] THEN previous[a] ELSE previous[n]
         /\ \A b \in Alarm \ {a} : Listed(b)' <=> Listed(b)
<1> DEFINE q == next[a]  p == previous[a]
<1>1. /\ a # List /\ a \in On /\ List \in On /\ a # Null /\ List # Null /\ Null \notin On
      /\ On \subseteq Nodes /\ a \in Nodes /\ List \in Nodes
  BY ClockAssumption DEF On, Nodes
<1>2. \A m \in On : /\ next[m] \in On /\ previous[next[m]] = m
                   /\ previous[m] \in On /\ next[previous[m]] = m
  BY DEF Links, Ring
<1>3. /\ p \in On /\ q \in On /\ p # a /\ q # a /\ next[p] = a /\ previous[q] = a
  BY <1>1, <1>2 DEF Listed
<1>4. /\ next \in [Nodes -> Nodes \cup {Null}] /\ previous \in [Nodes -> Nodes \cup {Null}]
  BY DEF Links
<1> HIDE DEF p, q
<1>5. \A n \in Nodes : next'[n] = IF n = a THEN a ELSE IF n = p THEN q ELSE next[n]
  BY <1>1, <1>3, <1>4 DEF Remove, p, q
<1>6. \A n \in Nodes : previous'[n] = IF n = a THEN a ELSE IF n = q THEN p ELSE previous[n]
  BY <1>1, <1>3, <1>4 DEF Remove, p, q
<1>7. next' \in [Nodes -> Nodes \cup {Null}] /\ previous' \in [Nodes -> Nodes \cup {Null}]
  <2>1. p \in Nodes /\ q \in Nodes  BY <1>1, <1>3
  <2>2. next' \in [Nodes -> Nodes \cup {Null}]
    BY <1>1, <1>4, <2>1 DEF Remove, p, q
  <2>3. previous' \in [Nodes -> Nodes \cup {Null}]
    BY <1>1, <1>4, <2>1 DEF Remove, p, q
  <2>4. QED  BY <2>2, <2>3
<1>8. ~Listed(a)'
  <2>1. next'[a] = a  BY <1>1, <1>5
  <2>2. QED  BY <2>1 DEF Listed
\* Two alarms cannot point at each other: the head would be on no ring with them.
<1>9. p # List => q # p
  <2> SUFFICES ASSUME p # List, q = p PROVE FALSE
    OBVIOUS
  <2> DEFINE S == On \ {a, p}
  <2>1. S \in SUBSET On /\ List \in S  BY <1>1
  <2>2. \A n \in S : next[n] \in S  BY <1>2, <1>3
  <2>3. S = On  BY <2>1, <2>2 DEF Links, Ring
  <2>4. QED  BY <1>1, <2>3
<1>10. \A b \in Alarm \ {a} : Listed(b)' <=> Listed(b)
  <2>1. SUFFICES ASSUME NEW b \in Alarm \ {a} PROVE Listed(b)' <=> Listed(b)
    OBVIOUS
  <2>2. b \in Nodes /\ b # List  BY ClockAssumption DEF Nodes
  <2>3. CASE b = p
    <3>1. next'[b] = q /\ next[b] = a  BY <1>3, <1>5, <2>1, <2>2, <2>3
    <3>2. q # p /\ q # Null  BY <1>1, <1>3, <1>9, <2>2, <2>3
    <3>3. QED  BY <1>1, <2>1, <2>3, <3>1, <3>2 DEF Listed
  <2>4. CASE b # p
    <3>1. next'[b] = next[b]  BY <1>5, <2>1, <2>2, <2>4
    <3>2. QED  BY <3>1 DEF Listed
  <2>5. QED  BY <2>3, <2>4
<1>11. On' = On \ {a}
  BY <1>1, <1>8, <1>10 DEF On
<1>12. \A n \in On' : /\ next'[n] = (IF n = p THEN q ELSE next[n])
                     /\ previous'[n] = (IF n = q THEN p ELSE previous[n])
  BY <1>1, <1>5, <1>6, <1>11
<1>13. \A n \in On' : /\ next'[n] \in On' /\ previous'[next'[n]] = n
                     /\ previous'[n] \in On' /\ next'[previous'[n]] = n
  <2>1. SUFFICES ASSUME NEW n \in On \ {a}
                 PROVE  /\ next'[n] \in On \ {a} /\ previous'[next'[n]] = n
                        /\ previous'[n] \in On \ {a} /\ next'[previous'[n]] = n
    BY <1>11
  <2>2. \A m \in On \ {a} : /\ next'[m] = (IF m = p THEN q ELSE next[m])
                           /\ previous'[m] = (IF m = q THEN p ELSE previous[m])
    BY <1>11, <1>12
  <2>3. next'[n] \in On \ {a} /\ previous'[next'[n]] = n
    BY <1>2, <1>3, <2>1, <2>2
  <2>4. previous'[n] \in On \ {a} /\ next'[previous'[n]] = n
    BY <1>2, <1>3, <2>1, <2>2
  <2>5. QED  BY <2>3, <2>4
<1>14. ASSUME NEW S \in SUBSET (On'), List \in S, \A n \in S : next'[n] \in S
       PROVE  S = On'
  <2> DEFINE T == S \cup {a}
  <2>1. S \subseteq On /\ a \notin S  BY <1>11, <1>14
  <2>2. p \in S => q \in S  BY <1>12, <1>14
  <2>3. \A n \in S : n # p => next[n] \in S  BY <1>12, <1>14
  <2>4. p \in S
    <3>1. SUFFICES ASSUME p \notin S PROVE FALSE
      OBVIOUS
    <3>2. \A n \in S : next[n] \in S  BY <2>3, <3>1
    <3>3. S = On  BY <1>14, <2>1, <3>2 DEF Links, Ring
    <3>4. QED  BY <1>1, <2>1, <3>3
  <2>5. T \in SUBSET On /\ List \in T  BY <1>1, <1>14, <2>1
  <2>6. \A n \in T : next[n] \in T  BY <1>3, <2>2, <2>3, <2>4 DEF q
  <2>7. T = On  BY <2>5, <2>6 DEF Links, Ring
  <2>8. QED  BY <1>11, <2>1, <2>7
<1>15. Apart'
  <2>1. SUFFICES ASSUME NEW b \in Alarm, next'[b] = b PROVE previous'[b] = b
    BY DEF Apart
  <2>2. CASE b = a  BY <1>1, <1>6, <2>2
  <2>3. CASE b # a
    <3>1. b \in Nodes /\ ~Listed(b)'  BY <2>1 DEF Nodes, Listed
    <3>2. ~Listed(b)  BY <1>10, <2>3, <3>1
    <3>3. b \notin On /\ b # p /\ b # q  BY <1>3, <3>1, <3>2, ClockAssumption DEF On
    <3>4. next[b] = b /\ previous'[b] = previous[b]  BY <1>5, <1>6, <2>1, <2>3, <3>1, <3>3
    <3>5. QED  BY <3>4 DEF Links, Apart
  <2>4. QED  BY <2>2, <2>3
<1>16. Links'
  BY <1>7, <1>13, <1>14, <1>15 DEF Links, Ring
<1>17. p \in On' /\ q \in On'  BY <1>3, <1>11
<1>18. QED  BY <1>8, <1>10, <1>11, <1>12, <1>16, <1>17 DEF p, q

-----------------------------------------------------------------------------
(* The walk of alt_tick *)

\* At tick n, callback time t is ahead, and flag r says whether in the next round.
TimedAt(t, r, n) == t # n /\ (r <=> t < n)

\* The tick before n.
TickBefore(n) == IF n = 0 THEN Wrap - 1 ELSE n - 1

\* V is what alt_tick has passed since the tick began, with the head: a stretch
\* of the ring that ends where the next alarm to visit begins.
Passed(V) ==
  /\ V \in SUBSET On /\ List \in V
  /\ at \in On /\ (at # List => at \notin V)
  /\ \A n \in V : next[n] \in V \cup {at}
  /\ \A n \in V \ {List} : previous[n] \in V
  /\ previous[at] \in V

\* The alarms passed are ahead of this tick, the others of the one before.
Walked(V) ==
  /\ Passed(V)
  /\ \A a \in V \ {List} : TimedAt(time[a], rollover[a], nticks)
  /\ \A a \in On \ V : TimedAt(time[a], rollover[a], TickBefore(nticks))

ClockInv == TypeOK /\ Links /\ \E V \in SUBSET On : Walked(V)

\* The test of alt_tick.c:115 finds an alarm at its tick, and clears the flag
\* exactly when the round it waits for has begun.
LEMMA Visited ==
  ASSUME NEW n \in Word, NEW t \in Word, NEW r \in BOOLEAN, TimedAt(t, r, TickBefore(n))
  PROVE  /\ (t <= n /\ ~(r /\ n # 0)) <=> t = n
         /\ t # n => TimedAt(t, r /\ n # 0, n)
<1>1. Wrap \in Nat  BY ClockAssumption
<1>2. CASE n = 0
  BY <1>1, <1>2 DEF TimedAt, TickBefore, Word
<1>3. CASE n # 0
  BY <1>1, <1>3 DEF TimedAt, TickBefore, Word
<1>4. QED  BY <1>2, <1>3

LEMMA NextTick ==
  ASSUME NEW n \in Word
  PROVE  /\ (n + 1) % Wrap \in Word /\ TickBefore((n + 1) % Wrap) = n
         /\ (n + 1) % Wrap = IF n + 1 < Wrap THEN n + 1 ELSE 0
<1>1. 1 \in 0..MaxTicks  BY ClockAssumption
<1>2. (n + 1) % Wrap = IF n + 1 < Wrap THEN n + 1 ELSE n + 1 - Wrap
  BY <1>1, Ahead
<1>3. QED  BY <1>2, ClockAssumption DEF Word, TickBefore

\* When the walk is over, all alarms have been passed.
LEMMA AllPassed ==
  ASSUME Links, NEW V, Passed(V), at = List
  PROVE  V = On
BY DEF Links, Ring, Passed

\* The walk goes on from an alarm that stays on the list.
LEMMA PassesOne ==
  ASSUME Links, NEW V, Passed(V), NEW a \in Alarm, at = a, UNCHANGED list, at' = next[a]
  PROVE  Passed(V \cup {a})'
<1>1. /\ a # List /\ a \in On /\ a \notin V /\ V \in SUBSET On /\ List \in V
      /\ previous[a] \in V
      /\ \A n \in V : next[n] \in V \cup {a}
      /\ \A n \in V \ {List} : previous[n] \in V
  BY ClockAssumption DEF Passed
<1>2. /\ next[a] \in On /\ previous[next[a]] = a /\ next[a] # a
  BY <1>1 DEF Links, Ring, On, Listed
<1>3. next[a] # List => next[a] \notin V
  BY <1>1, <1>2
<1>4. On' = On /\ next' = next /\ previous' = previous
  BY DEF list, On, Listed
<1>5. QED
  BY <1>1, <1>2, <1>3, <1>4 DEF Passed

\* The walk goes on from an alarm that was removed.
LEMMA PassesRemoved ==
  ASSUME Links, NEW V, Passed(V), NEW a \in Alarm, at = a, Listed(a), Remove(a), at' = next[a]
  PROVE  Passed(V)'
<1>1. /\ a # List /\ a \in On /\ a \notin V /\ V \in SUBSET On /\ List \in V
      /\ previous[a] \in V
      /\ \A n \in V : next[n] \in V \cup {a}
      /\ \A n \in V \ {List} : previous[n] \in V
  BY ClockAssumption DEF Passed
<1>2. /\ next[a] \in On /\ previous[next[a]] = a /\ next[a] # a /\ next[previous[a]] = a
      /\ \A n \in On : previous[next[n]] = n
  BY <1>1 DEF Links, Ring, On, Listed
<1>3. next[a] # List => next[a] \notin V
  BY <1>1, <1>2
<1>4. /\ On' = On \ {a} /\ previous[a] \in On' /\ next[a] \in On'
      /\ \A n \in On' : next'[n] = IF n = previous[a] THEN next[a] ELSE next[n]
      /\ \A n \in On' : previous'[n] = IF n = next[a] THEN previous[a] ELSE previous[n]
  BY Removed
<1>5. V \in SUBSET (On')  BY <1>1, <1>4
<1>6. \A n \in V : next'[n] \in V \cup {next[a]}
  BY <1>1, <1>2, <1>4, <1>5
<1>7. \A n \in V \ {List} : previous'[n] \in V
  BY <1>1, <1>3, <1>4, <1>5
<1>8. previous'[next[a]] \in V
  BY <1>1, <1>4
<1>9. QED
  BY <1>1, <1>3, <1>4, <1>5, <1>6, <1>7, <1>8 DEF Passed

-----------------------------------------------------------------------------
(* The invariant *)

LEMMA NowInRange == TypeOK => Now \in 0..Last /\ Last \in Nat
<1> SUFFICES ASSUME TypeOK PROVE Now \in 0..Last /\ Last \in Nat
  OBVIOUS
<1>1. TickRate \in Nat \ {0} /\ Wrap \in Nat \ {0} /\ nticks * Milli \in Nat
  BY ClockAssumption DEF TypeOK, Word
<1> DEFINE x == (nticks * Milli) % Wrap
<1>2. x \in 0..(Wrap - 1)  BY <1>1
<1> HIDE DEF x
<1>3. x \div TickRate \in Nat /\ x \div TickRate <= (Wrap - 1) \div TickRate
  BY <1>1, <1>2
<1>4. (Wrap - 1) \div TickRate \in Nat  BY <1>1
<1>5. QED  BY <1>3, <1>4 DEF Now, Last, x

LEMMA ClockStart == Init => ClockInv
<1> SUFFICES ASSUME Init PROVE ClockInv
  OBVIOUS
<1>1. TypeOK
  BY ClockAssumption DEF Init, TypeOK, Nodes, Word, NoWait, Last, Long
<1>2. \A a \in Alarm : next[a] = Null /\ a \in Nodes /\ a # List /\ a # Null
  BY ClockAssumption DEF Init, Nodes
<1>3. next[List] = List /\ previous = next /\ List \in Nodes
  BY DEF Init, Nodes
<1>4. On = {List}  BY <1>2 DEF On, Listed
<1>5. Links
  BY <1>1, <1>2, <1>3, <1>4 DEF TypeOK, Links, Ring, Apart
<1>6. Walked({List})
  BY <1>3, <1>4 DEF Init, Walked, Passed
<1>7. QED  BY <1>1, <1>4, <1>5, <1>6 DEF ClockInv

LEMMA ClockStep == ClockInv /\ [Next]_vars => ClockInv'
<1> SUFFICES ASSUME ClockInv, [Next]_vars PROVE ClockInv'
  OBVIOUS
<1>1. PICK V \in SUBSET On : Walked(V)  BY DEF ClockInv
<1>2. TypeOK /\ Links /\ Passed(V)  BY <1>1 DEF ClockInv, Walked
<1>3. UNCHANGED <<nticks, list, fields, at>> => Links' /\ Walked(V)' /\ V \in SUBSET (On')
  BY <1>1, <1>2 DEF list, fields, Links, Ring, Apart, On, Listed, Walked, Passed, TimedAt, TickBefore
<1>4. CASE SysclkInit
  <2>1. TypeOK'  BY <1>2, <1>4 DEF SysclkInit, TypeOK, list, fields, pause
  <2>2. QED  BY <1>3, <1>4, <2>1 DEF SysclkInit, ClockInv
<1>5. CASE Tick
  <2>1. /\ at = List /\ at' = next[List] /\ nticks' = (nticks + 1) % Wrap /\ nticks \in Word
        /\ UNCHANGED <<list, fields, rate, wait>>
        /\ since' = IF since < Long THEN since + 1 ELSE Long
    BY <1>2, <1>5 DEF Tick, TypeOK
  <2>2. nticks' \in Word /\ TickBefore(nticks') = nticks
    BY <2>1, NextTick
  <2>3. V = On  BY <1>2, <2>1, AllPassed
  <2>4. next[List] \in On /\ previous[next[List]] = List /\ List \in On
    BY <1>2 DEF Links, Ring, On
  <2>5. On' = On /\ Links'
    BY <1>2, <2>1 DEF list, Links, Ring, Apart, On, Listed
  <2>6. Passed({List})'
    BY <2>1, <2>4, <2>5, ClockAssumption DEF Passed, list
  <2>7. \A a \in On \ {List} : TimedAt(time[a], rollover[a], nticks)
    BY <1>1, <2>3 DEF Walked
  <2>8. \A a \in On \ {List} : TimedAt(time[a], rollover[a], TickBefore(nticks'))
    BY <2>2, <2>7
  <2>9. Walked({List})'
    BY <2>1, <2>5, <2>6, <2>8 DEF Walked, fields, TickBefore
  <2>10. since' \in 0..Long
    BY <1>2, <2>1, ClockAssumption DEF TypeOK, Long
  <2>11. TypeOK'
    BY <1>2, <2>1, <2>2, <2>4, <2>10 DEF TypeOK, list, fields, Nodes, On
  <2>12. QED  BY <2>4, <2>5, <2>9, <2>11 DEF ClockInv
<1>6. CASE Proceed
  <2>1. TypeOK'
    BY <1>2, <1>6, ClockAssumption DEF Proceed, TypeOK, list, fields, NoWait, Last, Long
  <2>2. QED  BY <1>3, <1>6, <2>1 DEF Proceed, ClockInv
<1>7. ASSUME NEW a \in Alarm, Stop(a) PROVE ClockInv'
  <2>1. /\ at = List /\ next[a] # Null /\ Remove(a)
        /\ UNCHANGED <<rate, nticks, fields, at, pause>>
    BY <1>7 DEF Stop
  <2>2. CASE ~Listed(a)
    <3>1. UNCHANGED list  BY <1>2, <2>1, <2>2, RemovedTwice
    <3>2. TypeOK'  BY <1>2, <2>1, <3>1 DEF TypeOK, list, fields, pause
    <3>3. QED  BY <1>3, <2>1, <3>1, <3>2 DEF ClockInv
  <2>3. CASE Listed(a)
    <3>1. Links' /\ On' = On \ {a}
      BY <1>2, <2>1, <2>3, Removed
    <3>2. V = On  BY <1>2, <2>1, AllPassed
    <3>3. \A b \in On \ {List} : TimedAt(time[b], rollover[b], nticks)
      BY <1>1, <3>2 DEF Walked
    <3>4. Passed(On)'
      <4>1. List \in On' /\ at' = List  BY <2>1 DEF On
      <4>2. QED  BY <3>1, <4>1 DEF Links, Ring, Passed
    <3>5. Walked(On)'
      BY <2>1, <3>1, <3>3, <3>4 DEF Walked, fields
    <3>6. TypeOK'
      BY <1>2, <2>1, <3>1 DEF TypeOK, fields, pause, Links
    <3>7. QED  BY <3>1, <3>5, <3>6 DEF ClockInv
  <2>4. QED  BY <2>2, <2>3
<1>8. ASSUME NEW a \in Alarm, NotDue(a) PROVE ClockInv'
  <2>1. /\ at = a /\ at' = next[a] /\ ~(time[a] <= nticks /\ ~StillNextRound(a))
        /\ rollover' = [rollover EXCEPT ![a] = StillNextRound(a)]
        /\ UNCHANGED <<rate, nticks, list, time, pause>>
    BY <1>8 DEF NotDue, Due
  <2>2. a \in On \ V /\ a # List  BY <1>2, <2>1, ClockAssumption DEF Passed
  <2>3. nticks \in Word /\ time[a] \in Word /\ rollover[a] \in BOOLEAN
        /\ TimedAt(time[a], rollover[a], TickBefore(nticks))
    BY <1>1, <1>2, <2>2 DEF TypeOK, Walked
  <2>4. TimedAt(time[a], StillNextRound(a), nticks)
    BY <2>1, <2>3, Visited DEF StillNextRound
  <2>5. rollover' \in [Alarm -> BOOLEAN] /\ (rollover'[a] <=> StillNextRound(a))
        /\ \A b \in Alarm \ {a} : rollover'[b] = rollover[b]
    BY <1>2, <2>1 DEF TypeOK, StillNextRound
  <2>6. Passed(V \cup {a})' /\ Links' /\ On' = On
    BY <1>2, <2>1, PassesOne DEF list, Links, Ring, Apart, On, Listed
  <2>7. Walked(V \cup {a})'
    BY <1>1, <1>2, <2>1, <2>2, <2>4, <2>5, <2>6 DEF Walked, On, TimedAt, TickBefore
  <2>8. TypeOK'
    BY <1>2, <2>1, <2>2, <2>5 DEF TypeOK, list, pause, Links, Ring, On, Nodes
  <2>9. V \cup {a} \in SUBSET (On')  BY <2>2, <2>6
  <2>10. QED  BY <2>6, <2>7, <2>8, <2>9 DEF ClockInv
<1>9. ASSUME NEW a \in Alarm, CallLast(a) PROVE ClockInv'
  <2>1. /\ at = a /\ at' = next[a] /\ Remove(a)
        /\ rollover' = [rollover EXCEPT ![a] = FALSE]
        /\ UNCHANGED <<rate, nticks, time, pause>>
    BY <1>9 DEF CallLast
  <2>2. a \in On \ V /\ a # List /\ Listed(a)
    BY <1>2, <2>1, ClockAssumption DEF Passed, On
  <2>3. Links' /\ On' = On \ {a} /\ next[a] \in On'
    BY <1>2, <2>1, <2>2, Removed
  <2>4. Passed(V)'
    BY <1>2, <2>1, <2>2, PassesRemoved
  <2>5. rollover' \in [Alarm -> BOOLEAN] /\ \A b \in Alarm \ {a} : rollover'[b] = rollover[b]
    BY <1>2, <2>1 DEF TypeOK
  <2>6. Walked(V)'
    BY <1>1, <1>2, <2>1, <2>2, <2>3, <2>4, <2>5 DEF Walked, On, TimedAt, TickBefore
  <2>7. TypeOK'
    BY <1>2, <2>1, <2>3, <2>5 DEF TypeOK, pause, Links, On, Nodes
  <2>8. QED  BY <2>3, <2>4, <2>6, <2>7 DEF ClockInv, Passed
<1>10. ASSUME NEW a \in Alarm, NEW n \in 0..(MaxTicks - 1), Start(a, n) PROVE ClockInv'
  <2> DEFINE t == (n + nticks + 1) % Wrap
  <2>1. /\ at = List /\ ~Listed(a) /\ Insert(a)
        /\ time' = [time EXCEPT ![a] = t] /\ rollover' = [rollover EXCEPT ![a] = t < nticks]
        /\ UNCHANGED <<rate, nticks, at, pause>>
    BY <1>10 DEF Start, Wrapped
  <2>2. nticks \in Word /\ nticks \in Nat  BY <1>2, ClockAssumption DEF TypeOK, Word
  <2>3. t = (nticks + (n + 1)) % Wrap /\ n + 1 \in 0..MaxTicks /\ n + 1 > 0
    <3>1. n + nticks + 1 = nticks + (n + 1)  BY <2>2
    <3>2. QED  BY <3>1, ClockAssumption
  <2> HIDE DEF t
  <2>4. t \in Word /\ t # nticks
    BY <2>2, <2>3, Ahead, ClockAssumption DEF Word
  <2>5. /\ time' \in [Alarm -> Word] /\ rollover' \in [Alarm -> BOOLEAN]
        /\ TimedAt(time'[a], rollover'[a], nticks)
        /\ \A b \in Alarm \ {a} : time'[b] = time[b] /\ rollover'[b] = rollover[b]
    <3> DEFINE w == t < nticks
    <3>1. w \in BOOLEAN /\ TimedAt(t, w, nticks)  BY <2>4 DEF TimedAt
    <3>2. time' = [time EXCEPT ![a] = t] /\ rollover' = [rollover EXCEPT ![a] = w]
          /\ time \in [Alarm -> Word] /\ rollover \in [Alarm -> BOOLEAN]
      BY <1>2, <2>1 DEF TypeOK
    <3> HIDE DEF w
    <3>3. time' \in [Alarm -> Word] /\ time'[a] = t /\ \A b \in Alarm \ {a} : time'[b] = time[b]
      BY <2>4, <3>2
    <3>4. /\ rollover' \in [Alarm -> BOOLEAN] /\ rollover'[a] = w
          /\ \A b \in Alarm \ {a} : rollover'[b] = rollover[b]
      BY <3>1, <3>2
    <3>5. QED  BY <3>1, <3>3, <3>4
  <2>6. Links' /\ On' = On \cup {a}
    BY <1>2, <2>1, Inserted
  <2>7. V = On  BY <1>2, <2>1, AllPassed
  <2>8. \A b \in On \ {List} : TimedAt(time[b], rollover[b], nticks) /\ b \in Alarm
    BY <1>1, <2>7 DEF Walked, On
  <2>9. Passed(On)'
    <3>1. List \in On' /\ at' = List  BY <2>1 DEF On
    <3>2. QED  BY <2>6, <3>1 DEF Links, Ring, Passed
  <2>10. \A b \in (On') \ {List} : TimedAt(time'[b], rollover'[b], nticks')
    BY <2>1, <2>5, <2>6, <2>8
  <2>11. Walked(On)'
    BY <2>9, <2>10 DEF Walked
  <2>12. TypeOK'
    BY <1>2, <2>1, <2>5, <2>6 DEF TypeOK, pause, Links
  <2>13. QED  BY <2>6, <2>11, <2>12 DEF ClockInv
<1>11. ASSUME NEW a \in Alarm, NEW n \in 1..MaxTicks, CallAgain(a, n) PROVE ClockInv'
  <2> DEFINE t == (time[a] + n) % Wrap
  <2>1. /\ at = a /\ at' = next[a] /\ time[a] <= nticks /\ ~StillNextRound(a)
        /\ time' = [time EXCEPT ![a] = t] /\ rollover' = [rollover EXCEPT ![a] = t < nticks]
        /\ UNCHANGED <<rate, nticks, list, pause>>
    BY <1>11 DEF CallAgain, Due, Wrapped
  <2>2. a \in On \ V /\ a # List  BY <1>2, <2>1, ClockAssumption DEF Passed
  <2>3. nticks \in Word /\ time[a] \in Word /\ rollover[a] \in BOOLEAN
        /\ TimedAt(time[a], rollover[a], TickBefore(nticks))
    BY <1>1, <1>2, <2>2 DEF TypeOK, Walked
  <2>4. time[a] = nticks
    BY <2>1, <2>3, Visited DEF StillNextRound
  <2>5. t \in Word /\ t # nticks
    BY <2>3, <2>4, Ahead, ClockAssumption DEF Word
  <2> HIDE DEF t
  <2>6. /\ time' \in [Alarm -> Word] /\ rollover' \in [Alarm -> BOOLEAN]
        /\ TimedAt(time'[a], rollover'[a], nticks)
        /\ \A b \in Alarm \ {a} : time'[b] = time[b] /\ rollover'[b] = rollover[b]
    <3> DEFINE w == t < nticks
    <3>1. w \in BOOLEAN /\ TimedAt(t, w, nticks)  BY <2>5 DEF TimedAt
    <3>2. time' = [time EXCEPT ![a] = t] /\ rollover' = [rollover EXCEPT ![a] = w]
          /\ time \in [Alarm -> Word] /\ rollover \in [Alarm -> BOOLEAN]
      BY <1>2, <2>1 DEF TypeOK
    <3> HIDE DEF w
    <3>3. time' \in [Alarm -> Word] /\ time'[a] = t /\ \A b \in Alarm \ {a} : time'[b] = time[b]
      BY <2>5, <3>2
    <3>4. /\ rollover' \in [Alarm -> BOOLEAN] /\ rollover'[a] = w
          /\ \A b \in Alarm \ {a} : rollover'[b] = rollover[b]
      BY <3>1, <3>2
    <3>5. QED  BY <3>1, <3>3, <3>4
  <2>7. Passed(V \cup {a})' /\ Links' /\ On' = On
    BY <1>2, <2>1, PassesOne DEF list, Links, Ring, Apart, On, Listed
  <2>8. Walked(V \cup {a})'
    BY <1>1, <1>2, <2>1, <2>2, <2>6, <2>7 DEF Walked, On, TimedAt, TickBefore
  <2>9. TypeOK'
    BY <1>2, <2>1, <2>2, <2>6 DEF TypeOK, list, pause, Links, Ring, On, Nodes
  <2>10. V \cup {a} \in SUBSET (On')  BY <2>2, <2>7
  <2>11. QED  BY <2>7, <2>8, <2>9, <2>10 DEF ClockInv
<1>12. ASSUME NEW what \in {"settle", "transfer"}, NEW ms \in {Settle, XferTimeout},
              Await(what, ms)
       PROVE  ClockInv'
  <2>1. Now + ms \in 0..(Last + Settle + XferTimeout)
    BY <1>2, NowInRange, ClockAssumption
  <2>2. TypeOK'
    BY <1>2, <1>12, <2>1, ClockAssumption DEF Await, TypeOK, list, fields, Long
  <2>3. QED  BY <1>3, <1>12, <2>2 DEF Await, ClockInv
<1>13. CASE UNCHANGED vars
  <2>1. TypeOK'  BY <1>2, <1>13 DEF vars, list, fields, pause, TypeOK
  <2>2. QED  BY <1>3, <1>13, <2>1 DEF vars, ClockInv
<1>14. QED
  BY <1>4, <1>5, <1>6, <1>7, <1>8, <1>9, <1>10, <1>11, <1>12, <1>13 DEF Next

LEMMA ClockInvariant == Spec => []ClockInv
BY ClockStart, ClockStep, PTL DEF Spec

-----------------------------------------------------------------------------
(* What the invariant gives *)

\* Every variable stays within its type.
THEOREM SpecTypeOK == Spec => []TypeOK
<1>1. ClockInv => TypeOK  BY DEF ClockInv
<1>2. QED  BY <1>1, ClockInvariant, PTL

\* The list is one ring, and alt_tick is on it, whichever alarms start and stop
\* and whichever remove themselves while it walks.
THEOREM SpecListIsRing == Spec => []ListIsRing
<1>1. ASSUME ClockInv PROVE ListIsRing
  <2>1. Ring /\ at \in On  BY <1>1 DEF ClockInv, Links, Walked, Passed
  <2>2. QED  BY <2>1 DEF ListIsRing, Ring, On
<1>2. QED  BY <1>1, ClockInvariant, PTL

-----------------------------------------------------------------------------
(* The alarms implement Countdown *)

Left == [a \in Alarm |-> IF Listed(a) THEN (time[a] - nticks) % Wrap ELSE -1]

\* At rest, the listed alarms are ahead.
LEMMA AtRest ==
  ASSUME ClockInv, at = List
  PROVE  \A a \in Alarm : Listed(a) => TimedAt(time[a], rollover[a], nticks)
<1>1. PICK V \in SUBSET On : Walked(V)  BY DEF ClockInv
<1>2. V = On  BY <1>1, AllPassed DEF ClockInv, Walked
<1>3. QED  BY <1>1, <1>2, ClockAssumption DEF Walked, On

\* An alarm that is called back is at its tick.
LEMMA DueNow ==
  ASSUME ClockInv, NEW a \in Alarm, at = a
  PROVE  Listed(a) /\ (Due(a) <=> time[a] = nticks)
<1>1. PICK V \in SUBSET On : Walked(V)  BY DEF ClockInv
<1>2. a \in On \ V /\ a # List  BY <1>1, ClockAssumption DEF Walked, Passed
<1>3. /\ nticks \in Word /\ time[a] \in Word /\ rollover[a] \in BOOLEAN
      /\ TimedAt(time[a], rollover[a], TickBefore(nticks))
  BY <1>1, <1>2 DEF ClockInv, TypeOK, Walked
<1>4. QED  BY <1>2, <1>3, Visited DEF On, Due, StillNextRound

LEMMA LeftChanges ==
  ASSUME NEW a \in Alarm, NEW n, Left'[a] = n, \A b \in Alarm \ {a} : Left'[b] = Left[b]
  PROVE  Left' = [Left EXCEPT ![a] = n]
<1>1. Left' = [b \in Alarm |-> Left'[b]] /\ Left = [b \in Alarm |-> Left[b]]
  BY DEF Left
<1> DEFINE l == Left  m == Left'
<1> HIDE DEF l, m
<1>2. m = [b \in Alarm |-> m[b]] /\ l = [b \in Alarm |-> l[b]]
      /\ m[a] = n /\ \A b \in Alarm \ {a} : m[b] = l[b]
  BY <1>1, Zenon DEF l, m
<1>3. m = [l EXCEPT ![a] = n]  BY <1>2
<1>4. QED  BY <1>3, Zenon DEF l, m

LEMMA PromiseStart == Init => Promise!Init
<1> SUFFICES ASSUME Init PROVE Promise!Init
  OBVIOUS
<1>1. \A a \in Alarm : ~Listed(a)
  BY ClockAssumption DEF Init, Nodes, Listed
<1>2. QED  BY <1>1 DEF Promise!Init, Promise!Off

LEMMA PromiseStep == ClockInv /\ [Next]_vars => [Promise!Next]_Left
<1> SUFFICES ASSUME ClockInv, [Next]_vars PROVE Promise!Next \/ UNCHANGED Left
  OBVIOUS
<1>1. TypeOK /\ Links /\ nticks \in Word /\ \A a \in Alarm : time[a] \in Word
  BY DEF ClockInv, TypeOK
<1>2. UNCHANGED <<nticks, list, time>> => UNCHANGED Left
  BY DEF Left, list, Listed
<1>3. CASE SysclkInit  BY <1>2, <1>3 DEF SysclkInit, fields
<1>4. CASE Tick
  <2>1. /\ at = List /\ nticks' = (nticks + 1) % Wrap /\ UNCHANGED <<list, fields>>
    BY <1>4 DEF Tick
  <2>2. /\ nticks' \in Word
        /\ nticks' = IF nticks + 1 < Wrap THEN nticks + 1 ELSE 0
    BY <1>1, <2>1, NextTick
  <2>3. ASSUME NEW a \in Alarm, Listed(a)
        PROVE  /\ (time[a] - nticks) % Wrap \in Nat \ {0}
               /\ (time[a] - nticks') % Wrap = ((time[a] - nticks) % Wrap) - 1
    <3> DEFINE t == time[a]  x == (t - nticks) % Wrap  y == (t - nticks') % Wrap
    <3>1. t # nticks /\ t \in Word
      BY <1>1, <2>1, <2>3, AtRest DEF TimedAt
    <3>2. x = IF t < nticks THEN t - nticks + Wrap ELSE t - nticks
      BY <1>1, <3>1, TicksTo
    <3>3. y = IF t < nticks' THEN t - nticks' + Wrap ELSE t - nticks'
      BY <2>2, <3>1, TicksTo
    <3> HIDE DEF t, x, y
    <3>4. x \in Nat \ {0} /\ y = x - 1
      BY <1>1, <2>2, <3>1, <3>2, <3>3, ClockAssumption DEF Word
    <3>5. QED  BY <3>4 DEF t, x, y
  <2>4. \A a \in Alarm : Left[a] = IF Listed(a) THEN (time[a] - nticks) % Wrap ELSE -1
    BY DEF Left
  <2>5. \A a \in Alarm : Left[a] # 0
    BY <2>3, <2>4
  <2>6. \A a \in Alarm : Left[a] = -1 <=> ~Listed(a)
    BY <2>3, <2>4
  <2>7. Left' = [a \in Alarm |-> IF Listed(a) THEN (time[a] - nticks') % Wrap ELSE -1]
    BY <2>1 DEF Left, list, fields, Listed
  <2>8. Left' = [a \in Alarm |-> IF Left[a] = -1 THEN -1 ELSE Left[a] - 1]
    BY <2>3, <2>4, <2>6, <2>7
  <2>9. Promise!Tick
    BY <2>5, <2>8, Zenon DEF Promise!Tick, Promise!Off, Left
  <2>10. QED  BY <2>9 DEF Promise!Next
<1>5. CASE Proceed  BY <1>2, <1>5 DEF Proceed, fields
<1>6. ASSUME NEW a \in Alarm, Stop(a) PROVE Promise!Next \/ UNCHANGED Left
  <2>1. next[a] # Null /\ Remove(a) /\ UNCHANGED <<nticks, fields>>  BY <1>6 DEF Stop
  <2>2. CASE ~Listed(a)
    BY <1>1, <1>2, <2>1, <2>2, RemovedTwice DEF fields
  <2>3. CASE Listed(a)
    <3>1. ~Listed(a)' /\ \A b \in Alarm \ {a} : Listed(b)' <=> Listed(b)
      BY <1>1, <2>1, <2>3, Removed
    <3>2. Left' = [Left EXCEPT ![a] = -1]
      BY <2>1, <3>1 DEF Left, fields
    <3>3. Promise!Stop(a)  BY <3>2 DEF Promise!Stop, Promise!Off, Left
    <3>4. QED  BY <3>3 DEF Promise!Next
  <2>4. QED  BY <2>2, <2>3
<1>7. ASSUME NEW a \in Alarm, NotDue(a) PROVE UNCHANGED Left
  BY <1>2, <1>7 DEF NotDue
<1>8. ASSUME NEW a \in Alarm, CallLast(a) PROVE Promise!Next
  <2>1. at = a /\ Due(a) /\ Remove(a) /\ UNCHANGED <<nticks, time>>
    BY <1>8 DEF CallLast
  <2>2. Listed(a) /\ time[a] = nticks  BY <2>1, DueNow
  <2>3. ~Listed(a)' /\ \A b \in Alarm \ {a} : Listed(b)' <=> Listed(b)
    BY <1>1, <2>1, <2>2, Removed
  <2>4. Left' = [Left EXCEPT ![a] = -1]
    BY <2>1, <2>3 DEF Left
  <2>5. Left[a] = 0
    <3>1. (time[a] - nticks) % Wrap = nticks - nticks
      BY <1>1, <2>2, TicksTo, ClockAssumption DEF Word
    <3>2. nticks - nticks = 0  BY <1>1, ClockAssumption DEF Word
    <3>3. QED  BY <2>2, <3>1, <3>2, Zenon DEF Left
  <2>6. Promise!GoesOff(a)
    BY <2>4, <2>5 DEF Promise!GoesOff, Promise!Off, Left
  <2>7. QED  BY <2>6 DEF Promise!Next
<1>9. ASSUME NEW a \in Alarm, NEW n \in 0..(MaxTicks - 1), Start(a, n) PROVE Promise!Next
  <2>1. /\ ~Listed(a) /\ Insert(a) /\ UNCHANGED nticks
        /\ time' = [time EXCEPT ![a] = (n + nticks + 1) % Wrap]
    BY <1>9 DEF Start
  <2>2. Listed(a)' /\ \A b \in Alarm \ {a} : Listed(b)' <=> Listed(b)
    BY <1>1, <2>1, Inserted DEF Listed
  <2>3. n + nticks + 1 = nticks + (n + 1) /\ n + 1 \in 1..MaxTicks /\ n + 1 \in 0..MaxTicks
    BY <1>1, ClockAssumption DEF Word
  <2>4. (((n + nticks + 1) % Wrap) - nticks) % Wrap = n + 1
    BY <1>1, <2>3, Ahead
  <2>5. time'[a] = (n + nticks + 1) % Wrap /\ \A b \in Alarm \ {a} : time'[b] = time[b]
    BY <1>1, <2>1 DEF TypeOK
  <2>6. Left' = [Left EXCEPT ![a] = n + 1]
    <3>1. Left'[a] = n + 1
      BY <2>1, <2>2, <2>4, <2>5, Zenon DEF Left
    <3>2. \A b \in Alarm \ {a} : Left'[b] = Left[b]
      BY <2>1, <2>2, <2>5 DEF Left
    <3>3. QED  BY <3>1, <3>2, LeftChanges
  <2>7. Left[a] = -1  BY <2>1 DEF Left
  <2>8. Promise!Start(a)
    BY <2>3, <2>6, <2>7 DEF Promise!Start, Promise!Off, Left
  <2>9. QED  BY <2>8 DEF Promise!Next
<1>10. ASSUME NEW a \in Alarm, NEW n \in 1..MaxTicks, CallAgain(a, n) PROVE Promise!Next
  <2>1. /\ at = a /\ Due(a) /\ UNCHANGED <<nticks, list>>
        /\ time' = [time EXCEPT ![a] = (time[a] + n) % Wrap]
    BY <1>10 DEF CallAgain
  <2>2. Listed(a) /\ time[a] = nticks  BY <2>1, DueNow
  <2>3. \A b \in Alarm : Listed(b)' <=> Listed(b)
    BY <2>1 DEF list, Listed
  <2>4. (((time[a] + n) % Wrap) - nticks) % Wrap = n
    BY <1>1, <2>2, Ahead, ClockAssumption
  <2>5. time'[a] = (time[a] + n) % Wrap /\ \A b \in Alarm \ {a} : time'[b] = time[b]
    BY <1>1, <2>1 DEF TypeOK
  <2>6. Left' = [Left EXCEPT ![a] = n]
    <3>1. Left'[a] = n
      BY <2>1, <2>2, <2>3, <2>4, <2>5, Zenon DEF Left
    <3>2. \A b \in Alarm \ {a} : Left'[b] = Left[b]
      BY <2>1, <2>3, <2>5 DEF Left
    <3>3. QED  BY <3>1, <3>2, LeftChanges
  <2>7. Left[a] = 0
    <3>1. (time[a] - nticks) % Wrap = nticks - nticks
      BY <1>1, <2>2, TicksTo, ClockAssumption DEF Word
    <3>2. nticks - nticks = 0  BY <1>1, ClockAssumption DEF Word
    <3>3. QED  BY <2>2, <3>1, <3>2, Zenon DEF Left
  <2>8. Promise!GoesOff(a)
    BY <2>6, <2>7 DEF Promise!GoesOff, Promise!Off, Left
  <2>9. QED  BY <2>8 DEF Promise!Next
<1>11. CASE Await("settle", Settle) \/ Await("transfer", XferTimeout)
  BY <1>2, <1>11 DEF Await, fields
<1>12. CASE UNCHANGED vars  BY <1>2, <1>12 DEF vars, fields
<1>13. QED
  BY <1>3, <1>4, <1>5, <1>6, <1>7, <1>8, <1>9, <1>10, <1>11, <1>12 DEF Next

\* alt_tick calls each alarm back at the tick it was started for.
THEOREM SpecImplementsCountdown == Spec => ImplementsCountdown
<1>1. ClockInv /\ [Next]_vars => [Promise!Next]_[a \in Alarm |-> IF Listed(a) THEN (time[a] - nticks) % Wrap ELSE -1]
  BY PromiseStep DEF Left
<1>2. QED
  BY <1>1, PromiseStart, ClockInvariant, PTL DEF Spec, ImplementsCountdown, Promise!Spec

-----------------------------------------------------------------------------
(* The waits of the USB host *)

\* The milliseconds waited for.
Asked == IF wait.for = "settle" THEN Settle ELSE XferTimeout

\* The product that Now divides.
Product == (nticks * Milli) % Wrap

\* The clock has not gone further since the wait began than there were ticks.
WaitInv ==
  wait.for # "nothing" =>
    since = Long \/ Product < TickRate * (wait.until - Asked + 1) + since * Milli

LEMMA Products ==
  TypeOK => /\ Product \in Nat /\ Now \in Nat
            /\ TickRate * Now <= Product /\ Product < TickRate * (Now + 1)
<1> SUFFICES ASSUME TypeOK
             PROVE  /\ Product \in Nat /\ Now \in Nat
                    /\ TickRate * Now <= Product /\ Product < TickRate * (Now + 1)
  OBVIOUS
<1>1. TickRate \in Nat \ {0} /\ Wrap \in Nat \ {0} /\ nticks * Milli \in Nat
  BY ClockAssumption DEF TypeOK, Word
<1>2. Product \in Nat /\ Now = Product \div TickRate  BY <1>1 DEF Product, Now
<1>3. QED  BY <1>1, <1>2

LEMMA ProductGrows ==
  ASSUME NEW n \in Word
  PROVE  (((n + 1) % Wrap) * Milli) % Wrap <= ((n * Milli) % Wrap) + Milli
<1>1. Wrap \in Nat \ {0} /\ Milli \in Nat \ {0} /\ n \in Nat
  BY ClockAssumption DEF Word
<1>2. CASE n + 1 < Wrap
  <2> DEFINE x == n * Milli
  <2>1. (n + 1) % Wrap = n + 1 /\ (n + 1) * Milli = x + Milli /\ x \in Nat
    BY <1>1, <1>2
  <2> HIDE DEF x
  <2>2. PICK q \in Nat, r \in 0..(Wrap - 1) : x = Wrap * q + r /\ x % Wrap = r
    BY <1>1, <2>1
  <2>3. PICK u \in Nat, v \in 0..(Wrap - 1) : x + Milli = Wrap * u + v /\ (x + Milli) % Wrap = v
    <3> DEFINE y == x + Milli
    <3>1. y \in Nat  BY <1>1, <2>1
    <3> HIDE DEF y
    <3>2. y \div Wrap \in Nat /\ y % Wrap \in 0..(Wrap - 1) /\ y = Wrap * (y \div Wrap) + (y % Wrap)
      BY <1>1, <3>1
    <3>3. QED  BY <3>2, Zenon DEF y
  <2>4. u >= q
    <3>1. SUFFICES ASSUME u + 1 <= q PROVE FALSE  BY <2>2, <2>3
    <3>2. Wrap * (u + 1) <= Wrap * q  BY <1>1, <3>1
    <3>3. QED  BY <1>1, <2>2, <2>3, <3>2
  <2>5. Wrap * u >= Wrap * q  BY <1>1, <2>4
  <2>6. v <= r + Milli  BY <1>1, <2>2, <2>3, <2>5
  <2>7. QED  BY <2>1, <2>2, <2>3, <2>6 DEF x
<1>3. CASE ~(n + 1 < Wrap)
  <2>1. (n + 1) % Wrap = 0  BY <1>3, NextTick
  <2>2. (0 * Milli) % Wrap = 0  BY <1>1
  <2>3. (n * Milli) % Wrap \in Nat
    <3>1. n * Milli \in Nat  BY <1>1
    <3>2. QED  BY <1>1, <3>1
  <2>4. QED  BY <1>1, <2>1, <2>2, <2>3
<1>4. QED  BY <1>2, <1>3

LEMMA WaitStart == Init => WaitInv
BY DEF Init, WaitInv, NoWait

LEMMA WaitStep == ClockInv /\ WaitInv /\ [Next]_vars => WaitInv'
<1> SUFFICES ASSUME ClockInv, WaitInv, [Next]_vars PROVE WaitInv'
  OBVIOUS
<1>1. /\ TypeOK /\ nticks \in Word /\ since \in Nat /\ Milli \in Nat /\ TickRate \in Nat
      /\ Settle \in Nat /\ XferTimeout \in Nat /\ Asked \in Nat
  BY ClockAssumption DEF ClockInv, TypeOK, Long, Asked
<1>2. UNCHANGED <<nticks, pause>> => WaitInv'
  BY DEF pause, WaitInv, Product, Asked
<1>3. CASE Tick
  <2>1. nticks' = (nticks + 1) % Wrap /\ wait' = wait
        /\ since' = IF since < Long THEN since + 1 ELSE Long
    BY <1>3 DEF Tick
  <2> SUFFICES ASSUME wait.for # "nothing", since' # Long
               PROVE  Product' < TickRate * (wait.until - Asked + 1) + since' * Milli
    BY <2>1 DEF WaitInv, Asked
  <2>2. since < Long /\ since # Long /\ since' = since + 1
    BY <1>1, <2>1, ClockAssumption DEF Long
  <2>3. Product < TickRate * (wait.until - Asked + 1) + since * Milli
    BY <2>2 DEF WaitInv
  <2>4. Product' <= Product + Milli
    BY <1>1, <2>1, ProductGrows DEF Product
  <2>5. Product' \in Nat
    <3>1. nticks' \in Word  BY <1>1, <2>1, NextTick
    <3>2. \A m \in Word : m * Milli \in Nat  BY <1>1, ClockAssumption DEF Word
    <3>3. nticks' * Milli \in Nat  BY <3>1, <3>2, Zenon
    <3>4. QED  BY <3>3, ClockAssumption DEF Product
  <2>6. wait.until \in Nat /\ Product \in Nat
    BY <1>1, Products, NowInRange, ClockAssumption DEF TypeOK
  <2>7. TickRate * (wait.until - Asked + 1) \in Int  BY <1>1, <2>6
  <2>8. since' * Milli = since * Milli + Milli  BY <1>1, <2>2
  <2>9. since * Milli \in Int  BY <1>1
  <2>10. QED  BY <1>1, <2>3, <2>4, <2>5, <2>6, <2>7, <2>8, <2>9
<1>4. ASSUME NEW what \in {"settle", "transfer"}, NEW ms \in Nat,
             ms = (IF what = "settle" THEN Settle ELSE XferTimeout), Await(what, ms)
      PROVE  WaitInv'
  <2>1. wait' = [for |-> what, until |-> Now + ms] /\ since' = 0 /\ nticks' = nticks
    BY <1>4 DEF Await
  <2>2. Asked' = ms /\ wait'.until = Now + ms  BY <1>4, <2>1 DEF Asked
  <2>3. Product' = Product  BY <2>1 DEF Product
  <2>4. wait'.until - Asked' + 1 = Now + 1  BY <2>2, <1>1, <1>4, Products
  <2>5. since' * Milli = 0 /\ TickRate * (Now + 1) \in Int  BY <1>1, <2>1, Products
  <2>6. Product < TickRate * (Now + 1) + since' * Milli
    BY <1>1, <2>5, Products
  <2>7. Product' < TickRate * (wait'.until - Asked' + 1) + since' * Milli
    BY <2>3, <2>4, <2>6, Zenon
  <2>8. QED  BY <2>7 DEF WaitInv
<1>5. CASE Proceed
  BY <1>5 DEF Proceed, WaitInv, NoWait
<1>6. CASE Await("settle", Settle)
  BY <1>1, <1>4, <1>6
<1>7. CASE Await("transfer", XferTimeout)
  BY <1>1, <1>4, <1>7
<1>8. ~(Tick \/ Proceed \/ Await("settle", Settle) \/ Await("transfer", XferTimeout))
        => UNCHANGED <<nticks, pause>>
  BY DEF Next, vars, SysclkInit, Stop, NotDue, CallLast, Start, CallAgain
<1>9. QED
  BY <1>2, <1>3, <1>5, <1>6, <1>7, <1>8

\* The waits of transfer.c are never cut short, where the clock wraps as well.
\* since is counted up to Long only: that needs ticks of a millisecond or more,
\* and those of the program have one.
THEOREM SpecNeverEarly ==
  ASSUME TickRate <= Milli
  PROVE  Spec => NeverEarly
<1> DEFINE Longer == since * Milli > (IF wait.for = "settle" THEN Settle ELSE XferTimeout - 1) * TickRate
<1>1. ClockInv /\ WaitInv /\ [Next]_vars =>
        [wait.for # "nothing" /\ wait'.for = "nothing" => Longer]_vars
  <2> SUFFICES ASSUME ClockInv, WaitInv, Next, wait.for # "nothing", wait'.for = "nothing"
               PROVE  Longer
    OBVIOUS
  <2>1. Over /\ wait.for \in {"settle", "transfer"}
    BY DEF ClockInv, TypeOK, Next, Proceed, SysclkInit, Tick, Stop, NotDue, CallLast, Start,
           CallAgain, Await, pause, NoWait
  <2>2. /\ TypeOK /\ since \in Nat /\ Milli \in Nat /\ TickRate \in Nat \ {0}
        /\ Settle \in Nat /\ XferTimeout \in Nat /\ wait.until \in Nat
        /\ Product \in Nat /\ Now \in Nat /\ TickRate * Now <= Product
    BY ClockAssumption, Products, NowInRange DEF ClockInv, TypeOK, Long
  <2>3. CASE since = Long
    <3>1. since = Settle + XferTimeout + 1  BY <2>3 DEF Long
    <3> DEFINE ms == IF wait.for = "settle" THEN Settle ELSE XferTimeout - 1
    <3>2. ms \in Int /\ ms < since  BY <2>2, <3>1
    <3> HIDE DEF ms
    <3>3. ms * TickRate < since * TickRate  BY <2>2, <3>2
    <3>4. since * TickRate <= since * Milli  BY <2>2
    <3>5. since * TickRate \in Int /\ since * Milli \in Int /\ ms * TickRate \in Int
      BY <2>2, <3>2
    <3>6. QED  BY <3>3, <3>4, <3>5 DEF ms
  <2>4. CASE since # Long
    <3>1. Product < TickRate * (wait.until - Asked + 1) + since * Milli
      BY <2>4 DEF WaitInv
    <3>2. CASE wait.for = "settle"
      <4>1. Now >= wait.until + 1 /\ Asked = Settle  BY <2>1, <2>2, <3>2 DEF Over, Asked
      <4>2. TickRate * (wait.until + 1) <= TickRate * Now  BY <2>2, <4>1
      <4>3. TickRate * (wait.until - Settle + 1) = TickRate * (wait.until + 1) - Settle * TickRate
        BY <2>2
      <4> DEFINE a == TickRate * (wait.until + 1)  b == Settle * TickRate  c == since * Milli
                 d == TickRate * Now
      <4>4. a \in Int /\ b \in Int /\ c \in Int /\ d \in Int  BY <2>2
      <4>5. Product < a - b + c /\ a <= d /\ d <= Product  BY <2>2, <3>1, <4>1, <4>2, <4>3
      <4> HIDE DEF a, b, c, d
      <4>6. c > b  BY <2>2, <4>4, <4>5
      <4>7. QED  BY <3>2, <4>6 DEF b, c
    <3>3. CASE wait.for = "transfer"
      <4>1. Now >= wait.until /\ Asked = XferTimeout  BY <2>1, <2>2, <3>3 DEF Over, Asked
      <4>2. TickRate * wait.until <= TickRate * Now  BY <2>2, <4>1
      <4>3. TickRate * (wait.until - XferTimeout + 1)
              = TickRate * wait.until - (XferTimeout - 1) * TickRate
        BY <2>2
      <4> DEFINE a == TickRate * wait.until  b == (XferTimeout - 1) * TickRate  c == since * Milli
                 d == TickRate * Now
      <4>4. a \in Int /\ b \in Int /\ c \in Int /\ d \in Int  BY <2>2
      <4>5. Product < a - b + c /\ a <= d /\ d <= Product  BY <2>2, <3>1, <4>1, <4>2, <4>3
      <4> HIDE DEF a, b, c, d
      <4>6. c > b  BY <2>2, <4>4, <4>5
      <4>7. QED  BY <3>3, <4>6 DEF b, c
    <3>4. QED  BY <2>1, <3>2, <3>3
  <2>5. QED  BY <2>3, <2>4
<1>2. Spec => []WaitInv
  BY ClockInvariant, WaitStart, WaitStep, PTL DEF Spec
<1>3. QED
  BY <1>1, <1>2, ClockInvariant, PTL DEF Spec, NeverEarly

-----------------------------------------------------------------------------
(* The time of day *)

\* The microseconds of n ticks, and what is left of them beside whole seconds.
LEMMA SplitTicks ==
  ASSUME NEW n \in Nat
  PROVE  LET k == Micro \div TickRate IN
         /\ n * k \in Nat /\ n \div TickRate \in Nat /\ (n * k) % Micro \in 0..(Micro - 1)
         /\ n * k = (n \div TickRate) * Micro + ((n * k) % Micro)
<1> DEFINE k == Micro \div TickRate  R == TickRate  q == n \div R  r == n % R
<1>1. R \in Nat \ {0} /\ Micro \in Nat \ {0} /\ Micro % R = 0
  BY ClockAssumption, DayAssumption
<1>2. k \in Nat /\ Micro = R * k
  BY <1>1
<1>3. q \in Nat /\ r \in 0..(R - 1) /\ n = R * q + r
  BY <1>1
<1> HIDE DEF k, q, r, R
<1>4. k # 0  BY <1>1, <1>2
<1>5. n * k = Micro * q + r * k
  <2>1. n * k = (R * q) * k + r * k  BY <1>1, <1>2, <1>3
  <2>2. (R * q) * k = (R * k) * q  BY <1>1, <1>2, <1>3
  <2>3. QED  BY <1>2, <2>1, <2>2
<1>6. r * k \in 0..(Micro - 1)
  <2>1. r * k >= 0 /\ r * k \in Nat  BY <1>2, <1>3
  <2>2. (r + 1) * k <= R * k  BY <1>1, <1>2, <1>3
  <2>3. (r + 1) * k = r * k + k  BY <1>2, <1>3
  <2>4. QED  BY <1>1, <1>2, <1>4, <2>1, <2>2, <2>3
<1> DEFINE x == n * k  s == r * k
<1>7. x \in Nat /\ x = Micro * q + s /\ s \in 0..(Micro - 1)  BY <1>2, <1>5, <1>6
<1> HIDE DEF x, s
<1>8. x % Micro = s  BY <1>1, <1>3, <1>7
<1>9. x = q * Micro + (x % Micro)  BY <1>1, <1>3, <1>7, <1>8
<1>10. x \in Nat /\ q \in Nat /\ x % Micro \in 0..(Micro - 1) /\ x = q * Micro + (x % Micro)
  BY <1>3, <1>7, <1>8, <1>9
<1>11. QED  BY <1>10 DEF x, q, k, R

\* What settimeofday set is what gettimeofday returns, and the ticks since are
\* added to it.
THEOREM SpecSetThenGet == Spec => []SetThenGet
<1>1. ASSUME ClockInv PROVE SetThenGet
  <2> DEFINE k == Micro \div TickRate
  <2>1. SUFFICES ASSUME nticks * k < Wrap, NEW t \in Moments, NEW m \in nticks..(Wrap - 1)
                 PROVE  /\ TimeOfDay(m, Reset(nticks, t)).usec \in 0..(Micro - 1)
                        /\ AsMicro(TimeOfDay(m, Reset(nticks, t))) = AsMicro(t) + (m - nticks) * k
    BY DEF SetThenGet
  <2> DEFINE A == nticks \div TickRate  B == m \div TickRate  x == nticks * k  y == m * k
             a == x % Micro  b == y % Micro  u == t.usec  c == t.sec
             sec == c - A + B  usec == u - a + b
  <2>2. nticks \in Nat /\ m \in Nat /\ nticks <= m /\ Micro \in Nat \ {0} /\ Wrap \in Nat \ {0}
        /\ k \in Nat /\ m - nticks \in Nat
    BY <1>1, <2>1, ClockAssumption DEF ClockInv, TypeOK, Word
  <2>3. u \in 0..(Micro - 1) /\ c \in Nat  BY <2>1, DayAssumption
  <2>4. /\ x \in Nat /\ A \in Nat /\ a \in 0..(Micro - 1) /\ x = A * Micro + a
        /\ y \in Nat /\ B \in Nat /\ b \in 0..(Micro - 1) /\ y = B * Micro + b
    BY <2>2, SplitTicks
  <2>5. y = x + (m - nticks) * k /\ (m - nticks) * k \in Nat
    BY <2>2
  <2>6. x % Wrap = x
    <3>1. x < Wrap /\ x \in Nat /\ Wrap \in Nat  BY <2>1, <2>2, <2>4
    <3> HIDE DEF x
    <3>2. QED  BY <3>1
  <2>7. Reset(nticks, t) = [sec |-> c - A, usec |-> u - a]
    BY <2>6, Zenon DEF Reset
  <2>8. TimeOfDay(m, Reset(nticks, t)) = Normal(sec, usec)
    BY <2>7 DEF TimeOfDay
  <2> DEFINE d == (m - nticks) * k
  <2> HIDE DEF A, B, x, y, a, b, u, c, d, k
  <2>9. B >= A /\ (B = A => b >= a)
    <3>1. ASSUME B + 1 <= A PROVE FALSE
      <4>1. (B + 1) * Micro <= A * Micro  BY <2>2, <2>4, <3>1
      <4>2. (B + 1) * Micro = B * Micro + Micro  BY <2>2, <2>4
      <4>3. B * Micro \in Nat /\ A * Micro \in Nat  BY <2>2, <2>4
      <4>4. x <= y  BY <2>4, <2>5 DEF d
      <4>5. QED  BY <2>2, <2>4, <4>1, <4>2, <4>3, <4>4
    <3>2. B >= A  BY <2>4, <3>1
    <3>3. ASSUME B = A PROVE b >= a
      <4>1. x <= y  BY <2>4, <2>5
      <4>2. B * Micro \in Nat /\ A * Micro = B * Micro  BY <2>2, <2>4, <3>3
      <4>3. QED  BY <2>4, <4>1, <4>2
    <3>4. QED  BY <3>2, <3>3
  <2>10. sec \in Int /\ usec \in Int /\ usec < 2 * Micro /\ -Micro < usec /\ sec >= 0
         /\ (usec < 0 => sec > 0)
    BY <2>2, <2>3, <2>4, <2>9
  <2>11. sec * Micro + usec = c * Micro + u + d
    <3> DEFINE p == c * Micro  v == A * Micro  w == B * Micro
    <3>1. p \in Nat /\ v \in Nat /\ w \in Nat  BY <2>2, <2>3, <2>4
    <3>2. sec * Micro = p - v + w  BY <2>2, <2>3, <2>4
    <3>3. y = x + d /\ x = v + a /\ y = w + b /\ d \in Nat  BY <2>4, <2>5 DEF d
    <3> HIDE DEF p, v, w
    <3>4. p - v + w + usec = p + u + d
      BY <2>2, <2>3, <2>4, <3>1, <3>3
    <3>5. QED  BY <3>2, <3>4 DEF p
  <2> HIDE DEF sec, usec
  <2> DEFINE z == Normal(sec, usec)
  <2>12. z.usec \in 0..(Micro - 1) /\ AsMicro(z) = sec * Micro + usec
    <3>1. CASE usec < 0
      <4>1. z = [sec |-> sec - 1, usec |-> usec + Micro]  BY <2>2, <2>10, <3>1 DEF Normal
      <4>2. (sec - 1) * Micro = sec * Micro - Micro /\ sec * Micro \in Int  BY <2>2, <2>10
      <4>3. z.usec = usec + Micro /\ z.sec = sec - 1  BY <4>1
      <4>4. QED  BY <2>2, <2>10, <3>1, <4>2, <4>3 DEF AsMicro
    <3>2. CASE usec >= Micro
      <4>1. z = [sec |-> sec + 1, usec |-> usec - Micro]  BY <2>2, <2>10, <3>2 DEF Normal
      <4>2. (sec + 1) * Micro = sec * Micro + Micro /\ sec * Micro \in Int  BY <2>2, <2>10
      <4>3. z.usec = usec - Micro /\ z.sec = sec + 1  BY <4>1
      <4>4. QED  BY <2>2, <2>10, <3>2, <4>2, <4>3 DEF AsMicro
    <3>3. CASE 0 <= usec /\ usec < Micro
      <4>1. z = [sec |-> sec, usec |-> usec]  BY <2>2, <2>10, <3>3 DEF Normal
      <4>2. z.usec = usec /\ z.sec = sec  BY <4>1
      <4>3. QED  BY <2>2, <2>10, <3>3, <4>2 DEF AsMicro
    <3>4. QED  BY <2>2, <2>10, <3>1, <3>2, <3>3
  <2>13. AsMicro(t) = c * Micro + u  BY DEF AsMicro, c, u
  <2>14. QED
    BY <2>8, <2>11, <2>12, <2>13 DEF d, sec, usec
<1>2. QED  BY <1>1, ClockInvariant, PTL

\* The types, the list and the time of day.
THEOREM SpecClockSound == Spec => []ClockSound
<1>1. TypeOK /\ ListIsRing /\ SetThenGet => ClockSound  BY DEF ClockSound
<1>2. QED  BY <1>1, SpecTypeOK, SpecListIsRing, SpecSetThenGet, PTL

=============================================================================
