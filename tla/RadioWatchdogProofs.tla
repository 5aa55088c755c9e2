------------------------ MODULE RadioWatchdogProofs ------------------------
(* The types, the reboot rate limit and the order of the tiers of the      *)
(* radio watchdog, for every cooldown, window and ring, and wherever power *)
(* fails.                                                                  *)
EXTENDS RadioWatchdog, FiniteSetTheorems, SequenceTheorems, WellFoundedInduction,
        TLAPS

GapOk == rebooted = Never \/ now - rebooted >= Cooldown

(* Until the cooldown is over, both copies of the mark hold the time of    *)
(* the last reboot; a run changes them only after it.                      *)
RateInv ==
  /\ now \in Nat /\ rebooted \in Nat \union {Never}
  /\ mark \in Nat \union {Never, Empty} /\ disk \in Nat \union {Never, Empty}
  /\ rebooted # Never => rebooted <= now
  /\ GapOk \/ (mark = rebooted /\ disk = rebooted)
  /\ mark # disk => pc = "sync"
  /\ pc = "sync" => GapOk /\ mark = now

LEMMA RateInit == Init => RateInv
BY DEF Init, RateInv, GapOk

LEMMA RateWriteMark == ASSUME RateInv, WriteMark PROVE RateInv'
<1> USE WatchdogConstants DEF RateInv, WriteMark
<1>1. GapOk
  BY DEF GapOk, CanReboot
<1>2. QED BY <1>1 DEF GapOk

LEMMA RateReboot == ASSUME RateInv, Reboot PROVE RateInv'
BY WatchdogConstants DEF RateInv, Reboot, Boot, GapOk

LEMMA RatePowerCut == ASSUME RateInv, PowerCut PROVE RateInv'
<1> USE WatchdogConstants DEF RateInv, PowerCut, Boot
<1>1. PICK m \in {disk, mark, Empty} :
        (m = Empty => mark # disk) /\ mark' = m /\ disk' = m
  OBVIOUS
<1>2. CASE mark = disk
  BY <1>1, <1>2 DEF GapOk
<1>3. CASE mark # disk
  BY <1>1, <1>3 DEF GapOk
<1>4. QED BY <1>2, <1>3

LEMMA RateTick == ASSUME RateInv, Tick PROVE RateInv'
BY WatchdogConstants DEF RateInv, Tick, GapOk

LEMMA RateStep == RateInv /\ [Next]_vars => RateInv'
<1> SUFFICES ASSUME RateInv, [Next]_vars PROVE RateInv'
  OBVIOUS
<1>1. CASE \E kind \in {"sig", "other"} : KernelLogs(kind)
  BY <1>1 DEF KernelLogs, RateInv, GapOk
<1>2. CASE \E on \in BOOLEAN : Service(on)
  BY <1>2 DEF Service, RateInv, GapOk
<1>3. CASE Read \/ Record \/ WifiReload \/ ModuleReload
  BY <1>3 DEF Read, Record, WifiReload, ModuleReload, RateInv, GapOk
<1>4. CASE UNCHANGED vars
  BY <1>4 DEF vars, RateInv, GapOk
<1>5. QED BY <1>1, <1>2, <1>3, <1>4, RateTick, RateWriteMark, RateReboot,
     RatePowerCut DEF Next

(* Two watchdog reboots are never closer than the cooldown.                *)
THEOREM RebootRateLimited == Spec => RebootsApart
<1>1. RateInv /\ [Next]_vars => [RebootGap]_vars
  BY DEF RateInv, RebootGap, Reboot, GapOk
<1>2. QED BY <1>1, RateInit, RateStep, PTL DEF Spec, RebootsApart
-----------------------------------------------------------------------------
(* Every detection but the first of those on file was answered by a reload *)
(* of the module, unless it is the one being answered now.                 *)
Deciding == pc \in {"act", "sync"}

ClimbInv ==
  /\ now \in Nat
  /\ events \subseteq 0..now
  /\ reloaded \in Nat \union {Never}
  /\ \A d, e \in events : d < e => \/ reloaded # Never /\ reloaded >= e
                                   \/ Deciding /\ e = now
  /\ Deciding => \A e \in events : e = now \/ e > now - Window
  /\ pc = "sync" => \E a, b \in events : a < b /\ b < now

LEMMA ClimbInit == Init => ClimbInv
BY DEF Init, ClimbInv, Deciding

LEMMA OneElement ==
  ASSUME NEW S, IsFiniteSet(S), Cardinality(S) = 1, NEW x \in S, NEW y \in S
  PROVE  x = y
<1>1. Cardinality(S \ {x}) = 0 /\ IsFiniteSet(S \ {x})
  BY FS_RemoveElement, FS_CardinalityType
<1>2. S \ {x} = {}
  BY <1>1, FS_EmptySet
<1>3. QED BY <1>2

LEMMA TwoOthers ==
  ASSUME NEW S, IsFiniteSet(S), Cardinality(S) > 2, NEW x
  PROVE  \E a, b \in S : a # b /\ a # x /\ b # x
<1>1. Cardinality(S) \in Nat
  BY FS_CardinalityType
<1>2. IsFiniteSet(S \ {x}) /\ Cardinality(S \ {x}) >= 2 /\ Cardinality(S \ {x}) \in Nat
  <2>1. CASE x \in S
    <3>1. IsFiniteSet(S \ {x}) /\ Cardinality(S \ {x}) = Cardinality(S) - 1
      BY <2>1, FS_RemoveElement
    <3>2. QED BY <1>1, <3>1
  <2>2. CASE x \notin S
    <3>1. S \ {x} = S
      BY <2>2
    <3>2. QED BY <1>1, <3>1
  <2>3. QED BY <2>1, <2>2
<1>3. PICK a : a \in S \ {x}
  BY <1>2, FS_EmptySet
<1>4. Cardinality((S \ {x}) \ {a}) >= 1 /\ IsFiniteSet((S \ {x}) \ {a})
  <2> DEFINE T == S \ {x}
  <2>1. IsFiniteSet(T) /\ a \in T /\ Cardinality(T) \in Nat /\ Cardinality(T) >= 2
    BY <1>2, <1>3
  <2> HIDE DEF T
  <2>2. IsFiniteSet(T \ {a}) /\ Cardinality(T \ {a}) = Cardinality(T) - 1
    BY <2>1, FS_RemoveElement
  <2>3. Cardinality(T \ {a}) >= 1 /\ IsFiniteSet(T \ {a})
    BY <2>1, <2>2
  <2>4. QED BY <2>3 DEF T
<1>5. PICK b : b \in (S \ {x}) \ {a}
  BY <1>4, FS_EmptySet
<1>6. QED BY <1>3, <1>5

LEMMA EventsFinite == ClimbInv => IsFiniteSet(events)
<1> SUFFICES ASSUME ClimbInv PROVE IsFiniteSet(events)
  OBVIOUS
<1>1. IsFiniteSet(0..now)
  BY FS_Interval DEF ClimbInv
<1>2. events \in SUBSET (0..now)
  BY DEF ClimbInv
<1>3. QED BY <1>1, <1>2, FS_Subset

LEMMA ClimbRecord == ASSUME ClimbInv, Record PROVE ClimbInv'
<1> USE WatchdogConstants DEF ClimbInv, Record, Recent
<1>1. events' \subseteq 0..now /\ now' = now /\ reloaded' = reloaded /\ pc' = "act"
  <2>1. events' \subseteq events \union {now}
    OBVIOUS
  <2>2. events \subseteq 0..now /\ now \in 0..now
    OBVIOUS
  <2>3. events' \subseteq 0..now
    BY <2>1, <2>2
  <2>4. QED BY <2>3
<1>2. \A d, e \in events' : d < e => \/ reloaded # Never /\ reloaded >= e
                                     \/ e = now
  <2> SUFFICES ASSUME NEW d \in events', NEW e \in events', d < e, e # now
               PROVE  reloaded # Never /\ reloaded >= e
    OBVIOUS
  <2>1. d \in events /\ e \in events
    OBVIOUS
  <2>2. ~ Deciding
    BY DEF Deciding
  <2>3. QED BY <2>1, <2>2
<1>3. \A e \in events' : e = now \/ e > now - Window
  OBVIOUS
<1>4. QED BY <1>1, <1>2, <1>3 DEF Deciding

LEMMA ClimbWifi == ASSUME ClimbInv, WifiReload PROVE ClimbInv'
<1>1. \A d, e \in events : d = e
  BY EventsFinite, OneElement DEF WifiReload
<1>2. \A d, e \in events : ~ (d < e)
  BY <1>1 DEF ClimbInv
<1>3. QED BY <1>2 DEF ClimbInv, WifiReload, Deciding

LEMMA ClimbReload == ASSUME ClimbInv, ModuleReload PROVE ClimbInv'
BY WatchdogConstants DEF ClimbInv, ModuleReload, Deciding

LEMMA ClimbMark == ASSUME ClimbInv, WriteMark PROVE ClimbInv'
<1>1. PICK a \in events, b \in events : a # b /\ a # now /\ b # now
  BY EventsFinite, TwoOthers DEF WriteMark
<1>2. a < now /\ b < now /\ (a < b \/ b < a)
  BY <1>1 DEF ClimbInv
<1>3. \E c, d \in events : c < d /\ d < now
  BY <1>2
<1>4. QED BY <1>3 DEF ClimbInv, WriteMark, Deciding

LEMMA ClimbBoot == ASSUME ClimbInv, Reboot \/ PowerCut PROVE ClimbInv'
<1>1. now' = now /\ events' = {} /\ reloaded' = Never /\ pc' = "rest"
  BY DEF Reboot, PowerCut, Boot
<1>2. QED BY <1>1 DEF ClimbInv, Deciding

LEMMA ClimbStep == ClimbInv /\ [Next]_vars => ClimbInv'
<1> SUFFICES ASSUME ClimbInv, [Next]_vars PROVE ClimbInv'
  OBVIOUS
<1>1. CASE \E kind \in {"sig", "other"} : KernelLogs(kind)
  BY <1>1 DEF KernelLogs, ClimbInv, Deciding
<1>2. CASE Tick
  BY <1>2 DEF Tick, ClimbInv, Deciding
<1>3. CASE (\E on \in BOOLEAN : Service(on)) \/ Read
  BY <1>3 DEF Service, Read, ClimbInv, Deciding
<1>4. CASE UNCHANGED vars
  BY <1>4 DEF vars, ClimbInv, Deciding
<1>5. QED BY <1>1, <1>2, <1>3, <1>4, ClimbRecord, ClimbWifi, ClimbReload,
     ClimbMark, ClimbBoot DEF Next

(* The watchdog reboots only after a module reload within the window.      *)
THEOREM TiersClimbed == Spec => EscalatesInOrder
<1>1. ClimbInv /\ [Next]_vars => [ReloadFirst]_vars
  <2> SUFFICES ASSUME ClimbInv, Reboot PROVE reloaded # Never /\ now - reloaded < Window
    BY DEF ReloadFirst
  <2>1. PICK a \in events, b \in events : a < b /\ b < now
    BY DEF Reboot, ClimbInv
  <2>2. reloaded # Never /\ reloaded >= b /\ b > now - Window
    BY <2>1 DEF Reboot, ClimbInv, Deciding
  <2>3. QED BY <2>1, <2>2, WatchdogConstants DEF ClimbInv
<1>2. QED BY <1>1, ClimbInit, ClimbStep, PTL DEF Spec, EscalatesInOrder
-----------------------------------------------------------------------------
(* The ring and the lastline file never hold more than they may.           *)
LEMMA LastTyped ==
  ASSUME NEW S, NEW s \in Seq(S), NEW n \in Nat
  PROVE  Last(s, n) \in Seq(S) /\ Len(Last(s, n)) <= n
<1>1. Len(s) \in Nat
  OBVIOUS
<1> DEFINE m == Len(s) - Least(n, Len(s)) + 1
<1>2. m \in 1..(Len(s) + 1) /\ Len(s) - m + 1 <= n
  <2>1. CASE n < Len(s)
    <3>1. m = Len(s) - n + 1
      BY <2>1 DEF Least
    <3>2. QED BY <1>1, <2>1, <3>1
  <2>2. CASE ~(n < Len(s))
    <3>1. m = 1
      BY <1>1, <2>2 DEF Least
    <3>2. QED BY <1>1, <2>2, <3>1
  <2>3. QED BY <2>1, <2>2
<1> HIDE DEF m
<1>3. m \in Int /\ \A i \in m..Len(s) : s[i] \in S
  BY <1>1, <1>2
<1>4. /\ SubSeq(s, m, Len(s)) \in Seq(S)
      /\ Len(SubSeq(s, m, Len(s))) = IF m <= Len(s) THEN Len(s) - m + 1 ELSE 0
  BY <1>1, <1>3, SubSeqProperties
<1>5. Len(SubSeq(s, m, Len(s))) <= n
  BY <1>1, <1>2, <1>4
<1>6. QED BY <1>4, <1>5 DEF Last, m

LEMMA PutTyped ==
  ASSUME TypeOK, NEW kind \in {"sig", "self", "other"}, Put(kind)
  PROVE  log' \in Seq(Line) /\ Len(log') <= RingSize /\ unread' \in 0..(TailLines + 1)
<1>1. Append(log, [kind |-> kind, at |-> now]) \in Seq(Line)
  BY AppendProperties DEF TypeOK, Line
<1>2. log' \in Seq(Line) /\ Len(log') <= RingSize
  BY <1>1, LastTyped, WatchdogConstants DEF Put, Logged
<1>3. unread' \in 0..(TailLines + 1)
  BY WatchdogConstants DEF Put, Least, TypeOK
<1>4. QED BY <1>2, <1>3

LEMMA EmptyLines == <<>> \in Seq(Line) /\ Len(<<>>) = 0
OBVIOUS

LEMMA BootTyped ==
  ASSUME TypeOK, NEW m \in Times \union {Empty}, Boot(m), rebooted' \in Times
  PROVE  TypeOK'
<1>1. unread' \in 0..(TailLines + 1) /\ events' \subseteq Time
  BY WatchdogConstants DEF Boot
<1>2. log' \in Seq(Line) /\ Len(log') <= RingSize
  BY EmptyLines, WatchdogConstants DEF Boot
<1>3. lastline' \in Seq(Line) /\ Len(lastline') <= 1
  BY EmptyLines DEF Boot
<1>4. QED BY <1>1, <1>2, <1>3 DEF Boot, TypeOK, Times

LEMMA TypeStep == TypeOK /\ [Next]_vars => TypeOK'
<1> SUFFICES ASSUME TypeOK, [Next]_vars PROVE TypeOK'
  OBVIOUS
<1> USE WatchdogConstants
<1>1. CASE \E kind \in {"sig", "other"} : KernelLogs(kind)
  BY <1>1, PutTyped DEF KernelLogs, TypeOK
<1>2. CASE Tick
  BY <1>2 DEF Tick, TypeOK, Time
<1>3. CASE \E on \in BOOLEAN : Service(on)
  BY <1>3 DEF Service, TypeOK
<1>4. CASE Read
  <2>1. Marker \in Seq(Line) /\ Len(Marker) <= 1
    BY LastTyped DEF Marker, TypeOK
  <2>2. 0 \in 0..(TailLines + 1)
    OBVIOUS
  <2>3. lastline' \in Seq(Line) /\ Len(lastline') <= 1 /\ unread' \in 0..(TailLines + 1)
    BY <1>4, <2>1, <2>2 DEF Read, TypeOK
  <2>4. pc' \in {"rest", "record", "act", "sync"} /\ due' \in BOOLEAN
    BY <1>4 DEF Read, TypeOK
  <2>5. QED BY <1>4, <2>3, <2>4 DEF Read, TypeOK
<1>5. CASE Record
  BY <1>5, PutTyped DEF Record, Recent, TypeOK
<1>6. CASE WifiReload
  BY <1>6, PutTyped DEF WifiReload, TypeOK
<1>7. CASE ModuleReload
  BY <1>7, PutTyped DEF ModuleReload, TypeOK, Times
<1>8. CASE WriteMark
  BY <1>8, PutTyped DEF WriteMark, TypeOK, Times
<1>9. CASE Reboot
  BY <1>9, BootTyped DEF Reboot, TypeOK, Times
<1>10. CASE PowerCut
  <2>1. PICK m \in {disk, mark, Empty} : Boot(m)
    BY <1>10 DEF PowerCut
  <2>2. m \in Times \union {Empty} /\ rebooted' \in Times
    BY <1>10 DEF PowerCut, TypeOK
  <2>3. QED BY <2>1, <2>2, BootTyped
<1>11. CASE UNCHANGED vars
  BY <1>11 DEF vars, TypeOK
<1>12. QED BY <1>1, <1>2, <1>3, <1>4, <1>5, <1>6, <1>7, <1>8, <1>9, <1>10,
      <1>11 DEF Next

(* Every variable has its type; the lastline file holds one line at most.  *)
THEOREM WatchdogStateTyped == Spec => []TypeOK
<1>1. Init => TypeOK
  <2> SUFFICES ASSUME Init PROVE TypeOK
    OBVIOUS
  <2>1. 0 \in Time /\ unread \in 0..(TailLines + 1)
    BY WatchdogConstants DEF Init, Time
  <2>2. log \in Seq(Line) /\ Len(log) <= RingSize
    BY EmptyLines, WatchdogConstants DEF Init
  <2>3. lastline \in Seq(Line) /\ Len(lastline) <= 1
    BY EmptyLines DEF Init
  <2>4. QED BY <2>1, <2>2, <2>3 DEF Init, TypeOK, Times
<1>2. QED BY <1>1, TypeStep, PTL DEF Spec
-----------------------------------------------------------------------------
(* As long as no more than the tail was logged since the last run, its     *)
(* marker is still in the ring, just before the lines it has not seen.     *)
MarkInv ==
  lastline # <<>> /\ unread <= TailLines =>
    unread < Len(log) /\ lastline[1] = log[Len(log) - unread]

LEMMA LeastOf ==
  ASSUME NEW a \in Int, NEW b \in Int
  PROVE  /\ Least(a, b) \in {a, b} /\ Least(a, b) <= a /\ Least(a, b) <= b
         /\ a <= b => Least(a, b) = a
BY DEF Least

LEMMA LastElements ==
  ASSUME NEW S, NEW s \in Seq(S), NEW n \in Nat
  PROVE  /\ Len(Last(s, n)) = Least(n, Len(s))
         /\ \A i \in 1..Least(n, Len(s)) :
              Last(s, n)[i] = s[Len(s) - Least(n, Len(s)) + i]
<1>1. Len(s) \in Nat /\ Least(n, Len(s)) \in 0..Len(s)
  BY DEF Least
<1> DEFINE m == Len(s) - Least(n, Len(s)) + 1
<1>2. m \in 1..(Len(s) + 1) /\ Len(s) - m + 1 = Least(n, Len(s))
  BY <1>1
<1>3. Last(s, n) = SubSeq(s, m, Len(s))
  BY DEF Last
<1> HIDE DEF m
<1>4. m \in Int /\ Len(s) \in Int /\ \A i \in m..Len(s) : s[i] \in S
  BY <1>1, <1>2
<1>5. /\ Len(SubSeq(s, m, Len(s))) = IF m <= Len(s) THEN Len(s) - m + 1 ELSE 0
      /\ \A i \in 1..(Len(s) - m + 1) : SubSeq(s, m, Len(s))[i] = s[m + i - 1]
  BY <1>4, SubSeqProperties
<1>6. Len(Last(s, n)) = Least(n, Len(s))
  BY <1>1, <1>2, <1>3, <1>5
<1>7. ASSUME NEW i \in 1..Least(n, Len(s))
      PROVE  Last(s, n)[i] = s[Len(s) - Least(n, Len(s)) + i]
  <2>1. Last(s, n)[i] = s[m + i - 1]
    BY <1>2, <1>3, <1>5
  <2>2. m + i - 1 = Len(s) - Least(n, Len(s)) + i
    BY <1>1 DEF m
  <2> QED BY <2>1, <2>2
<1> QED BY <1>6, <1>7

(* A line goes in behind the others; the oldest falls out of a full ring,  *)
(* so that a line keeps its place counted from the end.                    *)
LEMMA PutMoves ==
  ASSUME TypeOK, NEW kind \in {"sig", "self", "other"}, Put(kind)
  PROVE  /\ Len(log') = Least(RingSize, Len(log) + 1)
         /\ \A k \in 0..(Len(log) - 1) :
              k + 1 < RingSize => log'[Len(log') - (k + 1)] = log[Len(log) - k]
<1> DEFINE more == Append(log, [kind |-> kind, at |-> now])
<1>1. /\ more \in Seq(Line) /\ Len(more) = Len(log) + 1
      /\ \A i \in 1..Len(log) : more[i] = log[i]
  BY AppendProperties DEF TypeOK, Line
<1>2. log' = Last(more, RingSize) /\ RingSize \in Nat /\ RingSize >= 1
  BY WatchdogConstants DEF Put, Logged
<1>3. Len(log) \in Nat
  BY DEF TypeOK
<1> HIDE DEF more
<1> DEFINE n == Least(RingSize, Len(more))
<1>0. n \in 1..Len(more) /\ n <= RingSize /\ (n < RingSize => n = Len(more))
  BY <1>1, <1>2, <1>3 DEF Least
<1>4. Len(log') = n /\ \A i \in 1..n : log'[i] = more[Len(more) - n + i]
  BY <1>1, <1>2, LastElements
<1>5. Len(log') = Least(RingSize, Len(log) + 1)
  BY <1>1, <1>4
<1> HIDE DEF n
<1>6. ASSUME NEW k \in 0..(Len(log) - 1), k + 1 < RingSize
      PROVE  log'[n - (k + 1)] = log[Len(log) - k]
  <2>1. n - (k + 1) \in 1..n
    <3>1. Len(more) \in Int /\ k + 1 <= Len(log) /\ n \in Int /\ RingSize \in Int
      BY <1>0, <1>1, <1>2, <1>3
    <3>2. k + 1 < n
      BY <1>0, <1>1, <1>3, <1>6, <3>1
    <3> QED BY <3>1, <3>2
  <2>2. log'[n - (k + 1)] = more[Len(more) - n + (n - (k + 1))]
    BY <1>4, <2>1
  <2>3. Len(more) - n + (n - (k + 1)) = Len(log) - k
    BY <1>0, <1>1, <1>3
  <2>4. Len(log) - k \in 1..Len(log)
    BY <1>3
  <2> QED BY <1>1, <2>2, <2>3, <2>4
<1> QED BY <1>4, <1>5, <1>6

LEMMA PutKeepsMark ==
  ASSUME TailLines < RingSize, TypeOK, MarkInv, UNCHANGED lastline,
         NEW kind \in {"sig", "self", "other"}, Put(kind)
  PROVE  MarkInv'
<1> SUFFICES ASSUME lastline # <<>>, unread' <= TailLines
             PROVE  unread' < Len(log') /\ lastline[1] = log'[Len(log') - unread']
  BY DEF MarkInv
<1>1. unread \in Nat /\ TailLines \in Nat /\ RingSize \in Nat /\ Len(log) \in Nat
  BY WatchdogConstants DEF TypeOK
<1>2. unread' = unread + 1 /\ unread <= TailLines
  BY <1>1 DEF Put, Least
<1>3. unread < Len(log) /\ lastline[1] = log[Len(log) - unread]
  BY <1>2 DEF MarkInv
<1>4. unread \in 0..(Len(log) - 1) /\ unread + 1 < RingSize
  BY <1>1, <1>2, <1>3
<1>5. log'[Len(log') - (unread + 1)] = log[Len(log) - unread]
  BY <1>4, PutMoves
<1>6. Len(log') = Least(RingSize, Len(log) + 1)
  BY PutMoves
<1>7. unread' < Len(log')
  BY <1>1, <1>2, <1>3, <1>4, <1>6 DEF Least
<1> QED BY <1>2, <1>3, <1>5, <1>7

(* The new marker is the last line of the log.                             *)
LEMMA ReadMarks == ASSUME TypeOK, MarkInv, Read PROVE MarkInv'
<1>1. CASE log = <<>>
  BY <1>1 DEF Read, MarkInv
<1>2. CASE log # <<>>
  <2>1. Len(log) \in Nat /\ Len(log) >= 1
    BY <1>2, EmptySeq DEF TypeOK
  <2>2. Least(1, Len(log)) = 1
    BY <2>1, LeastOf
  <2>3. Len(Marker) = 1 /\ Marker[1] = log[Len(log)]
    <3>1. /\ Len(Marker) = Least(1, Len(log))
          /\ \A i \in 1..Least(1, Len(log)) :
               Marker[i] = log[Len(log) - Least(1, Len(log)) + i]
      BY LastElements DEF Marker, TypeOK
    <3>2. Marker[1] = log[Len(log) - 1 + 1]
      BY <2>2, <3>1
    <3> QED BY <2>1, <2>2, <3>1, <3>2
  <2>4. lastline' = Marker /\ unread' = 0 /\ log' = log
    BY <1>2 DEF Read
  <2> QED BY <2>1, <2>3, <2>4 DEF MarkInv
<1> QED BY <1>1, <1>2

LEMMA MarkStep ==
  ASSUME TailLines < RingSize
  PROVE  TypeOK /\ MarkInv /\ [Next]_vars => MarkInv'
<1> SUFFICES ASSUME TypeOK, MarkInv, [Next]_vars PROVE MarkInv'
  OBVIOUS
<1>1. ASSUME NEW kind \in {"sig", "other"}, KernelLogs(kind) PROVE MarkInv'
  BY <1>1, PutKeepsMark DEF KernelLogs
<1>2. CASE Record \/ WifiReload \/ ModuleReload \/ WriteMark
  BY <1>2, PutKeepsMark DEF Record, WifiReload, ModuleReload, WriteMark
<1>3. CASE Tick \/ \E on \in BOOLEAN : Service(on)
  BY <1>3 DEF Tick, Service, MarkInv
<1>4. CASE Read
  BY <1>4, ReadMarks
<1>5. CASE Reboot \/ PowerCut
  BY <1>5 DEF Reboot, PowerCut, Boot, MarkInv
<1>6. CASE UNCHANGED vars
  BY <1>6 DEF vars, MarkInv
<1> QED BY <1>1, <1>2, <1>3, <1>4, <1>5, <1>6 DEF Next

(* A set of naturals that has a member has a least one.                    *)
LEMMA Lowest ==
  ASSUME NEW T \in SUBSET Nat, T # {}
  PROVE  \E x \in T : \A y \in T : x <= y
<1>1. \E x \in T : \A y \in T : ~ (<<y, x>> \in OpToRel(<, Nat))
  BY NatLessThanWellFounded, WFMin, Zenon
<1>2. \A x, y \in Nat : y < x => <<y, x>> \in OpToRel(<, Nat)
  BY DEF OpToRel
<1>3. \E x \in T : \A y \in T : ~ (y < x)
  BY <1>1, <1>2, Zenon
<1>4. \A x, y \in Nat : ~ (y < x) => x <= y
  OBVIOUS
<1> QED BY <1>3, <1>4

(* What was logged since the last run is among the lines a run looks at.   *)
LEMMA FreshAmongNew ==
  ASSUME TypeOK, MarkInv, unread <= TailLines, NEW j \in 1..Len(log),
         j > Len(log) - unread
  PROVE  \E i \in DOMAIN NewLines : NewLines[i] = log[j]
<1>1. /\ log \in Seq(Line) /\ Len(log) \in Nat /\ unread \in Nat /\ TailLines \in Nat
      /\ DOMAIN log = 1..Len(log)
  BY WatchdogConstants DEF TypeOK
<1> DEFINE hits == {i \in DOMAIN log : <<log[i]>> = lastline}
<1>2. CASE hits = {}
  <2>1. NewLines = Last(log, TailLines)
    BY <1>2 DEF NewLines
  <2> DEFINE n == Least(TailLines, Len(log))
  <2>2. /\ n \in Nat /\ n <= Len(log) /\ j - (Len(log) - n) \in 1..n
    BY <1>1 DEF Least
  <2>3. Len(NewLines) = n /\ \A i \in 1..n : NewLines[i] = log[Len(log) - n + i]
    BY <1>1, <2>1, LastElements
  <2>4. Len(log) - n + (j - (Len(log) - n)) = j
    BY <1>1, <2>2
  <2>5. NewLines[j - (Len(log) - n)] = log[j]
    BY <2>2, <2>3, <2>4
  <2>6. DOMAIN NewLines = 1..n
    BY <1>1, <2>1, <2>3, LastTyped
  <2> QED BY <2>2, <2>5, <2>6
<1>3. CASE hits # {}
  <2>1. lastline # <<>>
    BY <1>3
  <2>2. unread < Len(log) /\ lastline[1] = log[Len(log) - unread]
    BY <2>1 DEF MarkInv
  <2>3. lastline = <<log[Len(log) - unread]>>
    BY <1>3, <2>2
  <2>4. Len(log) - unread \in hits
    BY <1>1, <2>2, <2>3
  <2> DEFINE first == CHOOSE i \in hits : \A k \in hits : i <= k
  <2>5. NewLines = SubSeq(log, first + 1, Len(log))
    BY <1>3 DEF NewLines
  <2>6. first \in hits /\ \A k \in hits : first <= k
    <3>1. hits \in SUBSET Nat /\ hits # {}
      BY <1>1, <1>3
    <3> HIDE DEF hits
    <3>2. \E i \in hits : \A k \in hits : i <= k
      BY <3>1, Lowest
    <3> QED BY <3>2
  <2>7. first \in 1..(Len(log) - unread)
    BY <1>1, <2>4, <2>6
  <2> HIDE DEF first
  <2>8. first + 1 \in Int /\ \A i \in (first + 1)..Len(log) : log[i] \in Line
    BY <1>1, <2>7
  <2>9. /\ NewLines \in Seq(Line)
        /\ Len(NewLines) = IF first + 1 <= Len(log) THEN Len(log) - (first + 1) + 1 ELSE 0
        /\ \A i \in 1..(Len(log) - (first + 1) + 1) :
             NewLines[i] = log[(first + 1) + i - 1]
    BY <1>1, <2>5, <2>8, SubSeqProperties
  <2>10. /\ first \in Int /\ first + 1 <= Len(log) /\ j \in Int /\ j > first
         /\ j <= Len(log)
    BY <1>1, <2>7
  <2>11. /\ j - first \in 1..(Len(log) - (first + 1) + 1)
         /\ Len(NewLines) = Len(log) - (first + 1) + 1
    BY <1>1, <2>9, <2>10
  <2>12. NewLines[j - first] = log[(first + 1) + (j - first) - 1]
    BY <2>9, <2>11
  <2>13. (first + 1) + (j - first) - 1 = j
    BY <2>10
  <2>14. j - first \in DOMAIN NewLines
    BY <2>9, <2>11
  <2> QED BY <2>12, <2>13, <2>14
<1> QED BY <1>2, <1>3

LEMMA FreshRecorded ==
  ASSUME TypeOK, MarkInv, Read, FreshSignature
  PROVE  pc' = "record"
<1>1. log \in Seq(Line) /\ Len(log) \in Nat /\ unread \in Nat
  BY DEF TypeOK
<1> DEFINE n == Least(unread, Len(log))
<1>2. /\ Len(Last(log, unread)) = n
      /\ \A i \in 1..n : Last(log, unread)[i] = log[Len(log) - n + i]
  BY <1>1, LastElements
<1>3. PICK i \in 1..n : Last(log, unread)[i].kind = "sig"
  BY <1>1, <1>2, LastTyped DEF FreshSignature
<1>4. n \in Nat /\ n <= Len(log) /\ n <= unread
  BY <1>1 DEF Least
<1>5. /\ Len(log) - n + i \in 1..Len(log) /\ Len(log) - n + i > Len(log) - unread
      /\ log[Len(log) - n + i].kind = "sig"
  BY <1>1, <1>2, <1>3, <1>4
<1>6. \E k \in DOMAIN NewLines : NewLines[k] = log[Len(log) - n + i]
  BY <1>5, FreshAmongNew DEF FreshSignature
<1>7. Matches(NewLines)
  BY <1>5, <1>6 DEF Matches
<1>8. log # <<>>
  BY <1>1, <1>5
<1> QED BY <1>7, <1>8 DEF Read

(* No signature escapes a run, whatever became of the marker, as long as   *)
(* the log ring holds more than the lines the tail looks at.               *)
THEOREM NoSignatureSkipped ==
  ASSUME TailLines < RingSize
  PROVE  Spec => NothingSkipped
<1>1. Init => MarkInv
  BY DEF Init, MarkInv
<1>2. TypeOK /\ MarkInv /\ [Next]_vars => [Read /\ FreshSignature => pc' = "record"]_vars
  BY FreshRecorded
<1>3. TypeOK /\ MarkInv /\ [Next]_vars => MarkInv'
  BY MarkStep
<1> QED BY <1>1, <1>2, <1>3, WatchdogStateTyped, PTL DEF Spec, NothingSkipped
=============================================================================
