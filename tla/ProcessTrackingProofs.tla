------------------------- MODULE ProcessTrackingProofs -------------------------
(***************************************************************************)
(* The safety of process tracking, for any processes and process ids, with    *)
(* and without the driver, whatever processes are born, end and throw.         *)
(***************************************************************************)
EXTENDS ProcessTracking, FiniteSetTheorems, SequenceTheorems, TLAPS

------------------------------------------------------------------------------
(* Sequences.                                                               *)

\* Where the k-th element was before the n-th was removed.
Before(k, n) == IF k < n THEN k ELSE k + 1

LEMMA Removed ==
    ASSUME NEW C, NEW s \in Seq(C), NEW n \in DOMAIN s
    PROVE  /\ RemoveAt(s, n) \in Seq(C)
           /\ \A k \in DOMAIN RemoveAt(s, n) :
                /\ Before(k, n) \in DOMAIN s
                /\ Before(k, n) # n
                /\ RemoveAt(s, n)[k] = s[Before(k, n)]
           /\ \A m \in DOMAIN s \ {n} :
                \E k \in DOMAIN RemoveAt(s, n) : Before(k, n) = m
           /\ \A k, m \in DOMAIN RemoveAt(s, n) : Before(k, n) = Before(m, n) => k = m
<1> DEFINE t == RemoveAt(s, n)
           a == SubSeq(s, 1, n - 1)
           b == SubSeq(s, n + 1, Len(s))
           N == Len(s)
<1>1. N \in Nat /\ n \in 1 .. N /\ DOMAIN s = 1 .. N /\ \A k \in 1 .. N : s[k] \in C
  OBVIOUS
<1>2. a \in Seq(C) /\ Len(a) = n - 1 /\ \A k \in 1 .. n - 1 : a[k] = s[k]
  BY <1>1
<1>3. b \in Seq(C) /\ Len(b) = N - n /\ \A k \in 1 .. N - n : b[k] = s[n + k]
  <2>1. n + 1 \in Int /\ N \in Int /\ \A i \in n + 1 .. N : s[i] \in C
    BY <1>1
  <2>2. /\ b \in Seq(C)
        /\ Len(b) = IF n + 1 <= N THEN N - (n + 1) + 1 ELSE 0
        /\ \A k \in 1 .. N - (n + 1) + 1 : b[k] = s[n + 1 + k - 1]
    <3> HIDE DEF N
    <3>. QED
      BY <2>1, SubSeqProperties DEF N
  <2> HIDE DEF b, N
  <2>3. N - (n + 1) + 1 = N - n /\ \A k \in 1 .. N - n : n + 1 + k - 1 = n + k
    BY <1>1
  <2>. QED
    BY <1>1, <2>2, <2>3
<1>4. t = a \o b
  BY DEF RemoveAt
<1> HIDE DEF a, b, t, N
<1>5. t \in Seq(C) /\ Len(t) = N - 1 /\ DOMAIN t = 1 .. N - 1
  <2>1. t \in Seq(C) /\ Len(t) = Len(a) + Len(b)
    BY <1>2, <1>3, <1>4, ConcatProperties
  <2>2. Len(t) = N - 1
    BY <1>1, <1>2, <1>3, <2>1
  <2>. QED
    BY <2>1, <2>2
<1>6. ASSUME NEW k \in 1 .. N - 1
      PROVE  Before(k, n) \in 1 .. N /\ Before(k, n) # n /\ t[k] = s[Before(k, n)]
  <2>1. CASE k < n
    <3>1. k \in 1 .. n - 1
      BY <1>1, <2>1
    <3>2. t[k] = a[k]
      BY <1>2, <1>3, <1>4, <3>1
    <3>. QED
      BY <1>1, <1>2, <2>1, <3>1, <3>2 DEF Before
  <2>2. CASE ~(k < n)
    <3>1. k - (n - 1) \in 1 .. N - n
      BY <1>1, <2>2
    <3>2. t[k] = b[k - (n - 1)]
      BY <1>1, <1>2, <1>3, <1>4, <2>2
    <3>3. n + (k - (n - 1)) = k + 1
      BY <1>1
    <3>. QED
      BY <1>1, <1>3, <2>2, <3>1, <3>2, <3>3 DEF Before
  <2>. QED
    BY <2>1, <2>2
<1>7. ASSUME NEW m \in 1 .. N, m # n
      PROVE  \E k \in 1 .. N - 1 : Before(k, n) = m
  <2>1. CASE m < n
    BY <1>1, <2>1 DEF Before
  <2>2. CASE m > n
    <3>1. m - 1 \in 1 .. N - 1 /\ Before(m - 1, n) = m
      BY <1>1, <2>2 DEF Before
    <3>. QED
      BY <3>1
  <2>. QED
    BY <1>1, <1>7, <2>1, <2>2
<1>8. \A k, m \in 1 .. N - 1 : Before(k, n) = Before(m, n) => k = m
  BY <1>1 DEF Before
<1>. QED
  BY <1>1, <1>5, <1>6, <1>7, <1>8 DEF t

LEMMA Replaced ==
    ASSUME NEW C, NEW s \in Seq(C), NEW n \in DOMAIN s, NEW c \in C,
           NEW t, t = [s EXCEPT ![n] = c]
    PROVE  /\ t \in Seq(C)
           /\ DOMAIN t = DOMAIN s
           /\ \A k \in DOMAIN s \ {n} : t[k] = s[k]
           /\ t[n] = c
OBVIOUS

LEMMA Enumerated ==
    ASSUME NEW S, IsFiniteSet(S)
    PROVE  /\ SetToSeq(S) \in Seq(S)
           /\ \A x \in S : \E k \in DOMAIN SetToSeq(S) : SetToSeq(S)[k] = x
<1> DEFINE n == Cardinality(S)
<1>1. n \in Nat /\ ExistsBijection(1 .. n, S)
  BY FS_CardinalityType
<1>2. PICK f \in [1 .. n -> S] : IsInjective(f)
  BY <1>1 DEF ExistsBijection, Bijection, Injection
<1>3. SetToSeq(S) \in [1 .. n -> S] /\ IsInjective(SetToSeq(S))
  BY <1>2 DEF SetToSeq
<1> DEFINE t == SetToSeq(S)
<1> HIDE DEF t
<1>4. t \in Injection(1 .. n, S)
  BY <1>3 DEF Injection, t
<1>5. Cardinality(1 .. n) = n
  BY <1>1, FS_Interval
<1>6. t \in Surjection(1 .. n, S)
  BY <1>4, <1>5, FS_Injection
<1>. QED
  BY <1>1, <1>3, <1>6 DEF Surjection, t

------------------------------------------------------------------------------
(* The inductive invariant.                                                 *)

\* A coroutine with a process is about that process; one that hooks has tried it.
CoroutinesInv ==
    \A n \in DOMAIN coroutines :
        LET c == coroutines[n]
        IN  /\ c.process \in Process => PidOf[c.process] = c.pid
            /\ c.hooking => c.process \in tried

\* Among the processes that run or that the service has a handle of, an id
\* belongs to one.
UniqueInv ==
    \A i, j \in Process :
        i \in Listed \cup Held /\ j \in Listed \cup Held /\ PidOf[i] = PidOf[j] => i = j

\* Whoever was tried is known to have been, unless the record is gone for one of
\* the reasons that HookedOnce names.
TriedInv ==
    \A i \in tried :
        /\ life[i] # "unborn"
        /\ i \in Listed => \/ PidOf[i] \in processes_being_hooked \cup hooked_processes
                           \/ i \in threw
                           \/ Reused(i)

\* The monitor knows only ids of processes that were born, and what it has yet to
\* report as ended is not there, or is there again.
KeysInv ==
    /\ mode = "driver" =>
        /\ \A k \in active \cup destroyed :
               \E j \in Process : PidOf[j] = k /\ life[j] # "unborn"
        /\ \A i \in Listed : PidOf[i] \in destroyed => Reused(i)
    /\ mode # "driver" =>
        /\ \A k \in active \cup destroyed : life[k] # "unborn" /\ k \notin Protected
        /\ \A i \in Listed : i \notin destroyed

BaseInv == TypeOK /\ CoroutinesInv

------------------------------------------------------------------------------
(* Type correctness.                                                        *)

LEMMA KeysType ==
    ASSUME TypeOK
    PROVE  /\ Keys \subseteq (IF mode = "driver" THEN Pid ELSE Process)
           /\ \A k \in active \cup created \cup destroyed : PidOfKey(k) \in Pid
BY TrackingAssumption DEF TypeOK, Keys, PidOfKey, Openable, Listed

LEMMA ListedType ==
    Listed \subseteq Process /\ IsFiniteSet(Listed)
<1>1. Listed \subseteq Process
  BY DEF Listed
<1>. QED
  BY <1>1, FS_Subset, TrackingAssumption

LEMMA OpenableType ==
    Openable \subseteq Listed /\ IsFiniteSet(Openable)
<1>1. Openable \subseteq Listed
  BY DEF Openable
<1>. QED
  BY <1>1, ListedType, FS_Subset

LEMMA InitBase ==
    ASSUME Init
    PROVE  BaseInv
<1>1. TypeOK
  <2>1. life \in [Process -> {"unborn", "running", "exiting", "gone"}]
    BY DEF Init
  <2>2. coroutines \in Seq(Coroutine)
    BY DEF Init
  <2>3. active \cup created \cup destroyed = {} /\ unset = {} /\ threw = {} /\ tried = {}
    BY DEF Init
  <2>4. /\ mode \in Modes /\ notified = FALSE /\ start = "initialize" /\ monitor = "off"
        /\ running_processes = {} /\ hooked_processes = {} /\ processes_being_hooked = {}
        /\ in_gap = {}
    BY DEF Init
  <2>. QED
    BY <2>1, <2>2, <2>3, <2>4 DEF TypeOK
<1>2. CoroutinesInv
  BY DEF Init, CoroutinesInv
<1>. QED
  BY <1>1, <1>2 DEF BaseInv

\* The coroutines of start, as hook_running_processes adds them.
StartCoroutines ==
    {[pid |-> PidOf[i], process |-> i, awaited |-> TRUE, hooking |-> FALSE] : i \in Openable}

\* They come last, and hook nothing yet.
LEMMA StartAdds ==
    ASSUME TypeOK, hook_running_processes
    PROVE  /\ coroutines' \in Seq(Coroutine)
           /\ \A n \in DOMAIN coroutines :
                n \in DOMAIN coroutines' /\ coroutines'[n] = coroutines[n]
           /\ \A n \in DOMAIN coroutines' \ DOMAIN coroutines :
                coroutines'[n] \in StartCoroutines
           /\ \A c \in StartCoroutines : \E n \in DOMAIN coroutines' : coroutines'[n] = c
<1> DEFINE new == SetToSeq(StartCoroutines)
<1>1. StartCoroutines \subseteq Coroutine
  <2>1. ASSUME NEW i \in Openable
        PROVE  [pid |-> PidOf[i], process |-> i, awaited |-> TRUE, hooking |-> FALSE]
                   \in Coroutine
    <3>1. i \in Process /\ PidOf[i] \in Pid
      BY OpenableType, ListedType, TrackingAssumption
    <3>. QED
      BY <3>1 DEF Coroutine
  <2>. QED
    BY <2>1 DEF StartCoroutines
<1>2. IsFiniteSet(StartCoroutines)
  <2> DEFINE Co(i) == [pid |-> PidOf[i], process |-> i, awaited |-> TRUE, hooking |-> FALSE]
             f == [i \in Openable |-> Co(i)]
  <2>1. f \in Surjection(Openable, StartCoroutines)
    BY DEF Surjection, StartCoroutines
  <2>. QED
    BY <2>1, OpenableType, FS_Surjection
<1>3. /\ new \in Seq(StartCoroutines) /\ new \in Seq(Coroutine)
      /\ \A c \in StartCoroutines : \E k \in DOMAIN new : new[k] = c
  <2>1. /\ new \in Seq(StartCoroutines)
        /\ \A c \in StartCoroutines : \E k \in DOMAIN new : new[k] = c
    BY <1>2, Enumerated
  <2>. QED
    BY <1>1, <2>1
<1>4. coroutines' = coroutines \o new
  BY DEF hook_running_processes, StartCoroutines
<1>5. coroutines \in Seq(Coroutine)
  BY DEF TypeOK
<1> HIDE DEF new
<1>6. /\ coroutines' \in Seq(Coroutine)
      /\ Len(coroutines') = Len(coroutines) + Len(new)
      /\ \A n \in 1 .. Len(coroutines) + Len(new) :
            coroutines'[n] = IF n <= Len(coroutines) THEN coroutines[n]
                             ELSE new[n - Len(coroutines)]
  BY <1>3, <1>4, <1>5, ConcatProperties
<1>7. \A n \in DOMAIN coroutines :
         n \in DOMAIN coroutines' /\ coroutines'[n] = coroutines[n]
  BY <1>3, <1>5, <1>6
<1>8. ASSUME NEW n \in DOMAIN coroutines' \ DOMAIN coroutines
      PROVE  coroutines'[n] \in StartCoroutines
  <2>1. n \in Nat /\ n > Len(coroutines) /\ n <= Len(coroutines) + Len(new)
    BY <1>5, <1>6
  <2>2. n - Len(coroutines) \in 1 .. Len(new)
    BY <1>3, <1>5, <2>1
  <2>3. new[n - Len(coroutines)] \in StartCoroutines
    BY <1>3, <2>2
  <2>4. coroutines'[n] = new[n - Len(coroutines)]
    BY <1>5, <1>6, <2>1
  <2>. QED
    BY <2>3, <2>4
<1>9. ASSUME NEW c \in StartCoroutines
      PROVE  \E n \in DOMAIN coroutines' : coroutines'[n] = c
  <2>1. PICK k \in 1 .. Len(new) : new[k] = c
    BY <1>3
  <2>2. PICK m \in Nat : m = k + Len(coroutines)
    BY <1>5
  <2>3. /\ m \in 1 .. Len(coroutines) + Len(new)
        /\ ~(m <= Len(coroutines))
        /\ m - Len(coroutines) = k
    BY <1>3, <1>5, <2>2
  <2>4. coroutines'[m] = new[m - Len(coroutines)]
    BY <1>6, <2>3
  <2>5. m \in DOMAIN coroutines'
    BY <1>3, <1>5, <1>6, <2>3
  <2>. QED
    BY <2>1, <2>3, <2>4, <2>5
<1>. QED
  BY <1>6, <1>7, <1>8, <1>9

LEMMA CreatedAdds ==
    ASSUME TypeOK, NEW k \in created, OnProcessCreated(k)
    PROVE  /\ coroutines' \in Seq(Coroutine)
           /\ \A n \in DOMAIN coroutines :
                n \in DOMAIN coroutines' /\ coroutines'[n] = coroutines[n]
           /\ \A n \in DOMAIN coroutines' \ DOMAIN coroutines :
                /\ coroutines'[n].process = NoProcess
                /\ coroutines'[n].hooking = FALSE
           /\ \E n \in DOMAIN coroutines' : /\ coroutines'[n].pid = PidOfKey(k)
                                            /\ coroutines'[n].hooking = FALSE
<1> DEFINE c == [pid |-> PidOfKey(k), process |-> NoProcess, awaited |-> FALSE,
                 hooking |-> FALSE]
<1>1. c \in Coroutine
  BY KeysType DEF Coroutine
<1>2. c.process = NoProcess /\ c.hooking = FALSE /\ c.pid = PidOfKey(k)
  OBVIOUS
<1>3. coroutines' = Append(coroutines, c) /\ coroutines \in Seq(Coroutine)
  BY DEF OnProcessCreated, TypeOK
<1> HIDE DEF c
<1>. QED
  BY <1>1, <1>2, <1>3

LEMMA StartBase ==
    ASSUME BaseInv, Start
    PROVE  BaseInv'
<1>1. CASE Initialize
  BY <1>1 DEF Initialize, BaseInv, TypeOK, CoroutinesInv, windows_vars, hook_vars
<1>2. CASE hook_running_processes
  <2>1. TypeOK
    BY DEF BaseInv
  <2>2. TypeOK'
    BY <1>2, <2>1, ListedType, OpenableType, StartAdds
       DEF hook_running_processes, TypeOK, windows_vars, monitor_vars, hook_vars
  <2>3. \A n \in DOMAIN coroutines' \ DOMAIN coroutines :
           /\ PidOf[coroutines'[n].process] = coroutines'[n].pid
           /\ ~coroutines'[n].hooking
    BY <1>2, <2>1, StartAdds DEF StartCoroutines
  <2>4. tried' = tried
    BY <1>2 DEF hook_running_processes, hook_vars
  <2>5. CoroutinesInv'
    BY <1>2, <2>1, <2>3, <2>4, StartAdds DEF BaseInv, CoroutinesInv
  <2>. QED
    BY <2>2, <2>5 DEF BaseInv
<1>3. CASE Started
  BY <1>3 DEF Started, BaseInv, TypeOK, CoroutinesInv, windows_vars, hook_vars
<1>. QED
  BY <1>1, <1>2, <1>3 DEF Start

LEMMA MonitorBase ==
    ASSUME BaseInv, Monitor
    PROVE  BaseInv'
<1>0. TypeOK
  BY DEF BaseInv
<1>1. CASE FirstList
  BY <1>0, <1>1, KeysType
     DEF FirstList, BaseInv, TypeOK, CoroutinesInv, windows_vars, start_vars, hook_vars
<1>2. CASE Wake
  BY <1>2 DEF Wake, BaseInv, TypeOK, CoroutinesInv, start_vars, hook_vars
<1>3. CASE Compare
  BY <1>0, <1>3, KeysType
     DEF Compare, BaseInv, TypeOK, CoroutinesInv, windows_vars, start_vars, hook_vars
<1>4. CASE Reported
  BY <1>4 DEF Reported, BaseInv, TypeOK, CoroutinesInv, windows_vars, start_vars, hook_vars
<1>5. ASSUME NEW k \in created, OnProcessCreated(k)
      PROVE  BaseInv'
  <2>1. /\ UNCHANGED <<mode, windows_vars, start_vars, unset, monitor, active, destroyed,
                       hook_vars>>
        /\ created' \subseteq created
    BY <1>5 DEF OnProcessCreated
  <2>2. TypeOK'
    BY <1>0, <1>5, <2>1, CreatedAdds DEF TypeOK, windows_vars, start_vars, hook_vars
  <2>3. CoroutinesInv'
    BY <1>0, <1>5, <2>1, CreatedAdds, TrackingAssumption
       DEF BaseInv, CoroutinesInv, hook_vars
  <2>. QED
    BY <2>2, <2>3 DEF BaseInv
<1>6. ASSUME NEW k \in destroyed, OnProcessDestroyed(k)
      PROVE  BaseInv'
  BY <1>6 DEF OnProcessDestroyed, BaseInv, TypeOK, CoroutinesInv, windows_vars, start_vars
<1>. QED
  BY <1>1, <1>2, <1>3, <1>4, <1>5, <1>6 DEF Monitor

LEMMA ProcessBase ==
    ASSUME BaseInv, NEW i \in Process, Birth(i) \/ Exit(i) \/ Vanish(i)
    PROVE  BaseInv'
<1>1. /\ UNCHANGED <<mode, start_vars, unset, monitor_vars, coroutines, hook_vars>>
      /\ \E new \in {"running", "exiting", "gone"} : life' = [life EXCEPT ![i] = new]
      /\ notified' \in BOOLEAN
      /\ in_gap' \subseteq Process
  BY DEF BaseInv, TypeOK, Birth, Exit, Vanish, Notify
<1>. QED
  BY <1>1 DEF BaseInv, TypeOK, CoroutinesInv, start_vars, monitor_vars, hook_vars

\* The end of a coroutine, whichever: the others stay.
LEMMA EndBase ==
    ASSUME BaseInv, NEW n \in DOMAIN coroutines, coroutines' = RemoveAt(coroutines, n),
           UNCHANGED <<mode, windows_vars, start_vars, monitor_vars, tried>>,
           unset' \subseteq unset,
           hooked_processes' \subseteq Pid, processes_being_hooked' \subseteq Pid,
           threw' \subseteq tried
    PROVE  BaseInv'
<1>1. TypeOK /\ coroutines \in Seq(Coroutine)
  BY DEF BaseInv, TypeOK
<1>2. coroutines' \in Seq(Coroutine)
  BY <1>1, Removed
<1>3. TypeOK'
  BY <1>1, <1>2 DEF TypeOK, windows_vars, start_vars, monitor_vars
<1>4. \A k \in DOMAIN coroutines' :
        Before(k, n) \in DOMAIN coroutines /\ coroutines'[k] = coroutines[Before(k, n)]
  BY <1>1, Removed
<1>5. CoroutinesInv'
  BY <1>4 DEF BaseInv, CoroutinesInv
<1>. QED
  BY <1>3, <1>5 DEF BaseInv

\* The process that a coroutine finds to hook.
LEMMA OpenedFacts ==
    ASSUME BaseInv, NEW n \in DOMAIN coroutines, NEW i \in Opened(coroutines[n])
    PROVE  /\ i \in Process
           /\ PidOf[i] = coroutines[n].pid
           /\ i \in Listed \cup Held
<1> DEFINE c == coroutines[n]
<1>1. c \in Coroutine
  BY DEF BaseInv, TypeOK
<1>2. CASE c.process # NoProcess
  <2>1. i = c.process
    BY <1>2 DEF Opened
  <2>2. i \in Process
    BY <1>1, <1>2, <2>1 DEF Coroutine
  <2>3. PidOf[i] = c.pid
    BY <2>1, <2>2 DEF BaseInv, CoroutinesInv
  <2>4. i \in Held
    BY <2>1 DEF Held, ToSet
  <2>. QED
    BY <2>2, <2>3, <2>4
<1>3. CASE c.process = NoProcess
  BY <1>3, ListedType, OpenableType DEF Opened
<1>. QED
  BY <1>2, <1>3

\* The coroutine that begins to hook i, beside the others.
LEMMA BegunCoroutines ==
    ASSUME BaseInv, NEW n \in DOMAIN coroutines, NEW i \in Process,
           coroutines' = [coroutines EXCEPT ![n].process = i, ![n].hooking = TRUE]
    PROVE  /\ coroutines' \in Seq(Coroutine)
           /\ DOMAIN coroutines' = DOMAIN coroutines
           /\ \A k \in DOMAIN coroutines \ {n} : coroutines'[k] = coroutines[k]
           /\ coroutines'[n].process = i
           /\ coroutines'[n].hooking = TRUE
           /\ coroutines'[n].pid = coroutines[n].pid
<1>1. coroutines \in Seq(Coroutine) /\ coroutines[n] \in Coroutine
  BY DEF BaseInv, TypeOK
<1> DEFINE c == [coroutines[n] EXCEPT !.process = i, !.hooking = TRUE]
<1>2. c \in Coroutine /\ c.process = i /\ c.hooking = TRUE /\ c.pid = coroutines[n].pid
  BY <1>1 DEF Coroutine
<1>3. coroutines' = [coroutines EXCEPT ![n] = c]
  BY <1>1
<1> HIDE DEF c
<1>4. /\ coroutines' \in Seq(Coroutine)
      /\ DOMAIN coroutines' = DOMAIN coroutines
      /\ \A k \in DOMAIN coroutines \ {n} : coroutines'[k] = coroutines[k]
      /\ coroutines'[n] = c
  BY ONLY <1>1, <1>2, <1>3, n \in DOMAIN coroutines, Replaced
<1>. QED
  BY <1>2, <1>4

LEMMA BeginParts ==
    ASSUME BaseInv, NEW n \in DOMAIN coroutines, Begin(n)
    PROVE  /\ ~coroutines[n].hooking
           /\ UNCHANGED <<mode, windows_vars, start_vars, monitor_vars, hooked_processes, threw>>
           /\ \/ /\ coroutines' = RemoveAt(coroutines, n)
                 /\ unset' \subseteq unset
                 /\ UNCHANGED <<processes_being_hooked, tried>>
              \/ /\ ~passed_over(coroutines[n].pid)
                 /\ \E i \in Opened(coroutines[n]) :
                     /\ coroutines' = [coroutines EXCEPT ![n].process = i, ![n].hooking = TRUE]
                     /\ tried' = tried \cup {i}
                 /\ processes_being_hooked' =
                        processes_being_hooked \cup {coroutines[n].pid}
                 /\ unset' = unset
<1>1. Set(coroutines[n]) \subseteq unset
  BY DEF Set
<1>. QED
  BY <1>1 DEF Begin

LEMMA BeginBase ==
    ASSUME BaseInv, NEW n \in DOMAIN coroutines, Begin(n)
    PROVE  BaseInv'
<1>1. TypeOK /\ coroutines[n] \in Coroutine
  BY DEF BaseInv, TypeOK
<1>2. CASE /\ coroutines' = RemoveAt(coroutines, n)
           /\ unset' \subseteq unset
           /\ UNCHANGED <<processes_being_hooked, tried>>
  BY <1>1, <1>2, BeginParts, EndBase DEF TypeOK
<1>3. ASSUME NEW i \in Opened(coroutines[n]),
             coroutines' = [coroutines EXCEPT ![n].process = i, ![n].hooking = TRUE],
             tried' = tried \cup {i},
             processes_being_hooked' = processes_being_hooked \cup {coroutines[n].pid},
             unset' = unset
      PROVE  BaseInv'
  <2>1. i \in Process /\ PidOf[i] = coroutines[n].pid
    BY <1>3, OpenedFacts
  <2>2. /\ coroutines' \in Seq(Coroutine)
        /\ DOMAIN coroutines' = DOMAIN coroutines
        /\ \A k \in DOMAIN coroutines \ {n} : coroutines'[k] = coroutines[k]
        /\ coroutines'[n].process = i
        /\ coroutines'[n].hooking = TRUE
        /\ coroutines'[n].pid = coroutines[n].pid
    BY <1>3, <2>1, BegunCoroutines
  <2>3. UNCHANGED <<mode, windows_vars, start_vars, monitor_vars, hooked_processes, threw>>
    BY BeginParts
  <2>4. coroutines[n].pid \in Pid
    BY <1>1 DEF Coroutine
  <2>5. TypeOK'
    BY <1>1, <1>3, <2>1, <2>2, <2>3, <2>4 DEF TypeOK, windows_vars, start_vars, monitor_vars
  <2>6. CoroutinesInv'
    BY <1>3, <2>1, <2>2 DEF BaseInv, CoroutinesInv
  <2>. QED
    BY <2>5, <2>6 DEF BaseInv
<1>. QED
  BY <1>2, <1>3, BeginParts

LEMMA FinishBase ==
    ASSUME BaseInv, NEW n \in DOMAIN coroutines, Finish(n)
    PROVE  BaseInv'
<1>1. coroutines[n] \in Coroutine /\ TypeOK
  BY DEF BaseInv, TypeOK
<1>2. /\ coroutines' = RemoveAt(coroutines, n)
      /\ UNCHANGED <<mode, windows_vars, start_vars, monitor_vars, tried, threw>>
      /\ unset' \subseteq unset
      /\ hooked_processes' = hooked_processes \cup {coroutines[n].pid}
      /\ processes_being_hooked' \subseteq processes_being_hooked
  BY DEF Finish, Set
<1>3. hooked_processes' \subseteq Pid /\ processes_being_hooked' \subseteq Pid
      /\ threw' \subseteq tried
  BY <1>1, <1>2 DEF TypeOK, Coroutine
<1>. QED
  BY <1>2, <1>3, EndBase

LEMMA ThrowBase ==
    ASSUME BaseInv, NEW n \in DOMAIN coroutines, Throw(n)
    PROVE  BaseInv'
<1>1. coroutines[n] \in Coroutine /\ TypeOK
  BY DEF BaseInv, TypeOK
<1>2. coroutines[n].process \in tried
  BY DEF BaseInv, CoroutinesInv, Throw
<1>3. /\ coroutines' = RemoveAt(coroutines, n)
      /\ UNCHANGED <<mode, windows_vars, start_vars, unset, monitor_vars, tried,
                     hooked_processes>>
      /\ threw' = threw \cup {coroutines[n].process}
      /\ processes_being_hooked' \subseteq processes_being_hooked
  BY DEF Throw
<1>4. hooked_processes' \subseteq Pid /\ processes_being_hooked' \subseteq Pid
      /\ threw' \subseteq tried
  BY <1>1, <1>2, <1>3 DEF TypeOK
<1>. QED
  BY <1>3, <1>4, EndBase

LEMMA StutterBase ==
    ASSUME BaseInv, UNCHANGED vars
    PROVE  BaseInv'
BY DEF BaseInv, TypeOK, CoroutinesInv, vars, windows_vars, start_vars, monitor_vars, hook_vars

LEMMA NextBase ==
    ASSUME BaseInv, [Next]_vars
    PROVE  BaseInv'
BY StartBase, MonitorBase, ProcessBase, BeginBase, FinishBase, ThrowBase, StutterBase
   DEF Next, Resume

\* The variables have their types in every reachable state: start waits only for
\* processes it has handles of, and only a process that was tried can have made
\* its hooking throw.
THEOREM TypeCorrect == Spec => []TypeOK
<1>1. Init => BaseInv
  BY InitBase
<1>2. BaseInv /\ [Next]_vars => BaseInv'
  BY NextBase
<1>3. BaseInv => TypeOK
  BY DEF BaseInv
<1>. QED
  BY <1>1, <1>2, <1>3, PTL DEF Spec

------------------------------------------------------------------------------
(* An id names one process among those that run or are held.                  *)

Known == Listed \cup Held

\* A process comes to be known by its birth only.
LEMMA KnownProcesses ==
    ASSUME BaseInv, Next, NEW j \in Process, j \in Known'
    PROVE  j \in Known \/ Birth(j)
<1>0. TypeOK /\ coroutines \in Seq(Coroutine)
  BY DEF BaseInv, TypeOK
<1>1. ASSUME life' = life, running_processes' \subseteq running_processes,
             \A k \in DOMAIN coroutines' :
                \/ coroutines'[k].process \notin Process
                \/ coroutines'[k].process \in Known
      PROVE  j \in Known
  BY <1>1 DEF Known, Held, Listed, ToSet
<1>2. \A k \in DOMAIN coroutines : coroutines[k].process \in Known
  BY DEF Known, Held, ToSet
<1>3. CASE Initialize \/ Started
  BY <1>1, <1>2, <1>3 DEF Initialize, Started, windows_vars
<1>4. CASE hook_running_processes
  <2>1. life' = life /\ running_processes' = Openable
    BY <1>4 DEF hook_running_processes, windows_vars
  <2>2. ASSUME NEW k \in DOMAIN coroutines' PROVE coroutines'[k].process \in Known
    <3>1. CASE k \in DOMAIN coroutines
      BY <1>0, <1>2, <1>4, <3>1, StartAdds
    <3>2. CASE k \notin DOMAIN coroutines
      <4>1. coroutines'[k] \in StartCoroutines
        BY <1>0, <1>4, <3>2, StartAdds
      <4>. QED
        BY <4>1, OpenableType DEF StartCoroutines, Known
    <3>. QED
      BY <3>1, <3>2
  <2>. QED
    BY <2>1, <2>2, OpenableType DEF Known, Held, Listed, ToSet
<1>5. CASE FirstList \/ Wake \/ Compare \/ Reported \/ \E k \in destroyed : OnProcessDestroyed(k)
  BY <1>1, <1>2, <1>5
     DEF FirstList, Wake, Compare, Reported, OnProcessDestroyed, windows_vars, start_vars
<1>6. ASSUME NEW k \in created, OnProcessCreated(k)
      PROVE  j \in Known
  <2>1. life' = life /\ running_processes' = running_processes
    BY <1>6 DEF OnProcessCreated, windows_vars, start_vars
  <2>2. \A m \in DOMAIN coroutines' :
          \/ coroutines'[m].process \notin Process
          \/ coroutines'[m].process \in Known
    BY <1>0, <1>2, <1>6, CreatedAdds, TrackingAssumption
  <2>. QED
    BY <1>1, <2>1, <2>2
<1>7. ASSUME NEW n \in DOMAIN coroutines, Begin(n) \/ Finish(n) \/ Throw(n)
      PROVE  j \in Known
  <2>1. life' = life /\ running_processes' = running_processes
    BY <1>7, BeginParts DEF Finish, Throw, windows_vars, start_vars
  <2>2. CASE coroutines' = RemoveAt(coroutines, n)
    <3>1. \A m \in DOMAIN coroutines' :
            Before(m, n) \in DOMAIN coroutines /\ coroutines'[m] = coroutines[Before(m, n)]
      BY <1>0, <2>2, Removed
    <3>2. \A m \in DOMAIN coroutines' : coroutines'[m].process \in Known
      BY <1>2, <3>1
    <3>. QED
      BY <1>1, <2>1, <3>2
  <2>3. ASSUME NEW i \in Opened(coroutines[n]),
               coroutines' = [coroutines EXCEPT ![n].process = i, ![n].hooking = TRUE]
        PROVE  j \in Known
    <3>1. i \in Process /\ i \in Known
      BY OpenedFacts DEF Known
    <3>2. /\ DOMAIN coroutines' = DOMAIN coroutines
          /\ \A k \in DOMAIN coroutines \ {n} : coroutines'[k] = coroutines[k]
          /\ coroutines'[n].process = i
      BY <2>3, <3>1, BegunCoroutines
    <3>3. \A m \in DOMAIN coroutines' : coroutines'[m].process \in Known
      BY <1>2, <3>1, <3>2
    <3>. QED
      BY <1>1, <2>1, <3>3
  <2>4. CASE Begin(n)
    BY <2>2, <2>3, <2>4, BeginParts
  <2>5. CASE Finish(n) \/ Throw(n)
    BY <2>2, <2>5 DEF Finish, Throw
  <2>. QED
    BY <1>7, <2>4, <2>5
<1>8. ASSUME NEW i \in Process, Exit(i) \/ Vanish(i) \/ Birth(i)
      PROVE  j \in Known \/ Birth(j)
  <2>1. Held' = Held
    BY <1>8 DEF Exit, Vanish, Birth, start_vars, Held
  <2>2. CASE j = i /\ Birth(i)
    BY <2>2
  <2>3. CASE j # i \/ ~Birth(i)
    <3>1. j \in Listed' => j \in Listed
      BY <1>0, <1>8, <2>3 DEF Exit, Vanish, Birth, Listed, TypeOK
    <3>. QED
      BY <2>1, <3>1 DEF Known
  <2>. QED
    BY <2>2, <2>3
<1>. QED
  BY <1>3, <1>4, <1>5, <1>6, <1>7, <1>8 DEF Next, Start, Monitor, Resume

LEMMA UniqueStep ==
    ASSUME BaseInv, UniqueInv, [Next]_vars
    PROVE  UniqueInv'
<1>1. CASE UNCHANGED vars
  <2>1. Listed' = Listed /\ Held' = Held
    BY <1>1 DEF vars, windows_vars, start_vars, Listed, Held
  <2>. QED
    BY <2>1 DEF UniqueInv
<1>2. ASSUME Next, NEW i \in Process, NEW j \in Process, i \in Known', j \in Known',
             PidOf[i] = PidOf[j], i # j
      PROVE  FALSE
  <2>1. ASSUME NEW a \in Process, NEW b \in Process, a # b, PidOf[a] = PidOf[b],
               Birth(a), b \in Known'
        PROVE  FALSE
    <3>1. b \notin Known
      BY <2>1 DEF Birth, Known
    <3>2. Held' = Held /\ (b \in Listed' => b \in Listed)
      BY <2>1 DEF Birth, Held, Listed, start_vars, BaseInv, TypeOK
    <3>. QED
      BY <2>1, <3>1, <3>2 DEF Known
  <2>2. i \in Known /\ j \in Known
    BY <1>2, <2>1, KnownProcesses
  <2>. QED
    BY <1>2, <2>2 DEF UniqueInv, Known
<1>. QED
  BY <1>1, <1>2 DEF UniqueInv, Known

LEMMA InitUnique ==
    ASSUME Init
    PROVE  UniqueInv
<1>1. Listed = AtStart /\ Held = {}
  BY TrackingAssumption DEF Init, Listed, Held, ToSet
<1>. QED
  BY <1>1, TrackingAssumption DEF UniqueInv

\* The id by which a process is injected names no other process while the
\* hooking lasts, whatever ends and begins meanwhile: the handle that the
\* coroutine keeps open reserves the id.
THEOREM InjectionCorrect == Spec => []HookingHitsItsProcess
<1>1. Init => BaseInv /\ UniqueInv
  BY InitBase, InitUnique
<1>2. BaseInv /\ UniqueInv /\ [Next]_vars => (BaseInv /\ UniqueInv)'
  BY NextBase, UniqueStep
<1>3. ASSUME BaseInv, UniqueInv, NEW n \in Hooking, NEW i \in Listed,
             PidOf[i] = coroutines[n].pid
      PROVE  i = coroutines[n].process
  <2> DEFINE p == coroutines[n].process
  <2>1. n \in DOMAIN coroutines /\ coroutines[n].hooking
    BY DEF Hooking
  <2>2. p \in Process
    BY <1>3, <2>1 DEF BaseInv, CoroutinesInv, TypeOK
  <2>3. PidOf[p] = coroutines[n].pid /\ p \in Held
    BY <1>3, <2>1, <2>2 DEF BaseInv, CoroutinesInv, Held, ToSet
  <2>. QED
    BY <1>3, <2>2, <2>3, ListedType DEF UniqueInv
<1>4. BaseInv /\ UniqueInv => HookingHitsItsProcess
  BY <1>3 DEF HookingHitsItsProcess
<1>. QED
  BY <1>1, <1>2, <1>4, PTL DEF Spec

------------------------------------------------------------------------------
(* processes_being_hooked holds the ids of the hookings under way.             *)

\* A step that only adds coroutines, none of which hooks yet.
OnlyAdds ==
    /\ DOMAIN coroutines \subseteq DOMAIN coroutines'
    /\ \A n \in DOMAIN coroutines : coroutines'[n] = coroutines[n]
    /\ \A n \in DOMAIN coroutines' \ DOMAIN coroutines : ~coroutines'[n].hooking

LEMMA AddsExact ==
    ASSUME BeingHookedIsExact, OnlyAdds, processes_being_hooked' = processes_being_hooked
    PROVE  BeingHookedIsExact' /\ Hooked' = Hooked
<1>1. Hooking' = Hooking /\ \A n \in Hooking : coroutines'[n] = coroutines[n]
  BY DEF OnlyAdds, Hooking
<1>. QED
  BY <1>1 DEF BeingHookedIsExact, Hooked

\* The end of a coroutine takes its id away, if it was hooking.
LEMMA EndExact ==
    ASSUME BaseInv, BeingHookedIsExact, NEW n \in DOMAIN coroutines,
           coroutines' = RemoveAt(coroutines, n),
           processes_being_hooked' = IF coroutines[n].hooking
                                     THEN processes_being_hooked \ {coroutines[n].pid}
                                     ELSE processes_being_hooked
    PROVE  BeingHookedIsExact' /\ Hooked' \subseteq Hooked
<1>1. coroutines \in Seq(Coroutine)
  BY DEF BaseInv, TypeOK
<1>2. /\ \A k \in DOMAIN coroutines' :
            /\ Before(k, n) \in DOMAIN coroutines
            /\ Before(k, n) # n
            /\ coroutines'[k] = coroutines[Before(k, n)]
      /\ \A m \in DOMAIN coroutines \ {n} : \E k \in DOMAIN coroutines' : Before(k, n) = m
      /\ \A k, m \in DOMAIN coroutines' : Before(k, n) = Before(m, n) => k = m
  BY <1>1, Removed
<1>3. \A k \in Hooking' : /\ Before(k, n) \in Hooking \ {n}
                          /\ coroutines'[k] = coroutines[Before(k, n)]
  BY <1>2 DEF Hooking
<1>4. \A m \in Hooking \ {n} : \E k \in Hooking' : coroutines'[k] = coroutines[m]
  BY <1>2 DEF Hooking
<1>5. {coroutines'[k].pid : k \in Hooking'} = {coroutines[m].pid : m \in Hooking \ {n}}
  BY <1>3, <1>4
<1>6. {coroutines[m].pid : m \in Hooking \ {n}} = processes_being_hooked'
  <2>1. n \in Hooking <=> coroutines[n].hooking
    BY DEF Hooking
  <2>2. CASE n \in Hooking
    <3>1. \A m \in Hooking \ {n} : coroutines[m].pid # coroutines[n].pid
      BY <2>2 DEF BeingHookedIsExact
    <3>. QED
      BY <2>1, <2>2, <3>1 DEF BeingHookedIsExact
  <2>3. CASE n \notin Hooking
    BY <2>1, <2>3 DEF BeingHookedIsExact
  <2>. QED
    BY <2>2, <2>3
<1>7. ASSUME NEW k \in Hooking', NEW m \in Hooking', k # m
      PROVE  coroutines'[k].pid # coroutines'[m].pid
  <2>1. Before(k, n) # Before(m, n)
    BY <1>2, <1>7 DEF Hooking
  <2>. QED
    BY <1>3, <2>1 DEF BeingHookedIsExact
<1>8. Hooked' \subseteq Hooked
  BY <1>3 DEF Hooked
<1>. QED
  BY <1>5, <1>6, <1>7, <1>8 DEF BeingHookedIsExact

\* A coroutine begins to hook a process whose id is not being hooked.
LEMMA BeginExact ==
    ASSUME BaseInv, BeingHookedIsExact, NEW n \in DOMAIN coroutines, ~coroutines[n].hooking,
           NEW i \in Process,
           coroutines[n].pid \notin processes_being_hooked,
           DOMAIN coroutines' = DOMAIN coroutines,
           \A k \in DOMAIN coroutines \ {n} : coroutines'[k] = coroutines[k],
           coroutines'[n].process = i,
           coroutines'[n].hooking = TRUE,
           coroutines'[n].pid = coroutines[n].pid,
           processes_being_hooked' = processes_being_hooked \cup {coroutines[n].pid}
    PROVE  BeingHookedIsExact' /\ Hooked' \subseteq Hooked \cup {i}
<1>1. Hooking' = Hooking \cup {n} /\ n \notin Hooking
  BY DEF Hooking
<1>2. \A k \in Hooking : coroutines'[k] = coroutines[k]
  BY <1>1 DEF Hooking
<1>3. {coroutines'[k].pid : k \in Hooking'} = processes_being_hooked'
  BY <1>1, <1>2 DEF BeingHookedIsExact
<1>4. \A k \in Hooking : coroutines[k].pid # coroutines[n].pid
  BY DEF BeingHookedIsExact
<1>5. \A k, m \in Hooking' : k # m => coroutines'[k].pid # coroutines'[m].pid
  BY <1>1, <1>2, <1>4 DEF BeingHookedIsExact
<1>6. Hooked' \subseteq Hooked \cup {i}
  BY <1>1, <1>2 DEF Hooked
<1>. QED
  BY <1>3, <1>5, <1>6 DEF BeingHookedIsExact

\* Each step keeps the record exact; a process begins to be hooked only when a
\* coroutine finds it and nothing is recorded of its id.
LEMMA ExactStep ==
    ASSUME BaseInv, BeingHookedIsExact, [Next]_vars
    PROVE  /\ BeingHookedIsExact'
           /\ \A i \in Hooked' \ Hooked :
                  \E n \in DOMAIN coroutines : /\ i \in Opened(coroutines[n])
                                               /\ ~passed_over(coroutines[n].pid)
<1>0. TypeOK
  BY DEF BaseInv
<1>1. CASE coroutines' = coroutines /\ processes_being_hooked' = processes_being_hooked
  <2>1. OnlyAdds
    BY <1>1 DEF OnlyAdds
  <2>. QED
    BY <1>1, <2>1, AddsExact
<1>2. CASE hook_running_processes
  <2>1. OnlyAdds
    BY <1>0, <1>2, StartAdds DEF OnlyAdds, StartCoroutines
  <2>2. processes_being_hooked' = processes_being_hooked
    BY <1>2 DEF hook_running_processes, hook_vars
  <2>. QED
    BY <2>1, <2>2, AddsExact
<1>3. ASSUME NEW k \in created, OnProcessCreated(k)
      PROVE  BeingHookedIsExact' /\ Hooked' = Hooked
  <2>1. OnlyAdds
    BY <1>0, <1>3, CreatedAdds DEF OnlyAdds
  <2>2. processes_being_hooked' = processes_being_hooked
    BY <1>3 DEF OnProcessCreated, hook_vars
  <2>. QED
    BY <2>1, <2>2, AddsExact
<1>4. ASSUME NEW n \in DOMAIN coroutines, Begin(n)
      PROVE  /\ BeingHookedIsExact'
             /\ \A i \in Hooked' \ Hooked :
                    i \in Opened(coroutines[n]) /\ ~passed_over(coroutines[n].pid)
  <2>1. CASE coroutines' = RemoveAt(coroutines, n)
             /\ UNCHANGED <<processes_being_hooked, tried>>
    BY <1>4, <2>1, BeginParts, EndExact
  <2>2. ASSUME ~passed_over(coroutines[n].pid), NEW i \in Opened(coroutines[n]),
               coroutines' = [coroutines EXCEPT ![n].process = i, ![n].hooking = TRUE],
               processes_being_hooked' = processes_being_hooked \cup {coroutines[n].pid}
        PROVE  /\ BeingHookedIsExact'
               /\ \A j \in Hooked' \ Hooked :
                      j \in Opened(coroutines[n]) /\ ~passed_over(coroutines[n].pid)
    <3>1. i \in Process
      BY <2>2, OpenedFacts
    <3>2. ~coroutines[n].hooking
      BY <1>4, BeginParts
    <3>3. coroutines[n].pid \notin processes_being_hooked
      BY <2>2 DEF passed_over
    <3>4. /\ DOMAIN coroutines' = DOMAIN coroutines
          /\ \A k \in DOMAIN coroutines \ {n} : coroutines'[k] = coroutines[k]
          /\ coroutines'[n].process = i
          /\ coroutines'[n].hooking = TRUE
          /\ coroutines'[n].pid = coroutines[n].pid
      BY <2>2, <3>1, BegunCoroutines
    <3>5. BeingHookedIsExact' /\ Hooked' \subseteq Hooked \cup {i}
      BY <2>2, <3>1, <3>2, <3>3, <3>4, BeginExact
    <3>. QED
      BY <2>2, <3>5
  <2>. QED
    BY <1>4, <2>1, <2>2, BeginParts
<1>5. ASSUME NEW n \in DOMAIN coroutines, Finish(n) \/ Throw(n)
      PROVE  BeingHookedIsExact' /\ Hooked' \subseteq Hooked
  BY <1>5, EndExact DEF Finish, Throw
<1>6. CASE UNCHANGED vars
  BY <1>1, <1>6 DEF vars, hook_vars
<1>7. CASE Initialize \/ Started \/ FirstList \/ Wake \/ Compare \/ Reported
  BY <1>1, <1>7 DEF Initialize, Started, FirstList, Wake, Compare, Reported, hook_vars
<1>8. ASSUME NEW k \in destroyed, OnProcessDestroyed(k)
      PROVE  coroutines' = coroutines /\ processes_being_hooked' = processes_being_hooked
  BY <1>8 DEF OnProcessDestroyed
<1>9. ASSUME NEW i \in Process, Birth(i) \/ Exit(i) \/ Vanish(i)
      PROVE  coroutines' = coroutines /\ processes_being_hooked' = processes_being_hooked
  BY <1>9 DEF Birth, Exit, Vanish, hook_vars
<1>. QED
  BY <1>1, <1>2, <1>3, <1>4, <1>5, <1>6, <1>7, <1>8, <1>9 DEF Next, Start, Monitor, Resume

LEMMA InitExact ==
    ASSUME Init
    PROVE  BeingHookedIsExact
<1>1. Hooking = {} /\ processes_being_hooked = {}
  BY DEF Init, Hooking
<1>. QED
  BY <1>1 DEF BeingHookedIsExact

\* processes_being_hooked holds the ids of the hookings under way, each of them
\* once, in every interleaving of the coroutines and whatever they throw.
THEOREM BeingHookedCorrect == Spec => []BeingHookedIsExact
<1>1. Init => BaseInv /\ BeingHookedIsExact
  BY InitBase, InitExact
<1>2. BaseInv /\ BeingHookedIsExact /\ [Next]_vars => (BaseInv /\ BeingHookedIsExact)'
  BY NextBase, ExactStep
<1>. QED
  BY <1>1, <1>2, PTL DEF Spec

------------------------------------------------------------------------------
(* Nothing is hooked twice.                                                 *)

\* Whom the service has a handle of was born.
BornInv == \A i \in Process : i \in Known => life[i] # "unborn"

LEMMA LifeGoesOn ==
    ASSUME BaseInv, [Next]_vars
    PROVE  /\ \A i \in Process : life[i] # "unborn" => life'[i] # "unborn"
           /\ \A i \in Process : Reused(i) => Reused(i)'
           /\ \/ life' = life
              \/ \E i \in Process : Birth(i) \/ Exit(i) \/ Vanish(i)
<1>1. \/ life' = life
      \/ \E i \in Process : Birth(i) \/ Exit(i) \/ Vanish(i)
  BY BeginParts
     DEF Next, vars, windows_vars, Start, Initialize, hook_running_processes, Started,
         Monitor, FirstList, Wake, Compare, Reported, OnProcessCreated, OnProcessDestroyed,
         Resume, Finish, Throw
<1>2. \A i \in Process : life[i] # "unborn" => life'[i] # "unborn"
  BY <1>1 DEF Birth, Exit, Vanish, BaseInv, TypeOK
<1>3. \A i \in Process : Reused(i) => Reused(i)'
  BY <1>2 DEF Reused
<1>. QED
  BY <1>1, <1>2, <1>3

LEMMA BornStep ==
    ASSUME BaseInv, BornInv, [Next]_vars
    PROVE  BornInv'
<1>1. CASE UNCHANGED vars
  BY <1>1 DEF BornInv, Known, Listed, Held, vars, windows_vars, start_vars
<1>2. ASSUME Next, NEW i \in Process, i \in Known'
      PROVE  life'[i] # "unborn"
  <2>1. CASE i \in Known
    BY <1>2, <2>1, LifeGoesOn DEF BornInv
  <2>2. CASE Birth(i)
    BY <2>2 DEF Birth, BaseInv, TypeOK
  <2>. QED
    BY <1>2, <2>1, <2>2, KnownProcesses
<1>. QED
  BY <1>1, <1>2 DEF BornInv

LEMMA KeysStep ==
    ASSUME BaseInv, KeysInv, [Next]_vars
    PROVE  KeysInv'
<1>0. TypeOK
  BY DEF BaseInv
<1>1. CASE life' = life /\ mode' = mode /\ active' = active /\ destroyed' \subseteq destroyed
  BY <1>1 DEF KeysInv, Listed, Reused
<1>2. CASE FirstList \/ Compare
  <2>1. /\ life' = life /\ mode' = mode
        /\ active' = Keys
        /\ destroyed' \subseteq destroyed \/ destroyed' = active \ Keys
    BY <1>2 DEF FirstList, Compare, windows_vars
  <2>2. Listed' = Listed /\ \A i : Reused(i)' = Reused(i)
    BY <2>1 DEF Listed, Reused
  <2>3. \A i \in Listed : i \in Process /\ life[i] # "unborn"
    BY DEF Listed
  <2>4. CASE mode = "driver"
    BY <2>1, <2>2, <2>3, <2>4 DEF KeysInv, Keys
  <2>5. CASE mode # "driver"
    BY <2>1, <2>2, <2>3, <2>5 DEF KeysInv, Keys, Openable
  <2>. QED
    BY <2>4, <2>5
<1>3. ASSUME NEW i \in Process, Birth(i)
      PROVE  KeysInv'
  <2>1. /\ life[i] = "unborn"
        /\ mode' = mode /\ active' = active /\ destroyed' = destroyed
        /\ Listed' = Listed \cup {i}
    BY <1>0, <1>3 DEF Birth, monitor_vars, Listed, TypeOK
  <2>2. /\ \A j \in Process : life[j] # "unborn" => life'[j] # "unborn"
        /\ \A j \in Process : Reused(j) => Reused(j)'
    BY <1>3, LifeGoesOn DEF Next
  <2>3. Listed \subseteq Process
    BY ListedType
  <2>4. CASE mode = "driver"
    <3>1. ASSUME PidOf[i] \in destroyed PROVE Reused(i)'
      <4>1. PICK j \in Process : PidOf[j] = PidOf[i] /\ life[j] # "unborn"
        BY <2>4, <3>1 DEF KeysInv
      <4>2. j # i /\ life'[j] # "unborn"
        BY <2>1, <2>2, <4>1
      <4>. QED
        BY <4>1, <4>2 DEF Reused
    <3>2. \A k \in active \cup destroyed :
             \E j \in Process : PidOf[j] = k /\ life'[j] # "unborn"
      BY <2>2, <2>4 DEF KeysInv
    <3>3. \A j \in Listed' : PidOf[j] \in destroyed => Reused(j)'
      BY <2>1, <2>2, <2>3, <2>4, <3>1 DEF KeysInv
    <3>. QED
      BY <2>1, <2>4, <3>2, <3>3 DEF KeysInv
  <2>5. CASE mode # "driver"
    <3>1. active \cup destroyed \subseteq Process
      BY <1>0, <2>5 DEF TypeOK
    <3>. QED
      BY <2>1, <2>2, <2>5, <3>1 DEF KeysInv
  <2>. QED
    BY <2>4, <2>5
<1>4. ASSUME NEW i \in Process, Exit(i) \/ Vanish(i)
      PROVE  KeysInv'
  <2>1. /\ mode' = mode /\ active' = active /\ destroyed' = destroyed
        /\ Listed' \subseteq Listed
    BY <1>0, <1>4 DEF Exit, Vanish, monitor_vars, Listed, TypeOK
  <2>2. /\ \A j \in Process : life[j] # "unborn" => life'[j] # "unborn"
        /\ \A j \in Process : Reused(j) => Reused(j)'
    BY <1>4, LifeGoesOn DEF Next
  <2>3. Listed \subseteq Process
    BY ListedType
  <2>4. CASE mode = "driver"
    BY <2>1, <2>2, <2>3, <2>4 DEF KeysInv
  <2>5. CASE mode # "driver"
    <3>1. active \cup destroyed \subseteq Process
      BY <1>0, <2>5 DEF TypeOK
    <3>. QED
      BY <2>1, <2>2, <2>5, <3>1 DEF KeysInv
  <2>. QED
    BY <2>4, <2>5
<1>5. CASE Start \/ Wake \/ Reported \/ UNCHANGED vars
  BY <1>1, <1>5
     DEF Start, Initialize, hook_running_processes, Started, Wake, Reported, vars,
         windows_vars, monitor_vars
<1>6. CASE \/ \E k \in created : OnProcessCreated(k)
           \/ \E k \in destroyed : OnProcessDestroyed(k)
  BY <1>1, <1>6 DEF OnProcessCreated, OnProcessDestroyed, windows_vars
<1>7. CASE Resume
  BY <1>1, <1>7, BeginParts DEF Resume, Finish, Throw, windows_vars, monitor_vars
<1>. QED
  BY <1>2, <1>3, <1>4, <1>5, <1>6, <1>7 DEF Next, Monitor

OnceInv == BaseInv /\ UniqueInv /\ BornInv /\ KeysInv /\ TriedInv

\* The record of an id is only erased, by the report that a process ended, when
\* another process has had the id.
LEMMA DestroyedTried ==
    ASSUME OnceInv, NEW k \in destroyed, OnProcessDestroyed(k)
    PROVE  TriedInv'
<1>0. TypeOK
  BY DEF OnceInv, BaseInv
<1>1. /\ hooked_processes' = hooked_processes \ {PidOfKey(k)}
      /\ UNCHANGED <<mode, life, processes_being_hooked, tried, threw>>
      /\ Listed' = Listed /\ \A i : Reused(i)' = Reused(i)
  BY DEF OnProcessDestroyed, windows_vars, Listed, Reused
<1>2. ASSUME NEW i \in tried, i \in Listed, PidOf[i] = PidOfKey(k)
      PROVE  Reused(i)
  <2>1. CASE mode = "driver"
    BY <1>2, <2>1 DEF PidOfKey, OnceInv, KeysInv
  <2>2. CASE mode # "driver"
    <3>1. k \in Process /\ life[k] # "unborn" /\ i # k /\ PidOf[k] = PidOf[i]
      BY <1>0, <1>2, <2>2 DEF PidOfKey, OnceInv, KeysInv, TypeOK
    <3>. QED
      BY <3>1 DEF Reused
  <2>. QED
    BY <2>1, <2>2
<1>. QED
  BY <1>1, <1>2 DEF OnceInv, TriedInv

LEMMA BeginTried ==
    ASSUME OnceInv, NEW n \in DOMAIN coroutines, Begin(n)
    PROVE  TriedInv'
<1>1. /\ life' = life /\ threw' = threw /\ hooked_processes' = hooked_processes
      /\ Listed' = Listed /\ \A i : Reused(i)' = Reused(i)
  BY BeginParts DEF OnceInv, windows_vars, Listed, Reused
<1>2. CASE UNCHANGED <<processes_being_hooked, tried>>
  BY <1>1, <1>2 DEF OnceInv, TriedInv
<1>3. ASSUME NEW i \in Opened(coroutines[n]), tried' = tried \cup {i},
             processes_being_hooked' = processes_being_hooked \cup {coroutines[n].pid}
      PROVE  TriedInv'
  <2>1. i \in Process /\ PidOf[i] = coroutines[n].pid /\ i \in Known
    BY <1>3, OpenedFacts DEF OnceInv, Known
  <2>2. life[i] # "unborn"
    BY <2>1 DEF OnceInv, BornInv
  <2>. QED
    BY <1>1, <1>3, <2>1, <2>2 DEF OnceInv, TriedInv
<1>. QED
  BY <1>2, <1>3, BeginParts DEF OnceInv

\* An exception takes the id out of the record, for the process that it is the
\* id of while the hooking lasts.
LEMMA ThrowTried ==
    ASSUME OnceInv, NEW n \in DOMAIN coroutines, Throw(n)
    PROVE  TriedInv'
<1> DEFINE c == coroutines[n]
<1>0. TypeOK /\ c.hooking /\ c.process \in Process /\ PidOf[c.process] = c.pid
  BY DEF OnceInv, BaseInv, TypeOK, CoroutinesInv, Throw
<1>1. /\ life' = life /\ tried' = tried /\ hooked_processes' = hooked_processes
      /\ threw' = threw \cup {c.process}
      /\ processes_being_hooked' = processes_being_hooked \ {c.pid}
      /\ Listed' = Listed /\ \A i : Reused(i)' = Reused(i)
  BY DEF Throw, windows_vars, Listed, Reused
<1>2. ASSUME NEW i \in tried, i \in Listed, PidOf[i] = c.pid
      PROVE  i = c.process
  <2>1. c.process \in Held
    BY DEF Held, ToSet
  <2>2. i \in Process
    BY ListedType, <1>2
  <2>. QED
    BY <1>0, <1>2, <2>1, <2>2 DEF OnceInv, UniqueInv
<1> HIDE DEF c
<1>. QED
  BY <1>1, <1>2 DEF OnceInv, TriedInv

LEMMA ProcessTried ==
    ASSUME OnceInv, NEW i \in Process, Birth(i) \/ Exit(i) \/ Vanish(i)
    PROVE  TriedInv'
<1>0. TypeOK /\ BaseInv /\ tried \subseteq Process
  BY DEF OnceInv, BaseInv, TypeOK
<1>1. UNCHANGED <<tried, threw, hooked_processes, processes_being_hooked>>
  BY DEF Birth, Exit, Vanish, hook_vars
<1>2. /\ \A j \in Process : life[j] # "unborn" => life'[j] # "unborn"
      /\ \A j \in Process : Reused(j) => Reused(j)'
  BY <1>0, LifeGoesOn DEF Next
<1>3. ASSUME NEW j \in Process, life[j] # "unborn", j \in Listed'
      PROVE  j \in Listed
  BY <1>0, <1>3 DEF Birth, Exit, Vanish, Listed, TypeOK
<1>. QED
  BY <1>0, <1>1, <1>2, <1>3 DEF OnceInv, TriedInv

LEMMA TriedStep ==
    ASSUME OnceInv, [Next]_vars
    PROVE  TriedInv'
<1>1. CASE UNCHANGED <<life, tried, threw, hooked_processes, processes_being_hooked>>
  BY <1>1 DEF OnceInv, TriedInv, Listed, Reused
<1>2. CASE Start \/ FirstList \/ Wake \/ Compare \/ Reported \/ UNCHANGED vars
  BY <1>1, <1>2
     DEF Start, Initialize, hook_running_processes, Started, FirstList, Wake, Compare,
         Reported, vars, windows_vars, hook_vars
<1>3. CASE \E k \in created : OnProcessCreated(k)
  BY <1>1, <1>3 DEF OnProcessCreated, windows_vars, hook_vars
<1>4. ASSUME NEW n \in DOMAIN coroutines, Finish(n)
      PROVE  TriedInv'
  <2>1. /\ UNCHANGED <<life, tried, threw>>
        /\ processes_being_hooked \cup hooked_processes
               \subseteq processes_being_hooked' \cup hooked_processes'
        /\ Listed' = Listed /\ \A i : Reused(i)' = Reused(i)
    BY <1>4 DEF Finish, windows_vars, Listed, Reused
  <2>. QED
    BY <2>1 DEF OnceInv, TriedInv
<1>. QED
  BY <1>2, <1>3, <1>4, DestroyedTried, BeginTried, ThrowTried, ProcessTried
     DEF Next, Monitor, Resume

LEMMA OnceStep ==
    ASSUME OnceInv, [Next]_vars
    PROVE  OnceInv'
BY NextBase, UniqueStep, BornStep, KeysStep, TriedStep DEF OnceInv

LEMMA InitOnce ==
    ASSUME Init
    PROVE  OnceInv
<1>1. Known = AtStart
  BY TrackingAssumption DEF Init, Known, Listed, Held, ToSet
<1>2. BornInv
  BY <1>1 DEF Init, BornInv
<1>3. active = {} /\ destroyed = {} /\ tried = {}
  BY DEF Init
<1>4. KeysInv /\ TriedInv
  BY <1>3 DEF KeysInv, TriedInv
<1>. QED
  BY <1>2, <1>4, InitBase, InitUnique DEF OnceInv

\* No process that exists is hooked twice, although the scan at the start and the
\* monitor may both report it and coroutines interleave, unless its hooking threw
\* or its id served another process, whose end is reported late.
THEOREM HookedOnceCorrect == Spec => HookedOnce
<1> DEFINE Step == \A i \in Hooked' \ Hooked :
                       i \in tried /\ i \in Listed => i \in threw \/ Reused(i)
           IInv == OnceInv /\ BeingHookedIsExact
<1>1. Init => IInv
  BY InitOnce, InitExact
<1>2. IInv /\ [Next]_vars => IInv'
  BY OnceStep, ExactStep DEF OnceInv
<1>3. IInv /\ [Next]_vars => [Step]_vars
  <2> SUFFICES ASSUME IInv, Next, NEW i \in Hooked' \ Hooked, i \in tried, i \in Listed
               PROVE  i \in threw \/ Reused(i)
    OBVIOUS
  <2>1. PICK n \in DOMAIN coroutines : /\ i \in Opened(coroutines[n])
                                       /\ ~passed_over(coroutines[n].pid)
    BY ExactStep DEF OnceInv
  <2>2. PidOf[i] = coroutines[n].pid
    BY <2>1, OpenedFacts DEF OnceInv
  <2>3. PidOf[i] \notin processes_being_hooked \cup hooked_processes
    BY <2>1, <2>2 DEF passed_over
  <2>. QED
    BY <2>3 DEF OnceInv, TriedInv
<1>4. Spec => [][Step]_vars
  BY <1>1, <1>2, <1>3, PTL DEF Spec
<1>. QED
  BY <1>4 DEF HookedOnce

------------------------------------------------------------------------------
(* No process slips through.                                                *)

\* What is recorded of an id is about a process that was tried.
RecordInv ==
    \A pid \in processes_being_hooked \cup hooked_processes :
        \E j \in tried : PidOf[j] = pid

\* The thread that compares lists starts with Initialize, or after start when it
\* polls.
MonitorInv ==
    start = "initialize" \/ (mode # "driver" /\ start # "done") => monitor = "off"

SeenInv == OnceInv /\ RecordInv /\ MonitorInv

LEMMA MonitorStep ==
    ASSUME OnceInv, MonitorInv, [Next]_vars
    PROVE  MonitorInv'
<1>1. CASE UNCHANGED <<mode, start, monitor>>
  BY <1>1 DEF MonitorInv
<1>2. CASE Initialize \/ Started
  BY <1>2 DEF Initialize, Started, MonitorInv
<1>3. CASE hook_running_processes
  BY <1>3 DEF hook_running_processes, MonitorInv, monitor_vars
<1>4. CASE Monitor
  BY <1>4 DEF Monitor, FirstList, Wake, Compare, Reported, OnProcessCreated,
              OnProcessDestroyed, MonitorInv, start_vars
<1>5. CASE Resume
  <2>1. PICK n \in DOMAIN coroutines : Begin(n) \/ Finish(n) \/ Throw(n)
    BY <1>5 DEF Resume
  <2>. QED
    BY <1>1, <2>1, BeginParts DEF Finish, Throw, start_vars, monitor_vars, OnceInv
<1>6. CASE \E i \in Process : Birth(i) \/ Exit(i) \/ Vanish(i)
  BY <1>1, <1>6 DEF Birth, Exit, Vanish, start_vars, monitor_vars
<1>7. CASE UNCHANGED vars
  BY <1>1, <1>7 DEF vars, start_vars, monitor_vars
<1>. QED
  BY <1>2, <1>3, <1>4, <1>5, <1>6, <1>7 DEF Next, Start

LEMMA RecordStep ==
    ASSUME OnceInv, RecordInv, [Next]_vars
    PROVE  RecordInv'
<1>1. CASE /\ processes_being_hooked' \subseteq processes_being_hooked
           /\ hooked_processes' \subseteq hooked_processes
           /\ tried' = tried
  BY <1>1 DEF RecordInv
<1>2. CASE Start \/ FirstList \/ Wake \/ Compare \/ Reported \/ UNCHANGED vars
  BY <1>1, <1>2
     DEF Start, Initialize, hook_running_processes, Started, FirstList, Wake, Compare,
         Reported, vars, hook_vars
<1>3. CASE \/ \E k \in created : OnProcessCreated(k)
           \/ \E k \in destroyed : OnProcessDestroyed(k)
           \/ \E i \in Process : Birth(i) \/ Exit(i) \/ Vanish(i)
           \/ \E n \in DOMAIN coroutines : Throw(n)
  BY <1>1, <1>3
     DEF OnProcessCreated, OnProcessDestroyed, Birth, Exit, Vanish, Throw, hook_vars
<1>4. ASSUME NEW n \in DOMAIN coroutines, Finish(n)
      PROVE  RecordInv'
  <2>1. coroutines[n].process \in tried /\ PidOf[coroutines[n].process] = coroutines[n].pid
    BY <1>4 DEF Finish, OnceInv, BaseInv, CoroutinesInv, TypeOK
  <2>. QED
    BY <1>4, <2>1 DEF Finish, RecordInv
<1>5. ASSUME NEW n \in DOMAIN coroutines, Begin(n)
      PROVE  RecordInv'
  <2>1. hooked_processes' = hooked_processes
    BY <1>5, BeginParts DEF OnceInv
  <2>2. ASSUME NEW i \in Opened(coroutines[n]), tried' = tried \cup {i},
               processes_being_hooked' = processes_being_hooked \cup {coroutines[n].pid}
        PROVE  RecordInv'
    <3>1. PidOf[i] = coroutines[n].pid
      BY <2>2, OpenedFacts DEF OnceInv
    <3>. QED
      BY <2>1, <2>2, <3>1 DEF RecordInv
  <2>. QED
    BY <1>1, <1>5, <2>1, <2>2, BeginParts DEF OnceInv
<1>. QED
  BY <1>2, <1>3, <1>4, <1>5 DEF Next, Monitor, Resume

\* The key by which the monitor knows i.
KeyOf(i) == IF mode = "driver" THEN PidOf[i] ELSE i

\* A coroutine that is scheduled for the id of i, and that a step leaves alone.
LEMMA ScheduledStays ==
    ASSUME NEW i \in Process, OnlyAdds, Scheduled(i)
    PROVE  Scheduled(i)'
BY DEF OnlyAdds, Scheduled

LEMMA ScheduledBesides ==
    ASSUME OnceInv, NEW i \in Process, NEW n \in DOMAIN coroutines,
           coroutines' = RemoveAt(coroutines, n),
           NEW m \in DOMAIN coroutines \ {n}, ~coroutines[m].hooking,
           coroutines[m].pid = PidOf[i]
    PROVE  Scheduled(i)'
<1>1. coroutines \in Seq(Coroutine)
  BY DEF OnceInv, BaseInv, TypeOK
<1>2. PICK k \in DOMAIN coroutines' : Before(k, n) = m
  BY <1>1, Removed
<1>3. coroutines'[k] = coroutines[m]
  BY <1>1, <1>2, Removed
<1>. QED
  BY <1>3 DEF Scheduled

\* When a coroutine looks at the id of a process that runs, the process is tried,
\* or the id served another.
LEMMA BeginSeen ==
    ASSUME OnceInv, RecordInv, NEW n \in DOMAIN coroutines, Begin(n),
           NEW i \in Openable, ~Reused(i), Scheduled(i)
    PROVE  i \in tried' \/ Scheduled(i)'
<1> DEFINE c == coroutines[n]
<1>0. BaseInv /\ i \in Process
  BY ListedType, OpenableType DEF OnceInv
<1>1. PICK m \in DOMAIN coroutines : ~coroutines[m].hooking /\ coroutines[m].pid = PidOf[i]
  BY DEF Scheduled
<1>2. tried \subseteq tried'
  BY <1>0, BeginParts
<1>3. ASSUME NEW j \in Process, PidOf[j] = PidOf[i], life[j] # "unborn"
      PROVE  j = i
  BY <1>3 DEF Reused
<1>4. CASE passed_over(c.pid) /\ m = n
  <2>1. PICK j \in tried : PidOf[j] = PidOf[i]
    BY <1>1, <1>4 DEF passed_over, RecordInv
  <2>2. j = i
    BY <1>0, <1>3, <2>1 DEF OnceInv, TriedInv, BaseInv, TypeOK
  <2>. QED
    BY <1>2, <2>1, <2>2
<1>5. CASE Opened(c) = {} /\ m = n
  BY <1>1, <1>5 DEF Opened
<1>6. CASE coroutines' = RemoveAt(coroutines, n) /\ m # n
  BY <1>0, <1>1, <1>6, ScheduledBesides
<1>7. ASSUME NEW j \in Opened(c), tried' = tried \cup {j},
             coroutines' = [coroutines EXCEPT ![n].process = j, ![n].hooking = TRUE]
      PROVE  i \in tried' \/ Scheduled(i)'
  <2>1. j \in Process /\ PidOf[j] = c.pid /\ j \in Known
    BY <1>0, <1>7, OpenedFacts DEF Known
  <2>2. CASE m = n
    <3>1. life[j] # "unborn"
      BY <2>1 DEF OnceInv, BornInv
    <3>2. j = i
      BY <1>1, <1>3, <2>1, <2>2, <3>1
    <3>. QED
      BY <1>7, <3>2
  <2>3. CASE m # n
    <3>1. m \in DOMAIN coroutines' /\ coroutines'[m] = coroutines[m]
      BY <1>0, <1>7, <2>1, <2>3, BegunCoroutines
    <3>. QED
      BY <1>1, <3>1 DEF Scheduled
  <2>. QED
    BY <2>2, <2>3
<1>. QED
  BY <1>4, <1>5, <1>6, <1>7 DEF Begin

\* A process is born unknown to the monitor, which is woken; or its id served
\* another process; or the monitor has yet to take its first list.
LEMMA BirthSeen ==
    ASSUME OnceInv, NEW i \in Process, Birth(i), start \notin {"initialize", "hook"},
           i \notin in_gap'
    PROVE  Reused(i)' \/ ToBeReported(i)'
<1>0. /\ start \in {"wait", "done"}
      /\ monitor \in {"off", "first", "wait", "compare", "report"}
  BY DEF OnceInv, BaseInv, TypeOK
<1>1. monitor \in {"wait", "compare", "report"}
  BY <1>0 DEF Birth
<1>2. /\ life[i] = "unborn"
      /\ mode' = mode /\ monitor' = monitor /\ active' = active
      /\ mode = "driver" => notified'
  BY DEF Birth, Notify, monitor_vars
<1>3. \A j \in Process : life[j] # "unborn" => life'[j] # "unborn"
  BY LifeGoesOn DEF Next, OnceInv
<1>4. CASE KeyOf(i) \in active
  <2>1. mode = "driver"
    BY <1>2, <1>4 DEF KeyOf, OnceInv, KeysInv
  <2>2. PICK j \in Process : PidOf[j] = PidOf[i] /\ life[j] # "unborn"
    BY <1>4, <2>1 DEF KeyOf, OnceInv, KeysInv
  <2>. QED
    BY <1>2, <1>3, <2>2 DEF Reused
<1>5. CASE KeyOf(i) \notin active
  BY <1>1, <1>2, <1>5 DEF KeyOf, ToBeReported
<1>. QED
  BY <1>4, <1>5

\* The monitor hands a process that it has found to a coroutine, or goes on to
\* find it.
LEMMA MonitorSeen ==
    ASSUME OnceInv, Monitor, NEW i \in Openable, ToBeReported(i)
    PROVE  Scheduled(i)' \/ ToBeReported(i)'
<1>0. BaseInv /\ TypeOK /\ i \in Process
  BY ListedType, OpenableType DEF OnceInv, BaseInv
<1>1. CASE FirstList
  BY <1>1 DEF FirstList, ToBeReported
<1>2. CASE Wake
  BY <1>2 DEF Wake, ToBeReported
<1>3. CASE Compare
  <2>1. KeyOf(i) \in Keys
    BY OpenableType DEF KeyOf, Keys
  <2>2. KeyOf(i) \notin active
    BY <1>3 DEF Compare, ToBeReported, KeyOf
  <2>3. mode' = mode
    BY <1>3 DEF Compare
  <2>. QED
    BY <1>3, <2>1, <2>2, <2>3 DEF Compare, ToBeReported, KeyOf
<1>4. CASE Reported
  BY <1>4 DEF Reported, ToBeReported, windows_vars
<1>5. ASSUME NEW k \in created, OnProcessCreated(k)
      PROVE  Scheduled(i)' \/ ToBeReported(i)'
  <2>1. /\ UNCHANGED <<mode, notified, monitor, active>>
        /\ created' = created \ {k}
    BY <1>5 DEF OnProcessCreated, windows_vars
  <2>2. CASE k = KeyOf(i)
    <3>1. PidOfKey(k) = PidOf[i]
      BY <2>2 DEF KeyOf, PidOfKey
    <3>. QED
      BY <1>0, <1>5, <3>1, CreatedAdds DEF Scheduled
  <2>3. CASE k # KeyOf(i)
    BY <2>1, <2>3 DEF ToBeReported, KeyOf
  <2>. QED
    BY <2>2, <2>3
<1>6. ASSUME NEW k \in destroyed, OnProcessDestroyed(k)
      PROVE  ToBeReported(i)'
  BY <1>6 DEF OnProcessDestroyed, ToBeReported, windows_vars
<1>. QED
  BY <1>1, <1>2, <1>3, <1>4, <1>5, <1>6 DEF Monitor

\* Only the coroutine that looks at the id of a process ends its being scheduled.
LEMMA ScheduledStep ==
    ASSUME OnceInv, RecordInv, [Next]_vars, NEW i \in Openable, ~Reused(i), Scheduled(i)
    PROVE  i \in tried' \/ Scheduled(i)'
<1>0. BaseInv /\ TypeOK /\ i \in Process
  BY ListedType, OpenableType DEF OnceInv, BaseInv
<1>1. CASE coroutines' = coroutines
  BY <1>1 DEF Scheduled
<1>2. CASE hook_running_processes
  <2>1. OnlyAdds
    BY <1>0, <1>2, StartAdds DEF OnlyAdds, StartCoroutines
  <2>. QED
    BY <1>0, <2>1, ScheduledStays
<1>3. CASE \E k \in created : OnProcessCreated(k)
  <2>1. OnlyAdds
    BY <1>0, <1>3, CreatedAdds DEF OnlyAdds
  <2>. QED
    BY <1>0, <2>1, ScheduledStays
<1>4. ASSUME NEW n \in DOMAIN coroutines, Finish(n) \/ Throw(n)
      PROVE  Scheduled(i)'
  <2>1. PICK m \in DOMAIN coroutines :
            ~coroutines[m].hooking /\ coroutines[m].pid = PidOf[i]
    BY DEF Scheduled
  <2>2. m # n /\ coroutines' = RemoveAt(coroutines, n)
    BY <1>4, <2>1 DEF Finish, Throw
  <2>. QED
    BY <1>0, <2>1, <2>2, ScheduledBesides
<1>5. CASE \E n \in DOMAIN coroutines : Begin(n)
  BY <1>5, BeginSeen
<1>6. CASE Initialize \/ Started \/ FirstList \/ Wake \/ Compare \/ Reported \/ UNCHANGED vars
  BY <1>1, <1>6
     DEF Initialize, Started, FirstList, Wake, Compare, Reported, vars
<1>7. CASE \/ \E k \in destroyed : OnProcessDestroyed(k)
           \/ \E j \in Process : Birth(j) \/ Exit(j) \/ Vanish(j)
  BY <1>1, <1>7 DEF OnProcessDestroyed, Birth, Exit, Vanish
<1>. QED
  BY <1>2, <1>3, <1>4, <1>5, <1>6, <1>7 DEF Next, Start, Monitor, Resume

\* Only the monitor ends that it has yet to report a process.
LEMMA ReportStep ==
    ASSUME OnceInv, MonitorInv, [Next]_vars, NEW i \in Openable, ToBeReported(i)
    PROVE  Scheduled(i)' \/ ToBeReported(i)'
<1>0. TypeOK /\ i \in Process
  BY ListedType, OpenableType DEF OnceInv, BaseInv
<1>1. CASE /\ UNCHANGED <<mode, monitor, active, created>>
           /\ notified => notified'
  BY <1>1 DEF ToBeReported
<1>2. CASE Initialize
  BY <1>2 DEF Initialize, ToBeReported, MonitorInv
<1>3. CASE Started
  <2>1. mode # "polling"
    BY <1>3 DEF Started, ToBeReported, MonitorInv
  <2>2. UNCHANGED <<mode, monitor, active, created, notified>>
    BY <1>3, <2>1 DEF Started, windows_vars
  <2>. QED
    BY <1>1, <2>2
<1>4. CASE hook_running_processes \/ UNCHANGED vars
  BY <1>1, <1>4 DEF hook_running_processes, vars, windows_vars, monitor_vars
<1>5. CASE Monitor
  BY <1>5, MonitorSeen
<1>6. CASE Resume
  <2>1. PICK n \in DOMAIN coroutines : Begin(n) \/ Finish(n) \/ Throw(n)
    BY <1>6 DEF Resume
  <2>. QED
    BY <1>1, <2>1, BeginParts DEF Finish, Throw, windows_vars, monitor_vars, OnceInv
<1>7. ASSUME NEW j \in Process, Birth(j) \/ Exit(j) \/ Vanish(j)
      PROVE  Scheduled(i)' \/ ToBeReported(i)'
  <2>1. UNCHANGED <<mode, monitor, active, created>>
    BY <1>7 DEF Birth, Exit, Vanish, monitor_vars
  <2>2. notified => notified'
    BY <1>7, Zenon DEF Birth, Exit, Vanish, Notify
  <2>. QED
    BY <1>1, <2>1, <2>2
<1>. QED
  BY <1>2, <1>3, <1>4, <1>5, <1>6, <1>7 DEF Next, Start

LEMMA OnlyMore ==
    ASSUME BaseInv, [Next]_vars
    PROVE  tried \subseteq tried' /\ in_gap \subseteq in_gap'
<1>1. CASE tried' = tried /\ in_gap' = in_gap
  BY <1>1
<1>2. CASE Start \/ Monitor \/ UNCHANGED vars
  BY <1>1, <1>2
     DEF Start, Initialize, hook_running_processes, Started, Monitor, FirstList, Wake,
         Compare, Reported, OnProcessCreated, OnProcessDestroyed, vars, windows_vars,
         hook_vars
<1>3. CASE \E i \in Process : Birth(i) \/ Exit(i) \/ Vanish(i)
  BY <1>3 DEF Birth, Exit, Vanish, hook_vars
<1>4. ASSUME NEW n \in DOMAIN coroutines, Begin(n) \/ Finish(n) \/ Throw(n)
      PROVE  tried \subseteq tried' /\ in_gap \subseteq in_gap'
  BY <1>4, BeginParts DEF Finish, Throw, windows_vars
<1>. QED
  BY <1>2, <1>3, <1>4 DEF Next, Resume

LEMMA StartGoesOn ==
    ASSUME BaseInv, [Next]_vars, start \in {"initialize", "hook"},
           start' \notin {"initialize", "hook"}
    PROVE  hook_running_processes
<1>1. start' # start
  OBVIOUS
<1>2. ASSUME NEW n \in DOMAIN coroutines, Begin(n) \/ Finish(n) \/ Throw(n)
      PROVE  start' = start
  BY <1>2, BeginParts DEF Finish, Throw, start_vars
<1>3. CASE Start
  BY <1>3 DEF Start, Initialize, Started
<1>. QED
  BY <1>1, <1>2, <1>3
     DEF Next, Resume, Monitor, FirstList, Wake, Compare, Reported, OnProcessCreated,
         OnProcessDestroyed, Birth, Exit, Vanish, vars, start_vars

\* A process runs only since its birth.
LEMMA StillRunning ==
    ASSUME BaseInv, [Next]_vars, NEW i \in Process, life'[i] = "running", ~Birth(i)
    PROVE  life[i] = "running"
<1>1. CASE life' = life
  BY <1>1
<1>2. ASSUME NEW j \in Process, Birth(j) \/ Exit(j) \/ Vanish(j)
      PROVE  life[i] = "running"
  BY <1>2 DEF Birth, Exit, Vanish, BaseInv, TypeOK
<1>. QED
  BY <1>1, <1>2, LifeGoesOn

LEMMA MissStep ==
    ASSUME SeenInv, NoProcessIsMissed, [Next]_vars
    PROVE  NoProcessIsMissed'
<1> SUFFICES ASSUME NEW i \in Process, life'[i] = "running", i \notin tried' \cup in_gap' \cup Protected,
                    ~Reused(i)', start' \notin {"initialize", "hook"},
                    ~Scheduled(i)', ~ToBeReported(i)'
             PROVE  FALSE
  BY DEF NoProcessIsMissed
<1>0. /\ OnceInv /\ RecordInv /\ MonitorInv /\ BaseInv /\ TypeOK
      /\ tried \subseteq tried' /\ in_gap \subseteq in_gap'
  <2>1. OnceInv /\ RecordInv /\ MonitorInv /\ BaseInv /\ TypeOK
    BY DEF SeenInv, OnceInv, BaseInv
  <2>. QED
    BY <2>1, OnlyMore
<1>1. ~Reused(i)
  BY <1>0, LifeGoesOn
<1>2. CASE start \in {"initialize", "hook"} /\ start' # start
  <2>1. hook_running_processes
    BY <1>0, <1>2, StartGoesOn
  <2>2. i \in Openable
    BY <2>1 DEF hook_running_processes, windows_vars, Openable, Listed
  <2>3. [pid |-> PidOf[i], process |-> i, awaited |-> TRUE, hooking |-> FALSE]
            \in StartCoroutines
    BY <2>2 DEF StartCoroutines
  <2>. QED
    BY <1>0, <2>1, <2>3, StartAdds DEF Scheduled
<1>3. CASE start \notin {"initialize", "hook"}
  <2>1. CASE Birth(i)
    BY <1>0, <1>3, <2>1, BirthSeen
  <2>2. CASE ~Birth(i)
    <3>1. life[i] = "running"
      BY <1>0, <2>2, StillRunning
    <3>2. i \in Openable
      BY <3>1 DEF Openable, Listed
    <3>3. Scheduled(i) \/ ToBeReported(i)
      BY <1>0, <1>1, <1>3, <3>1 DEF NoProcessIsMissed
    <3>. QED
      BY <1>0, <1>1, <3>2, <3>3, ScheduledStep, ReportStep
  <2>. QED
    BY <2>1, <2>2
<1>. QED
  BY <1>2, <1>3

\* However births, ends, the event of the driver, the two scans and the coroutines
\* interleave, a process that runs and was not tried is scheduled for a coroutine
\* or will be found by the monitor, which is woken for it: no wake-up is lost.  The
\* exceptions are the processes that cannot be opened, the ids that served twice and
\* the gap between the first looks.
THEOREM NoneMissed == Spec => []NoProcessIsMissed
<1>1. Init => SeenInv /\ NoProcessIsMissed
  <2> SUFFICES ASSUME Init PROVE SeenInv /\ NoProcessIsMissed
    OBVIOUS
  <2>1. RecordInv /\ MonitorInv
    BY DEF Init, RecordInv, MonitorInv
  <2>2. NoProcessIsMissed
    BY DEF Init, NoProcessIsMissed
  <2>. QED
    BY <2>1, <2>2, InitOnce DEF SeenInv
<1>2. SeenInv /\ NoProcessIsMissed /\ [Next]_vars => (SeenInv /\ NoProcessIsMissed)'
  BY OnceStep, RecordStep, MonitorStep, MissStep DEF SeenInv
<1>. QED
  BY <1>1, <1>2, PTL DEF Spec
==============================================================================
