---------------------------- MODULE ServiceProofs ----------------------------
(***************************************************************************)
(* A copy of the service leaves in order, for any number of requests and   *)
(* any capture: with the drain window nobody is sent away, and what the    *)
(* handlers use is closed after them, save for the deadlines and faults    *)
(* that are meant to cut them short.  What is written down on the way is   *)
(* there in the end, or its loss is told.                                  *)
(***************************************************************************)
EXTENDS Service, FiniteSetTheorems, SequenceTheorems, WellFoundedInduction, TLAPS

RequestTypes == request \in [Requests -> [at : RequestStages, via : Listeners]]

\* The values of repeats.
Tallies == [entry : {"none", "fresh", "stale"}, count : Nat, taken : Nat, suppressed : Nat, told : Nat]

RepeatTypes == repeats \in Tallies

CaptureTypes ==
  /\ ch \in [waiting : Seq(Requests), closed : BOOLEAN, dropped : Nat]
  /\ Len(ch.waiting) <= Queue
  /\ disk \in [files : [1..(Keep + 1) -> Seq(Lines)], dead : BOOLEAN, slipped : BOOLEAN]
  /\ \A i \in 1..(Keep + 1) : Len(disk.files[i]) <= MaxLines
  /\ accepted \in Seq(Lines)

MainTypes ==
  /\ settings \in [tls : BOOLEAN, drains : BOOLEAN, unready : BOOLEAN]
  /\ main \in MainStages
  /\ ready \in BOOLEAN /\ routed \in BOOLEAN
  /\ listening \subseteq Listeners
  /\ cut \subseteq {"signal", "deadline", "listener"}

LEMMA Types == TypeOK <=> RequestTypes /\ RepeatTypes /\ CaptureTypes /\ MainTypes
BY DEF TypeOK, RequestTypes, RepeatTypes, CaptureTypes, MainTypes, Tallies

LEMMA Sizes ==
  /\ Queue \in Nat \ {0} /\ Keep \in Nat \ {0} /\ MaxLines \in Nat \ {0}
  /\ Found \subseteq 0..(Keep + 1)
  /\ Requests \subseteq Lines /\ Part \in Lines /\ Part \notin Requests
BY ServiceAssumption DEF Lines, Part

LEMMA Product ==
  ASSUME NEW a \in Nat, NEW b \in Nat, NEW c \in Nat, a <= b
  PROVE  a * c <= b * c
OBVIOUS

LEMMA InitTypes == Init => TypeOK
<1> SUFFICES ASSUME Init PROVE TypeOK
  OBVIOUS
<1>1. RequestTypes
  BY DEF Init, RequestTypes, RequestStages, Listeners
<1>2. RepeatTypes
  BY DEF Init, RepeatTypes, Tallies
<1>3. MainTypes
  BY DEF Init, MainTypes, MainStages, Listeners
<1>4. CaptureTypes
  <2>1. PICK old \in Found :
          /\ disk = [files |-> [i \in 1..(Keep + 1) |->
                       IF i <= old THEN [j \in 1..MaxLines |-> i * MaxLines - j + 1] ELSE <<>>],
                     dead |-> FALSE, slipped |-> FALSE]
          /\ accepted = [j \in 1..(old * MaxLines) |-> old * MaxLines - j + 1]
    BY DEF Init
  <2>2. ASSUME NEW i \in 0..(Keep + 1), NEW n \in Nat, n <= i * MaxLines, NEW j \in 1..n
        PROVE  i * MaxLines - j + 1 \in Lines
    <3> DEFINE top == (Keep + 1) * MaxLines
    <3>1. i \in Nat /\ Keep + 1 \in Nat /\ MaxLines \in Nat /\ i <= Keep + 1
      BY Sizes
    <3>2. i * MaxLines <= top /\ i * MaxLines \in Nat /\ top \in Nat
      BY <3>1, Product
    <3>3. PICK m \in Nat : m = i * MaxLines
      BY <3>2
    <3> HIDE DEF top
    <3>4. m - j + 1 \in 1..top
      BY <2>2, <3>2, <3>3
    <3>5. QED
      BY <3>3, <3>4 DEF Lines, top
  <2>3. \A i \in 1..(Keep + 1) : disk.files[i] \in Seq(Lines) /\ Len(disk.files[i]) <= MaxLines
    <3> SUFFICES ASSUME NEW i \in 1..(Keep + 1)
                 PROVE  disk.files[i] \in Seq(Lines) /\ Len(disk.files[i]) <= MaxLines
      OBVIOUS
    <3>1. CASE i <= old
      <4>1. disk.files[i] = [j \in 1..MaxLines |-> i * MaxLines - j + 1]
        BY <2>1, <3>1
      <4>2. MaxLines <= i * MaxLines
        <5>1. 1 \in Nat /\ i \in Nat /\ 1 <= i /\ MaxLines \in Nat
          BY Sizes
        <5>2. 1 * MaxLines <= i * MaxLines
          BY <5>1, Product
        <5>3. QED
          BY <5>1, <5>2
      <4>3. \A j \in 1..MaxLines : i * MaxLines - j + 1 \in Lines
        <5>1. i \in 0..(Keep + 1) /\ MaxLines \in Nat
          BY Sizes
        <5>2. QED
          BY <5>1, <2>2, <4>2, Zenon
      <4>4. QED
        BY <4>1, <4>3, Sizes
    <3>2. CASE ~ (i <= old)
      <4>1. disk.files[i] = <<>>
        BY <2>1, <3>2
      <4>2. QED
        BY <4>1, Sizes
    <3>3. QED
      BY <3>1, <3>2
  <2>4. accepted \in Seq(Lines)
    <3>1. old \in 0..(Keep + 1) /\ old \in Nat /\ MaxLines \in Nat
      BY Sizes
    <3>2. PICK n \in Nat : n = old * MaxLines
      BY <3>1
    <3>3. \A j \in 1..n : n - j + 1 \in Lines
      <4>1. n <= old * MaxLines
        BY <3>2
      <4>2. \A j \in 1..n : old * MaxLines - j + 1 \in Lines
        BY <2>2, <3>1, <4>1, Zenon
      <4>3. QED
        BY <3>2, <4>2
    <3>4. accepted = [j \in 1..n |-> n - j + 1]
      BY <2>1, <3>2
    <3>5. QED
      BY <3>3, <3>4
  <2>5. disk \in [files : [1..(Keep + 1) -> Seq(Lines)], dead : BOOLEAN, slipped : BOOLEAN]
    <3> DEFINE f == [i \in 1..(Keep + 1) |->
                      IF i <= old THEN [j \in 1..MaxLines |-> i * MaxLines - j + 1] ELSE <<>>]
    <3>1. disk = [files |-> f, dead |-> FALSE, slipped |-> FALSE]
      BY <2>1
    <3>2. \A i \in 1..(Keep + 1) : f[i] \in Seq(Lines)
      BY <2>3, <3>1, Zenon
    <3>3. f \in [1..(Keep + 1) -> Seq(Lines)]
      <4>1. \A i \in 1..(Keep + 1) : (IF i <= old THEN [j \in 1..MaxLines |-> i * MaxLines - j + 1] ELSE <<>>) \in Seq(Lines)
        BY <3>2, Zenon
      <4>2. QED
        BY <4>1, Zenon
    <3> HIDE DEF f
    <3>4. QED
      BY <3>1, <3>3
  <2>6. ch = [waiting |-> <<>>, closed |-> FALSE, dropped |-> 0]
    BY DEF Init
  <2>7. QED
    BY <2>3, <2>4, <2>5, <2>6, Sizes DEF CaptureTypes
<1>5. QED
  BY <1>1, <1>2, <1>3, <1>4, Types

\* What a message and a flush make of them, case by case.
LEMMA SilencedIs ==
  ASSUME NEW rep \in Tallies
  PROVE  /\ Silenced(rep) \in Tallies
         /\ rep.suppressed = rep.told + rep.taken + rep.count =>
              Silenced(rep).suppressed = Silenced(rep).told + Silenced(rep).taken + Silenced(rep).count
<1>1. rep.count \in Nat /\ rep.taken \in Nat /\ rep.suppressed \in Nat /\ rep.told \in Nat /\ rep.entry \in {"none", "fresh", "stale"}
  BY DEF Tallies
<1> DEFINE next == Silenced(rep)
<1>2. CASE rep.entry = "none"
  <2>1. next = [rep EXCEPT !.entry = "fresh"]
    BY <1>2 DEF Silenced
  <2> HIDE DEF next
  <2>2. next \in Tallies /\ next.suppressed = rep.suppressed /\ next.told = rep.told /\ next.taken = rep.taken /\ next.count = rep.count
    BY <2>1 DEF Tallies
  <2>3. QED
    BY <2>2 DEF next
<1>3. CASE rep.entry = "fresh"
  <2>1. next = [rep EXCEPT !.count = @ + 1, !.suppressed = @ + 1]
    BY <1>3 DEF Silenced
  <2> HIDE DEF next
  <2>2. next \in Tallies /\ next.suppressed = rep.suppressed + 1 /\ next.told = rep.told /\ next.taken = rep.taken /\ next.count = rep.count + 1
    <3>1. rep.suppressed + 1 \in Nat /\ rep.count + 1 \in Nat
      BY <1>1
    <3>2. next \in Tallies
      BY <2>1, <3>1 DEF Tallies
    <3>3. QED
      BY <2>1, <3>2 DEF Tallies
  <2>3. QED
    BY <1>1, <2>2 DEF next
<1>4. CASE rep.entry = "stale"
  <2>1. next = [rep EXCEPT !.entry = "fresh", !.count = 0, !.told = @ + rep.count]
    BY <1>4 DEF Silenced
  <2> HIDE DEF next
  <2>2. next \in Tallies /\ next.suppressed = rep.suppressed /\ next.told = rep.told + rep.count /\ next.taken = rep.taken /\ next.count = 0
    <3>1. rep.told + rep.count \in Nat
      BY <1>1
    <3>2. next \in Tallies
      BY <2>1, <3>1 DEF Tallies
    <3>3. QED
      BY <2>1, <3>2 DEF Tallies
  <2>3. QED
    BY <1>1, <2>2 DEF next
<1>5. QED
  BY <1>1, <1>2, <1>3, <1>4

LEMMA FlushedIs ==
  ASSUME NEW rep \in Tallies, rep.taken = 0
  PROVE  /\ Flushed(rep) \in Tallies /\ Flushed(rep).count = 0
         /\ rep.suppressed = rep.told + rep.taken + rep.count =>
              Flushed(rep).suppressed = Flushed(rep).told + Flushed(rep).taken + Flushed(rep).count
<1>1. rep.count \in Nat /\ rep.taken \in Nat /\ rep.suppressed \in Nat /\ rep.told \in Nat
  BY DEF Tallies
<1> DEFINE next == Flushed(rep)
<1>2. CASE rep.count > 0
  <2>1. ~(rep.count = 0)
    BY <1>1, <1>2
  <2>2. next = [rep EXCEPT !.entry = "fresh", !.count = 0, !.taken = rep.count]
    BY <1>2, <2>1 DEF Flushed
  <2> HIDE DEF next
  <2>3. next \in Tallies /\ next.suppressed = rep.suppressed /\ next.told = rep.told /\ next.taken = rep.count /\ next.count = 0
    BY <1>1, <2>2 DEF Tallies
  <2>4. QED
    BY <1>1, <2>3 DEF next
<1>3. CASE rep.count = 0
  <2>1. ~(rep.count > 0)
    BY <1>3
  <2>2. next = [rep EXCEPT !.entry = "none"] \/ next = rep
    BY <1>3, <2>1 DEF Flushed
  <2> HIDE DEF next
  <2>3. next \in Tallies /\ next.suppressed = rep.suppressed /\ next.told = rep.told /\ next.taken = rep.taken /\ next.count = 0
    BY <1>3, <2>2 DEF Tallies
  <2>4. QED
    BY <1>1, <1>3, <2>3 DEF next
<1>4. QED
  BY <1>1, <1>2, <1>3

LEMMA ToldIs ==
  ASSUME NEW rep \in Tallies
  PROVE  /\ Told(rep) \in Tallies /\ Told(rep).count = rep.count /\ Told(rep).taken = 0
         /\ rep.suppressed = rep.told + rep.taken + rep.count =>
              Told(rep).suppressed = Told(rep).told + Told(rep).taken + Told(rep).count
<1>1. rep.count \in Nat /\ rep.taken \in Nat /\ rep.suppressed \in Nat /\ rep.told \in Nat
  BY DEF Tallies
<1> DEFINE next == Told(rep)
<1>2. next = [rep EXCEPT !.told = @ + rep.taken, !.taken = 0]
  BY DEF Told
<1> HIDE DEF next
<1>3. next \in Tallies /\ next.suppressed = rep.suppressed /\ next.told = rep.told + rep.taken /\ next.taken = 0 /\ next.count = rep.count
  <2>1. rep.told + rep.taken \in Nat
    BY <1>1
  <2>2. next \in Tallies
    BY <1>2, <2>1 DEF Tallies
  <2>3. QED
    BY <1>2, <2>2 DEF Tallies
<1>4. QED
  BY <1>1, <1>3 DEF next

\* The two outcomes of a rotation, file by file.
LEMMA ShiftedIs ==
  ASSUME NEW files \in [1..(Keep + 1) -> Seq(Lines)], NEW refused
  PROVE  /\ Shifted(files, refused) \in [1..(Keep + 1) -> Seq(Lines)]
         /\ Rotated(files, refused) \in [1..(Keep + 1) -> Seq(Lines)]
         /\ \A i \in 1..(Keep + 1) :
              /\ Shifted(files, refused)[i] = IF i > 2 /\ i - 1 \notin refused /\ files[i - 1] # <<>> THEN files[i - 1]
                                              ELSE IF i = 1 \/ i \in refused THEN files[i] ELSE <<>>
              /\ Rotated(files, refused)[i] = CASE i = 1 -> <<>> [] i = 2 -> files[1]
                                                [] OTHER -> Shifted(files, refused)[i]
<1> DEFINE f == Shifted(files, refused)
<1>1. f = [i \in 1..(Keep + 1) |-> IF i > 2 /\ i - 1 \notin refused /\ files[i - 1] # <<>> THEN files[i - 1]
                                   ELSE IF i = 1 \/ i \in refused THEN files[i] ELSE <<>>]
  BY DEF Shifted
<1>2. \A i \in 1..(Keep + 1) : /\ i \in Nat /\ i >= 1 /\ files[i] \in Seq(Lines)
                               /\ i > 2 => i - 1 \in 1..(Keep + 1) /\ files[i - 1] \in Seq(Lines)
  <2> SUFFICES ASSUME NEW i \in 1..(Keep + 1)
               PROVE  /\ i \in Nat /\ i >= 1 /\ files[i] \in Seq(Lines)
                      /\ i > 2 => i - 1 \in 1..(Keep + 1) /\ files[i - 1] \in Seq(Lines)
    OBVIOUS
  <2>1. Keep \in Nat /\ i \in Nat /\ i >= 1 /\ (i > 2 => i - 1 \in 1..(Keep + 1))
    BY Sizes
  <2>2. QED
    BY <2>1
<1>3. <<>> \in Seq(Lines)
  OBVIOUS
<1>4. f \in [1..(Keep + 1) -> Seq(Lines)]
  BY <1>1, <1>2, <1>3
<1> HIDE DEF f
<1>5. Rotated(files, refused) = [f EXCEPT ![1] = <<>>, ![2] = files[1]]
  BY DEF Rotated, f
<1>6. 1 \in 1..(Keep + 1) /\ 2 \in 1..(Keep + 1)
  BY Sizes
<1>7. \A i \in 1..(Keep + 1) : Rotated(files, refused)[i] = CASE i = 1 -> <<>> [] i = 2 -> files[1] [] OTHER -> f[i]
  BY <1>4, <1>5
<1>8. Rotated(files, refused) \in [1..(Keep + 1) -> Seq(Lines)]
  BY <1>2, <1>3, <1>4, <1>5, <1>6
<1>9. QED
  BY <1>1, <1>4, <1>7, <1>8 DEF f

\* What a rotation leaves of the disk: the older files have moved, and the current one,
\* too, unless its own renaming has failed.
Moved(d, Turn(_, _), refused) ==
  /\ refused \subseteq 2..(Keep + 1)
  /\ Len(disk.files[1]) = MaxLines
  /\ d = [disk EXCEPT !.files = Turn(disk.files, refused), !.slipped = @ \/ refused # {}]

LEMMA TurnedIs ==
  /\ \A d \in Turned : (d = disk /\ Len(disk.files[1]) # MaxLines) \/ \E refused : Moved(d, Rotated, refused)
  /\ \A d \in HalfTurned : d = disk \/ \E refused : Moved(d, Shifted, refused)
<1>1. ASSUME NEW d \in Turned
      PROVE  (d = disk /\ Len(disk.files[1]) # MaxLines) \/ \E refused : Moved(d, Rotated, refused)
  BY <1>1 DEF Turned, Refusals, Moved
<1>2. ASSUME NEW d \in HalfTurned
      PROVE  d = disk \/ \E refused : Moved(d, Shifted, refused)
  BY <1>2 DEF HalfTurned, Refusals, Moved
<1>3. QED
  BY <1>1, <1>2

Disks == [files : [1..(Keep + 1) -> Seq(Lines)], dead : BOOLEAN, slipped : BOOLEAN]

LEMMA TurnedTyped ==
  ASSUME CaptureTypes, NEW d \in {disk} \cup HalfTurned \cup Turned
  PROVE  /\ d \in Disks /\ d.dead = disk.dead
         /\ \A i \in 1..(Keep + 1) : d.files[i] \in Seq(Lines) /\ Len(d.files[i]) \in Nat /\ Len(d.files[i]) <= MaxLines
         /\ d \in Turned => Len(d.files[1]) < MaxLines
<1>1. /\ disk \in Disks /\ 1 \in 1..(Keep + 1)
      /\ \A i \in 1..(Keep + 1) : disk.files[i] \in Seq(Lines) /\ Len(disk.files[i]) \in Nat /\ Len(disk.files[i]) <= MaxLines
  <2>1. disk \in Disks /\ \A i \in 1..(Keep + 1) : Len(disk.files[i]) <= MaxLines
    BY DEF CaptureTypes, Disks
  <2>2. \A i \in 1..(Keep + 1) : disk.files[i] \in Seq(Lines)
    BY <2>1 DEF Disks
  <2>3. QED
    BY <2>1, <2>2, Sizes
<1>2. CASE d = disk
  <2>1. d \in Turned => Len(d.files[1]) < MaxLines
    <3> SUFFICES ASSUME d \in Turned PROVE Len(d.files[1]) < MaxLines
      OBVIOUS
    <3>1. CASE Len(disk.files[1]) # MaxLines
      BY <1>1, <1>2, <3>1, Sizes
    <3>2. CASE Len(disk.files[1]) = MaxLines
      <4>1. PICK refused : Moved(d, Rotated, refused)
        BY <3>2, TurnedIs
      <4>2. d.files = Rotated(disk.files, refused)
        BY <1>1, <4>1 DEF Moved, Disks
      <4>3. Rotated(disk.files, refused)[1] = <<>>
        BY <1>1, ShiftedIs DEF Disks
      <4>4. Len(<<>>) = 0 /\ 0 < MaxLines
        BY Sizes
      <4>5. QED
        BY <4>2, <4>3, <4>4
    <3>3. QED
      BY <3>1, <3>2
  <2>2. QED
    BY <1>1, <1>2, <2>1
<1>3. CASE d # disk
  <2>1. PICK refused : Moved(d, Shifted, refused) \/ Moved(d, Rotated, refused)
    BY <1>3, TurnedIs
  <2> DEFINE new == d.files
  <2>2. /\ new \in {Shifted(disk.files, refused), Rotated(disk.files, refused)}
        /\ d = [disk EXCEPT !.files = new, !.slipped = @ \/ refused # {}]
    BY <1>1, <2>1 DEF Moved, Disks
  <2>3. disk.files \in [1..(Keep + 1) -> Seq(Lines)]
    BY <1>1 DEF Disks
  <2>4. new \in [1..(Keep + 1) -> Seq(Lines)]
    BY <2>2, <2>3, ShiftedIs
  <2>5. d \in Disks /\ d.dead = disk.dead
    <3> HIDE DEF new
    <3>1. QED
      BY <1>1, <2>2, <2>4 DEF Disks
  <2>6. \A i \in 1..(Keep + 1) : new[i] = <<>> \/ (\E j \in 1..(Keep + 1) : new[i] = disk.files[j])
    <3> SUFFICES ASSUME NEW i \in 1..(Keep + 1)
                 PROVE  new[i] = <<>> \/ (\E j \in 1..(Keep + 1) : new[i] = disk.files[j])
      OBVIOUS
    <3>1. i > 2 => i - 1 \in 1..(Keep + 1)
      BY Sizes
    <3>2. Shifted(disk.files, refused)[i] = <<>> \/ (\E j \in 1..(Keep + 1) : Shifted(disk.files, refused)[i] = disk.files[j])
      <4>1. \/ i > 2 /\ Shifted(disk.files, refused)[i] = disk.files[i - 1]
            \/ Shifted(disk.files, refused)[i] = disk.files[i] \/ Shifted(disk.files, refused)[i] = <<>>
        BY <2>3, ShiftedIs
      <4>2. QED
        BY <3>1, <4>1
    <3>3. \/ Rotated(disk.files, refused)[i] = <<>> \/ Rotated(disk.files, refused)[i] = disk.files[1]
          \/ Rotated(disk.files, refused)[i] = Shifted(disk.files, refused)[i]
      BY <2>3, ShiftedIs
    <3>4. QED
      BY <1>1, <2>2, <3>2, <3>3
  <2>7. \A i \in 1..(Keep + 1) : new[i] \in Seq(Lines) /\ Len(new[i]) \in Nat /\ Len(new[i]) <= MaxLines
    <3> SUFFICES ASSUME NEW i \in 1..(Keep + 1)
                 PROVE  new[i] \in Seq(Lines) /\ Len(new[i]) \in Nat /\ Len(new[i]) <= MaxLines
      OBVIOUS
    <3>1. <<>> \in Seq(Lines) /\ Len(<<>>) = 0 /\ 0 <= MaxLines
      BY Sizes
    <3>2. CASE new[i] = <<>>
      BY <3>1, <3>2
    <3>3. ASSUME NEW j \in 1..(Keep + 1), new[i] = disk.files[j]
          PROVE  new[i] \in Seq(Lines) /\ Len(new[i]) \in Nat /\ Len(new[i]) <= MaxLines
      <4> HIDE DEF new
      <4>1. QED
        BY <1>1, <3>3
    <3>4. QED
      BY <2>6, <3>2, <3>3
  <2>8. d \in Turned => Len(new[1]) < MaxLines
    <3> SUFFICES ASSUME d \in Turned PROVE Len(new[1]) < MaxLines
      OBVIOUS
    <3>1. PICK r : Moved(d, Rotated, r)
      BY <1>3, TurnedIs
    <3>2. new = Rotated(disk.files, r)
      BY <1>1, <3>1 DEF Moved, Disks
    <3>3. Rotated(disk.files, r)[1] = <<>>
      BY <1>1, <2>3, ShiftedIs
    <3>4. Len(<<>>) = 0 /\ 0 < MaxLines
      BY Sizes
    <3>5. QED
      BY <3>2, <3>3, <3>4
  <2>9. QED
    BY <2>5, <2>7, <2>8
<1>4. QED
  BY <1>2, <1>3

\* A line, whole, in part or not at all.
Wrote(d, line) ==
  /\ ~disk.dead /\ ch.waiting # <<>>
  /\ d \in Turned /\ line \in {Head(ch.waiting), Part}
  /\ disk' = [d EXCEPT !.files[1] = Append(@, line), !.dead = ~Outlives(line)]
  /\ accepted' = Append(accepted, line)
  /\ ch' = [ch EXCEPT !.waiting = Tail(@), !.dropped = IF line = Part THEN @ + 1 ELSE @]

Dropped(d) ==
  /\ d \in {disk} \cup HalfTurned \cup Turned
  /\ disk.dead => d = disk
  /\ disk' = [d EXCEPT !.dead = TRUE]
  /\ ch' = [ch EXCEPT !.waiting = Tail(@), !.dropped = @ + 1]
  /\ accepted' = accepted

LEMMA WriteLineIs == WriteLine => (\E d, line : Wrote(d, line)) \/ (\E d : Dropped(d))
<1> SUFFICES ASSUME WriteLine PROVE (\E d, line : Wrote(d, line)) \/ (\E d : Dropped(d))
  OBVIOUS
<1>w. ch.waiting # <<>>
  BY DEF WriteLine
<1>1. CASE /\ ~disk.dead
           /\ \E d \in Turned, line \in {Head(ch.waiting), Part} :
                /\ disk' = [d EXCEPT !.files[1] = Append(@, line), !.dead = ~Outlives(line)]
                /\ accepted' = Append(accepted, line)
                /\ ch' = [ch EXCEPT !.waiting = Tail(@), !.dropped = IF line = Part THEN @ + 1 ELSE @]
  BY <1>w, <1>1, Zenon DEF Wrote
<1>2. CASE /\ \E d \in {disk} \cup IF disk.dead THEN {} ELSE HalfTurned \cup Turned :
                disk' = [d EXCEPT !.dead = TRUE]
           /\ ch' = [ch EXCEPT !.waiting = Tail(@), !.dropped = @ + 1]
           /\ UNCHANGED accepted
  <2>1. PICK d \in {disk} \cup IF disk.dead THEN {} ELSE HalfTurned \cup Turned : disk' = [d EXCEPT !.dead = TRUE]
    BY <1>2
  <2>2. Dropped(d)
    BY <1>2, <2>1 DEF Dropped
  <2>3. QED
    BY <2>2
<1>3. QED
  BY <1>1, <1>2 DEF WriteLine

LEMMA WriteIsTyped ==
  ASSUME CaptureTypes, WriteLine
  PROVE  CaptureTypes'
<1>1. ch \in [waiting : Seq(Requests), closed : BOOLEAN, dropped : Nat] /\ Len(ch.waiting) <= Queue /\ ch.waiting # <<>>
      /\ accepted \in Seq(Lines)
  BY DEF CaptureTypes, WriteLine
<1>2. /\ Head(ch.waiting) \in Requests /\ Tail(ch.waiting) \in Seq(Requests) /\ Len(Tail(ch.waiting)) = Len(ch.waiting) - 1
      /\ Len(ch.waiting) \in Nat /\ Len(Tail(ch.waiting)) <= Queue
  <2>1. /\ Head(ch.waiting) \in Requests /\ Tail(ch.waiting) \in Seq(Requests) /\ Len(Tail(ch.waiting)) = Len(ch.waiting) - 1
        /\ Len(ch.waiting) \in Nat
    BY <1>1
  <2>2. Len(Tail(ch.waiting)) <= Queue
    BY <1>1, <2>1, Sizes
  <2>3. QED
    BY <2>1, <2>2
<1>3. ASSUME ch' \in {[ch EXCEPT !.waiting = Tail(@), !.dropped = @ + 1], [ch EXCEPT !.waiting = Tail(@), !.dropped = @]}
      PROVE  ch' \in [waiting : Seq(Requests), closed : BOOLEAN, dropped : Nat] /\ Len(ch'.waiting) <= Queue
  <2>1. ch.dropped + 1 \in Nat /\ ch.dropped \in Nat
    BY <1>1
  <2>2. CASE ch' = [ch EXCEPT !.waiting = Tail(@), !.dropped = @ + 1]
    BY <1>1, <1>2, <2>1, <2>2
  <2>3. CASE ch' = [ch EXCEPT !.waiting = Tail(@), !.dropped = @]
    BY <1>1, <1>2, <2>1, <2>3
  <2>4. QED
    BY <1>3, <2>2, <2>3
<1>4. ASSUME NEW d, NEW line, Wrote(d, line)
      PROVE  CaptureTypes'
  <2>1. /\ d \in Disks
        /\ \A i \in 1..(Keep + 1) : d.files[i] \in Seq(Lines) /\ Len(d.files[i]) \in Nat /\ Len(d.files[i]) <= MaxLines
        /\ Len(d.files[1]) < MaxLines
    BY <1>4, TurnedTyped DEF Wrote
  <2>2. line \in Lines /\ 1 \in 1..(Keep + 1)
    BY <1>2, <1>4, Sizes DEF Wrote
  <2> DEFINE new == [d.files EXCEPT ![1] = Append(@, line)]
  <2>3. d.files[1] \in Seq(Lines) /\ Append(d.files[1], line) \in Seq(Lines) /\ Len(Append(d.files[1], line)) = Len(d.files[1]) + 1
    BY <2>1, <2>2
  <2>4. Len(d.files[1]) + 1 <= MaxLines
    BY <2>1, <2>2, Sizes
  <2>5. d.files \in [1..(Keep + 1) -> Seq(Lines)]
    BY <2>1 DEF Disks
  <2>6. new \in [1..(Keep + 1) -> Seq(Lines)] /\ \A i \in 1..(Keep + 1) : Len(new[i]) <= MaxLines
    BY <2>1, <2>2, <2>3, <2>4, <2>5
  <2>7. disk' = [d EXCEPT !.files = new, !.dead = ~Outlives(line)] /\ Outlives(line) \in BOOLEAN
    BY <1>4 DEF Wrote, Outlives
  <2> HIDE DEF new
  <2>8. disk' \in Disks /\ disk'.files = new
    BY <2>1, <2>6, <2>7 DEF Disks
  <2>9. accepted' \in Seq(Lines)
    BY <1>1, <1>4, <2>2 DEF Wrote
  <2>10. ch' \in {[ch EXCEPT !.waiting = Tail(@), !.dropped = @ + 1], [ch EXCEPT !.waiting = Tail(@), !.dropped = @]}
    BY <1>4 DEF Wrote
  <2>11. QED
    BY <1>3, <2>6, <2>8, <2>9, <2>10 DEF CaptureTypes, Disks
<1>5. ASSUME NEW d, Dropped(d)
      PROVE  CaptureTypes'
  <2>1. /\ d \in Disks
        /\ \A i \in 1..(Keep + 1) : Len(d.files[i]) <= MaxLines
    BY <1>5, TurnedTyped DEF Dropped
  <2>2. disk' \in Disks /\ disk'.files = d.files
    BY <1>5, <2>1 DEF Dropped, Disks
  <2>3. ch' \in {[ch EXCEPT !.waiting = Tail(@), !.dropped = @ + 1], [ch EXCEPT !.waiting = Tail(@), !.dropped = @]}
    BY <1>5 DEF Dropped
  <2>4. accepted' = accepted
    BY <1>5 DEF Dropped
  <2>5. QED
    BY <1>1, <1>3, <2>1, <2>2, <2>3, <2>4 DEF CaptureTypes, Disks
<1>6. QED
  BY <1>4, <1>5, WriteLineIs

LEMMA NextTypes == TypeOK /\ [Next]_vars => TypeOK'
<1> SUFFICES ASSUME RequestTypes, RepeatTypes, CaptureTypes, MainTypes, [Next]_vars PROVE TypeOK'
  BY Types
<1>q. RequestTypes' /\ RepeatTypes' /\ CaptureTypes' /\ MainTypes' => TypeOK'
  BY DEF TypeOK, RequestTypes, RepeatTypes, CaptureTypes, MainTypes, Tallies
<1>r. UNCHANGED request => RequestTypes'
  BY DEF RequestTypes
<1>s. UNCHANGED repeats => RepeatTypes'
  BY DEF RepeatTypes
<1>c. UNCHANGED capture => CaptureTypes'
  BY DEF CaptureTypes, capture
<1>m. UNCHANGED <<settings, main, ready, listening, routed, cut>> => MainTypes'
  BY DEF MainTypes
<1>1. ASSUME NEW r \in Requests, Arrive(r) PROVE TypeOK'
  <2>1. PICK l \in Listeners : request' = [request EXCEPT ![r] = IF l \in listening THEN [at |-> "running", via |-> l] ELSE Over("refused")]
    BY <1>1 DEF Arrive, Listeners
  <2>2. RequestTypes'
    BY <2>1 DEF RequestTypes, RequestStages, Over, Listeners
  <2>3. QED
    BY <1>1, <1>q, <1>s, <1>c, <1>m, <2>2 DEF Arrive
<1>2. ASSUME NEW r \in Requests, Degrade(r) PROVE TypeOK'
  <2>1. RequestTypes'
    BY <1>2 DEF Degrade, RequestTypes, RequestStages
  <2>2. RepeatTypes'
    <3>1. CASE UNCHANGED repeats
      BY <3>1, <1>s
    <3>2. CASE repeats' = Silenced(repeats)
      BY <3>2, SilencedIs DEF RepeatTypes
    <3>3. QED
      BY <1>2, <3>1, <3>2 DEF Degrade
  <2>3. MainTypes'
    BY <1>2 DEF Degrade, MainTypes
  <2>4. QED
    BY <1>2, <1>q, <1>c, <2>1, <2>2, <2>3 DEF Degrade
<1>3. ASSUME NEW r \in Requests, Finish(r) PROVE TypeOK'
  <2>1. RequestTypes'
    BY <1>3 DEF Finish, RequestTypes, RequestStages, Over, Listeners
  <2>2. ch \in [waiting : Seq(Requests), closed : BOOLEAN, dropped : Nat] /\ Len(ch.waiting) <= Queue
    BY DEF CaptureTypes
  <2>3. ch' \in [waiting : Seq(Requests), closed : BOOLEAN, dropped : Nat] /\ Len(ch'.waiting) <= Queue
    <3>1. CASE ch.closed
      BY <1>3, <2>2, <3>1 DEF Finish
    <3>2. CASE ~ch.closed /\ Len(ch.waiting) < Queue
      <4>1. ch' = [ch EXCEPT !.waiting = Append(@, r)]
        BY <1>3, <3>2 DEF Finish
      <4>2. Append(ch.waiting, r) \in Seq(Requests) /\ Len(Append(ch.waiting, r)) = Len(ch.waiting) + 1
        BY <2>2
      <4>3. Len(ch.waiting) \in Nat
        BY <2>2
      <4>4. ch'.waiting = Append(ch.waiting, r)
        BY <2>2, <4>1
      <4>5. Len(ch'.waiting) <= Queue
        BY <3>2, <4>2, <4>3, <4>4, Sizes
      <4>6. QED
        BY <2>2, <4>1, <4>2, <4>5
    <3>3. CASE ~ch.closed /\ ~(Len(ch.waiting) < Queue)
      <4>1. ch' = [ch EXCEPT !.dropped = @ + 1]
        BY <1>3, <3>3 DEF Finish
      <4>2. QED
        BY <2>2, <4>1
    <3>4. QED
      BY <3>1, <3>2, <3>3
  <2>4. CaptureTypes'
    BY <1>3, <2>3 DEF Finish, CaptureTypes
  <2>5. QED
    BY <1>3, <1>q, <1>s, <1>m, <2>1, <2>4 DEF Finish
<1>4. ASSUME Notice PROVE TypeOK'
  <2>1. MainTypes'
    BY <1>4 DEF Notice, MainTypes
  <2>2. QED
    BY <1>4, <1>q, <1>r, <1>s, <1>c, <2>1 DEF Notice
<1>5. ASSUME WriteLine PROVE TypeOK'
  <2>1. CaptureTypes'
    BY <1>5, WriteIsTyped
  <2>2. QED
    BY <1>5, <1>q, <1>r, <1>s, <1>m, <2>1 DEF WriteLine
<1>6. ASSUME WindowPasses PROVE TypeOK'
  <2>1. RepeatTypes'
    BY <1>6 DEF WindowPasses, RepeatTypes, Tallies
  <2>2. QED
    BY <1>6, <1>q, <1>r, <1>c, <1>m, <2>1 DEF WindowPasses
<1>f. /\ repeats.taken = 0 /\ (repeats' = Flushed(repeats) \/ repeats' = Told(Flushed(repeats))) => RepeatTypes'
      /\ repeats' = Told(repeats) => RepeatTypes'
  BY FlushedIs, ToldIs DEF RepeatTypes
<1>7. ASSUME FlushTick \/ FlushTell PROVE TypeOK'
  BY <1>7, <1>f, <1>q, <1>r, <1>c, <1>m DEF FlushTick, FlushTell
<1>8. ASSUME ListenerFails \/ Stop \/ DrainOver PROVE TypeOK'
  <2>1. MainTypes'
    BY <1>8 DEF ListenerFails, Stop, DrainOver, MainTypes, MainGoes, MainStages
  <2>2. QED
    BY <1>8, <1>q, <1>r, <1>s, <1>c, <2>1 DEF ListenerFails, Stop, DrainOver
<1>9. ASSUME Shutdown PROVE TypeOK'
  <2>1. MainTypes'
    BY <1>9 DEF Shutdown, CloseListener, AwaitRequests, MainTypes, MainGoes, MainStages
  <2>2. QED
    BY <1>9, <1>q, <1>r, <1>s, <1>c, <2>1 DEF Shutdown, CloseListener, AwaitRequests
<1>10. ASSUME CloseCapture PROVE TypeOK'
  <2>1. MainTypes'
    BY <1>10 DEF CloseCapture, MainTypes, MainGoes, MainStages
  <2>2. CaptureTypes'
    BY <1>10 DEF CloseCapture, CaptureTypes
  <2>3. QED
    BY <1>10, <1>q, <1>r, <1>s, <2>1, <2>2 DEF CloseCapture
<1>11. ASSUME AwaitCapture \/ CloseStore \/ Exit PROVE TypeOK'
  <2>1. MainTypes'
    BY <1>11 DEF AwaitCapture, CloseStore, Exit, MainTypes, MainGoes, MainStages
  <2>2. QED
    BY <1>11, <1>q, <1>r, <1>s, <1>c, <2>1 DEF AwaitCapture, CloseStore, Exit
<1>12. ASSUME StopLog PROVE TypeOK'
  <2>1. MainTypes'
    BY <1>12 DEF StopLog, MainTypes, MainGoes, MainStages
  <2>2. QED
    BY <1>12, <1>f, <1>q, <1>r, <1>c, <2>1 DEF StopLog
<1>13. ASSUME UNCHANGED vars PROVE TypeOK'
  BY <1>13, <1>q, <1>r, <1>s, <1>c, <1>m DEF vars
<1>14. QED
  BY <1>1, <1>2, <1>3, <1>4, <1>5, <1>6, <1>7, <1>8, <1>9, <1>10, <1>11, <1>12, <1>13 DEF Next, Closing

\* Every variable of the service keeps its type: the capture queue does not exceed
\* its limit, nor a file its size, whatever fails and whoever hangs.
THEOREM ServiceIsTyped == Spec => []TypeOK
BY InitTypes, NextTypes, PTL DEF Spec

-----------------------------------------------------------------------------
(* The order of leaving.                                                    *)

\* Where the main goroutine is once a listener is closed, and once its requests
\* have been waited for.
Closed(l) ==
  IF l = "https" THEN MainStages \ {"serving", "draining", "https"}
  ELSE MainStages \ {"serving", "draining", "https", "awaitHTTPS", "http"}

Awaited(l) == Closed(l) \ {IF l = "https" THEN "awaitHTTPS" ELSE "awaitHTTP"}

\* While the copy serves or drains its listeners are up.
ListenersUp ==
  main \in {"serving", "draining"} => listening = IF settings.tls THEN Listeners ELSE {"http"}

\* The drain window ends when the balancer has noticed.
Unrouted ==
  settings.drains /\ cut \cap {"signal", "listener"} = {} /\ main \notin {"serving", "draining"} => ~routed

ListenersDown == "listener" \notin cut => \A l \in Listeners : main \in Closed(l) => l \notin listening

NobodyLeft == cut = {} => \A l \in Listeners : main \in Awaited(l) => InFlight(l) = {}

\* The channel is closed by the first of the defers.
ClosedLast == ch.closed <=> main \in {"flush", "store", "log", "end", "exit"}

NoPanic == (\E r \in Requests : request[r].at = "panicked") => cut # {}

LeaveInv ==
  /\ TypeOK
  /\ ListenersUp
  /\ Unrouted
  /\ ListenersDown
  /\ NobodyLeft
  /\ ClosedLast
  /\ NoneRefused
  /\ NoPanic

LEMMA LeaveInit == Init => LeaveInv
<1> SUFFICES ASSUME Init PROVE LeaveInv
  OBVIOUS
<1>1. ch.closed = FALSE /\ main = "serving" /\ \A r \in Requests : request[r].at = "none"
  BY DEF Init
<1>2. TypeOK
  BY InitTypes
<1>3. ListenersUp /\ Unrouted /\ ClosedLast /\ NoneRefused /\ NoPanic
  BY <1>1 DEF Init, ListenersUp, Unrouted, ClosedLast, NoneRefused, NoPanic
<1>4. ListenersDown /\ NobodyLeft
  BY <1>1 DEF ListenersDown, NobodyLeft, Closed, Awaited
<1>5. QED
  BY <1>2, <1>3, <1>4 DEF LeaveInv

\* What holds of the listeners and the requests goes on holding when neither the
\* requests nor the main goroutine move.
LEMMA Elsewhere ==
  ASSUME LeaveInv, UNCHANGED <<settings, main, listening, request, cut>>, routed' => routed, ch'.closed = ch.closed
  PROVE  /\ ListenersUp' /\ Unrouted' /\ ListenersDown' /\ NobodyLeft' /\ ClosedLast' /\ NoneRefused' /\ NoPanic'
<1>1. ListenersUp' /\ Unrouted' /\ ListenersDown' /\ ClosedLast'
  BY DEF LeaveInv, ListenersUp, Unrouted, ListenersDown, ClosedLast
<1>2. NobodyLeft' /\ NoneRefused' /\ NoPanic'
  BY DEF LeaveInv, NobodyLeft, NoneRefused, NoPanic, InFlight
<1>3. QED
  BY <1>1, <1>2

LEMMA LeaveNext == LeaveInv /\ [Next]_vars => LeaveInv'
<1> SUFFICES ASSUME LeaveInv, [Next]_vars PROVE LeaveInv'
  OBVIOUS
<1>t. TypeOK /\ TypeOK'
  BY NextTypes DEF LeaveInv
<1>u. MainTypes /\ RequestTypes /\ CaptureTypes
  BY <1>t, Types
<1>q. ListenersUp' /\ Unrouted' /\ ListenersDown' /\ NobodyLeft' /\ ClosedLast' /\ NoneRefused' /\ NoPanic' => LeaveInv'
  BY <1>t DEF LeaveInv
<1>1. ASSUME NEW r \in Requests, Arrive(r) PROVE LeaveInv'
  <2>1. PICK l \in (IF settings.tls THEN Listeners ELSE {"http"}) :
          request' = [request EXCEPT ![r] = IF l \in listening THEN [at |-> "running", via |-> l] ELSE Over("refused")]
    BY <1>1 DEF Arrive
  <2>2. UNCHANGED <<settings, main, ready, listening, routed, cut, capture>> /\ routed /\ l \in Listeners
    BY <1>1, <2>1 DEF Arrive, Listeners
  <2>3. /\ request'[r].at = (IF l \in listening THEN "running" ELSE "refused")
        /\ l \in listening => request'[r].via = l
        /\ \A o \in Requests \ {r} : request'[o] = request[o]
    BY <1>u, <2>1 DEF RequestTypes, Over
  <2>4. ListenersUp' /\ Unrouted' /\ ListenersDown' /\ ClosedLast'
    BY <2>2 DEF LeaveInv, ListenersUp, Unrouted, ListenersDown, ClosedLast, capture
  <2>5. NobodyLeft'
    <3> SUFFICES ASSUME cut = {}, NEW k \in Listeners, main \in Awaited(k) PROVE InFlight(k)' = {}
      BY <2>2 DEF NobodyLeft
    <3>1. InFlight(k) = {} /\ main \in Closed(k)
      BY DEF LeaveInv, NobodyLeft, Awaited
    <3>2. k \notin listening
      BY <3>1 DEF LeaveInv, ListenersDown
    <3>3. ~ (request'[r].at \in {"running", "warned"} /\ request'[r].via = k)
      BY <2>3, <3>2
    <3>4. QED
      BY <2>3, <3>1, <3>3 DEF InFlight
  <2>6. NoneRefused'
    <3>1. l \notin listening => ~settings.drains \/ cut \cap {"signal", "listener"} # {}
      BY <2>1, <2>2 DEF LeaveInv, ListenersUp, Unrouted
    <3>2. QED
      BY <2>2, <2>3, <3>1 DEF LeaveInv, NoneRefused
  <2>7. NoPanic'
    BY <2>2, <2>3 DEF LeaveInv, NoPanic
  <2>8. QED
    BY <1>q, <2>4, <2>5, <2>6, <2>7
<1>2. ASSUME NEW r \in Requests, Degrade(r) PROVE LeaveInv'
  <2>1. request' = [request EXCEPT ![r].at = "warned"] /\ request[r].at = "running"
        /\ UNCHANGED <<settings, main, listening, routed, cut, capture>>
    BY <1>2 DEF Degrade
  <2>2. request'[r].at = "warned" /\ request'[r].via = request[r].via /\ \A o \in Requests \ {r} : request'[o] = request[o]
    BY <1>u, <2>1 DEF RequestTypes
  <2>3. ListenersUp' /\ Unrouted' /\ ListenersDown' /\ ClosedLast'
    BY <2>1 DEF LeaveInv, ListenersUp, Unrouted, ListenersDown, ClosedLast, capture
  <2>4. \A l \in Listeners : InFlight(l)' = InFlight(l)
    BY <2>1, <2>2 DEF InFlight
  <2>5. NobodyLeft'
    BY <2>1, <2>4 DEF LeaveInv, NobodyLeft
  <2>6. NoneRefused' /\ NoPanic'
    BY <2>1, <2>2 DEF LeaveInv, NoneRefused, NoPanic
  <2>7. QED
    BY <1>q, <2>3, <2>5, <2>6
<1>3. ASSUME NEW r \in Requests, Finish(r) PROVE LeaveInv'
  <2>1. /\ request' = [request EXCEPT ![r] = Over(IF ch.closed THEN "panicked" ELSE "done")]
        /\ request[r].at \in {"running", "warned"}
        /\ UNCHANGED <<settings, main, listening, routed, cut>>
    BY <1>3 DEF Finish
  <2>2. request'[r].at = (IF ch.closed THEN "panicked" ELSE "done") /\ \A o \in Requests \ {r} : request'[o] = request[o]
    BY <1>u, <2>1 DEF RequestTypes, Over
  <2>3. ch'.closed = ch.closed
    <3>1. ch \in [waiting : Seq(Requests), closed : BOOLEAN, dropped : Nat]
      BY <1>u DEF CaptureTypes
    <3>2. QED
      BY <1>3, <3>1 DEF Finish
  <2>4. ListenersUp' /\ Unrouted' /\ ListenersDown' /\ ClosedLast'
    BY <2>1, <2>3 DEF LeaveInv, ListenersUp, Unrouted, ListenersDown, ClosedLast
  <2>5. \A l \in Listeners : InFlight(l)' \subseteq InFlight(l)
    BY <2>1, <2>2 DEF InFlight
  <2>6. NobodyLeft'
    BY <2>1, <2>5 DEF LeaveInv, NobodyLeft
  <2>7. ch.closed => cut # {}
    <3> SUFFICES ASSUME ch.closed, cut = {} PROVE FALSE
      OBVIOUS
    <3>1. main \in {"flush", "store", "log", "end", "exit"}
      BY DEF LeaveInv, ClosedLast
    <3>2. request[r].via \in Listeners
      BY <1>u DEF RequestTypes
    <3>3. main \in Awaited(request[r].via)
      BY <3>1, <3>2 DEF Awaited, Closed, MainStages, Listeners
    <3>4. InFlight(request[r].via) = {}
      BY <3>2, <3>3 DEF LeaveInv, NobodyLeft
    <3>5. QED
      BY <2>1, <3>4 DEF InFlight
  <2>8. NoneRefused' /\ NoPanic'
    BY <2>1, <2>2, <2>7 DEF LeaveInv, NoneRefused, NoPanic
  <2>9. QED
    BY <1>q, <2>4, <2>6, <2>8
<1>4. ASSUME Notice \/ WindowPasses \/ FlushTick \/ FlushTell \/ UNCHANGED vars PROVE LeaveInv'
  <2>1. UNCHANGED <<settings, main, listening, request, cut, capture>> /\ (routed' => routed)
    BY <1>4 DEF Notice, WindowPasses, FlushTick, FlushTell, vars
  <2>2. ch'.closed = ch.closed
    BY <2>1 DEF capture
  <2>3. QED
    BY <1>q, <2>1, <2>2, Elsewhere
<1>5. ASSUME WriteLine PROVE LeaveInv'
  <2>1. UNCHANGED <<settings, main, listening, request, cut, routed>>
    BY <1>5 DEF WriteLine
  <2>2. ch'.closed = ch.closed
    <3>1. ch \in [waiting : Seq(Requests), closed : BOOLEAN, dropped : Nat]
      BY <1>u DEF CaptureTypes
    <3>2. PICK n : ch' = [ch EXCEPT !.waiting = Tail(@), !.dropped = n]
      BY <1>5 DEF WriteLine
    <3>3. QED
      BY <3>1, <3>2
  <2>3. QED
    BY <1>q, <2>1, <2>2, Elsewhere
<1>w. ASSUME UNCHANGED <<request, settings>>, cut \subseteq cut' PROVE NoneRefused' /\ NoPanic'
  <2>1. NoPanic'
    BY <1>w DEF LeaveInv, NoPanic
  <2>2. NoneRefused'
    BY <1>w DEF LeaveInv, NoneRefused
  <2>3. QED
    BY <2>1, <2>2
<1>v. UNCHANGED request => \A l \in Listeners : InFlight(l)' = InFlight(l)
  BY DEF InFlight
<1>6. ASSUME ListenerFails PROVE LeaveInv'
  <2>1. main = "serving" /\ main' = "capture" /\ cut' = cut \cup {"listener"}
        /\ UNCHANGED <<settings, ready, routed, request, capture>>
    BY <1>6 DEF ListenerFails, MainGoes
  <2>2. ListenersUp' /\ Unrouted' /\ ListenersDown' /\ NobodyLeft'
    BY <2>1 DEF ListenersUp, Unrouted, ListenersDown, NobodyLeft
  <2>3. ClosedLast'
    BY <2>1 DEF LeaveInv, ClosedLast, capture
  <2>4. QED
    BY <1>q, <1>w, <2>1, <2>2, <2>3
<1>7. ASSUME Stop PROVE LeaveInv'
  <2>1. main = "serving" /\ main' = (IF settings.drains THEN "draining" ELSE "https")
        /\ UNCHANGED <<settings, listening, routed, request, cut, capture>>
    BY <1>7 DEF Stop, MainGoes
  <2>2. ListenersUp' /\ Unrouted' /\ ClosedLast'
    BY <2>1 DEF LeaveInv, ListenersUp, Unrouted, ClosedLast, capture
  <2>3. \A l \in Listeners : main' \notin Closed(l)
    BY <2>1 DEF Closed
  <2>4. ListenersDown' /\ NobodyLeft'
    BY <2>3 DEF ListenersDown, NobodyLeft, Awaited, Closed
  <2>5. QED
    BY <1>q, <1>w, <2>1, <2>2, <2>4
<1>8. ASSUME DrainOver PROVE LeaveInv'
  <2>1. main = "draining" /\ main' = "https" /\ UNCHANGED <<settings, listening, routed, request, capture>>
        /\ cut \subseteq cut' /\ (~routed \/ "signal" \in cut')
    BY <1>8 DEF DrainOver, MainGoes
  <2>2. ListenersUp' /\ Unrouted' /\ ClosedLast'
    BY <2>1 DEF LeaveInv, ListenersUp, Unrouted, ClosedLast, capture
  <2>3. \A l \in Listeners : main' \notin Closed(l)
    BY <2>1 DEF Closed
  <2>4. ListenersDown' /\ NobodyLeft'
    BY <2>3 DEF ListenersDown, NobodyLeft, Awaited, Closed
  <2>5. QED
    BY <1>q, <1>w, <2>1, <2>2, <2>4
<1>9. ASSUME NEW l \in Listeners, NEW stage, NEW waiting, CloseListener(l, stage, waiting),
             <<l, stage, waiting>> \in {<<"https", "https", "awaitHTTPS">>, <<"http", "http", "awaitHTTP">>}
      PROVE  LeaveInv'
  <2>1. main = stage /\ main' = waiting /\ listening' = listening \ {l}
        /\ UNCHANGED <<settings, routed, request, cut, capture>>
    BY <1>9 DEF CloseListener, MainGoes
  <2>2. ListenersUp' /\ Unrouted' /\ ClosedLast'
    BY <1>9, <2>1 DEF LeaveInv, ListenersUp, Unrouted, ClosedLast, capture
  <2>3. \A k \in Listeners : main' \in Closed(k) => k = l \/ main \in Closed(k)
    BY <1>9, <2>1 DEF Closed, Listeners, MainStages
  <2>4. \A k \in Listeners : main' \in Awaited(k) => main \in Awaited(k)
    BY <1>9, <2>1 DEF Closed, Awaited, Listeners, MainStages
  <2>5. ListenersDown'
    BY <2>1, <2>3 DEF LeaveInv, ListenersDown
  <2>6. NobodyLeft'
    BY <1>v, <2>1, <2>4 DEF LeaveInv, NobodyLeft
  <2>7. QED
    BY <1>q, <1>w, <2>1, <2>2, <2>5, <2>6
<1>10. ASSUME NEW l \in Listeners, NEW waiting, NEW next, AwaitRequests(l, waiting, next),
             <<l, waiting, next>> \in {<<"https", "awaitHTTPS", "http">>, <<"http", "awaitHTTP", "capture">>}
      PROVE  LeaveInv'
  <2>1. main = waiting /\ main' = next /\ cut' = (IF InFlight(l) = {} THEN cut ELSE cut \cup {"deadline"})
        /\ UNCHANGED <<settings, listening, routed, request, capture>>
    BY <1>10 DEF AwaitRequests, MainGoes
  <2>2. cut \subseteq cut' /\ (cut' = {} => InFlight(l) = {} /\ cut = {})
        /\ cut' \cap {"signal", "listener"} = cut \cap {"signal", "listener"}
        /\ ("listener" \in cut' <=> "listener" \in cut)
    BY <2>1
  <2>3. ListenersUp' /\ Unrouted' /\ ClosedLast'
    BY <1>10, <2>1, <2>2 DEF LeaveInv, ListenersUp, Unrouted, ClosedLast, capture
  <2>4. \A k \in Listeners : main' \in Closed(k) => main \in Closed(k)
    BY <1>10, <2>1 DEF Closed, Listeners, MainStages
  <2>5. \A k \in Listeners : main' \in Awaited(k) => k = l \/ main \in Awaited(k)
    BY <1>10, <2>1 DEF Closed, Awaited, Listeners, MainStages
  <2>6. ListenersDown'
    BY <2>1, <2>2, <2>4 DEF LeaveInv, ListenersDown
  <2>7. NobodyLeft'
    BY <1>v, <2>1, <2>2, <2>5 DEF LeaveInv, NobodyLeft
  <2>8. QED
    BY <1>q, <1>w, <2>1, <2>2, <2>3, <2>6, <2>7
<1>11. ASSUME CloseCapture \/ AwaitCapture \/ CloseStore \/ StopLog \/ Exit PROVE LeaveInv'
  <2>1. /\ UNCHANGED <<settings, listening, routed, request, cut>>
        /\ main \in {"capture", "flush", "store", "log", "end"}
        /\ main' \in {"flush", "store", "log", "end", "exit"}
    BY <1>11 DEF CloseCapture, AwaitCapture, CloseStore, StopLog, Exit, MainGoes
  <2>2. ListenersUp' /\ Unrouted'
    BY <2>1 DEF LeaveInv, ListenersUp, Unrouted
  <2>3. \A l \in Listeners : main \in Closed(l) /\ main \in Awaited(l)
    BY <2>1 DEF Closed, Awaited, Listeners, MainStages
  <2>4. ListenersDown'
    BY <2>1, <2>3 DEF LeaveInv, ListenersDown
  <2>5. NobodyLeft'
    BY <1>v, <2>1, <2>3 DEF LeaveInv, NobodyLeft
  <2>6. ClosedLast'
    <3>1. CASE CloseCapture
      <4>1. ch \in [waiting : Seq(Requests), closed : BOOLEAN, dropped : Nat]
        BY <1>u DEF CaptureTypes
      <4>2. ch'.closed = TRUE
        BY <3>1, <4>1 DEF CloseCapture
      <4>3. QED
        BY <2>1, <4>2 DEF ClosedLast
    <3>2. CASE AwaitCapture \/ CloseStore \/ StopLog \/ Exit
      <4>1. ch' = ch /\ main # "capture"
        BY <3>2 DEF AwaitCapture, CloseStore, StopLog, Exit, MainGoes, capture
      <4>2. QED
        BY <2>1, <4>1 DEF LeaveInv, ClosedLast
    <3>3. QED
      BY <1>11, <3>1, <3>2
  <2>7. QED
    BY <1>q, <1>w, <2>1, <2>2, <2>4, <2>5, <2>6
<1>12. ASSUME Shutdown PROVE LeaveInv'
  <2>1. "http" \in Listeners /\ "https" \in Listeners
    BY DEF Listeners
  <2>2. QED
    BY <1>9, <1>10, <1>12, <2>1 DEF Shutdown
<1>13. QED
  BY <1>1, <1>2, <1>3, <1>4, <1>5, <1>6, <1>7, <1>8, <1>11, <1>12 DEF Next, Closing

LEMMA AlwaysLeaves == Spec => []LeaveInv
BY LeaveInit, LeaveNext, PTL DEF Spec

\* With the drain window on, nobody the balancer sends is refused, and no handler
\* outlives the capture channel or the store, unless a second signal, the deadline
\* or a failed listener cut the leaving short.
THEOREM CopyLeavesInOrder == Spec => []LeavesInOrder
<1>1. LeaveInv => LeavesInOrder
  <2> SUFFICES ASSUME LeaveInv PROVE LeavesInOrder
    OBVIOUS
  <2>1. ASSUME main \in {"log", "end", "exit"}, cut = {}, NEW l \in Listeners PROVE InFlight(l) = {}
    <3>1. main \in Awaited(l)
      BY <2>1 DEF Awaited, Closed, MainStages, Listeners
    <3>2. QED
      BY <2>1, <3>1 DEF LeaveInv, NobodyLeft
  <2>2. ClosedAfterUse
    BY <2>1 DEF LeaveInv, NoPanic, ClosedAfterUse
  <2>3. QED
    BY <2>2 DEF LeaveInv, LeavesInOrder
<1>2. QED
  BY <1>1, AlwaysLeaves, PTL

-----------------------------------------------------------------------------
(* Nothing is lost untold: the records of the capture and the repeats.      *)

Done == {r \in Requests : request[r].at = "done"}

Written == {r \in Requests : \E i \in DOMAIN accepted : accepted[i] = r}

\* A record that is done waits in the queue, is in the file or was dropped; the
\* queue has nothing twice, nor anything that is written already.
Conserved == Cardinality(Done) = ch.dropped + Len(ch.waiting) + Cardinality(Written)

WaitingOnce ==
  /\ \A i \in 1..Len(ch.waiting) : ch.waiting[i] \in Done /\ ch.waiting[i] \notin Written
  /\ \A i, j \in 1..Len(ch.waiting) : ch.waiting[i] = ch.waiting[j] => i = j

WrittenAreDone == Written \subseteq Done

\* The store is closed after the queue has been written out.
Emptied == main \in {"store", "log", "end", "exit"} => ch.waiting = <<>>

CaptureInv == LeaveInv /\ Conserved /\ WaitingOnce /\ WrittenAreDone /\ Emptied

LEMMA Finite ==
  ASSUME NEW S, S \subseteq Requests
  PROVE  IsFiniteSet(S) /\ Cardinality(S) \in Nat
<1>1. IsFiniteSet(S)
  BY ServiceAssumption, FS_Subset
<1>2. QED
  BY <1>1, FS_CardinalityType

LEMMA CaptureInit == Init => CaptureInv
<1> SUFFICES ASSUME Init PROVE CaptureInv
  OBVIOUS
<1>1. Done = {}
  BY DEF Init, Done
<1>2. Written = {}
  <2>1. PICK old \in Found : accepted = [j \in 1..(old * MaxLines) |-> old * MaxLines - j + 1]
    BY DEF Init
  <2>2. PICK n \in Nat : n = old * MaxLines
    <3>1. old \in Nat /\ MaxLines \in Nat
      BY Sizes
    <3>2. old * MaxLines \in Nat
      BY <3>1
    <3>3. QED
      BY <3>2
  <2>3. \A i \in 1..n : n - i + 1 \in Nat
    OBVIOUS
  <2>4. accepted = [j \in 1..n |-> n - j + 1]
    BY <2>1, <2>2
  <2>5. \A i \in DOMAIN accepted : accepted[i] \in Nat
    BY <2>3, <2>4
  <2>6. QED
    BY <2>5, ServiceAssumption DEF Written
<1>3. ch.waiting = <<>> /\ ch.dropped = 0
  BY DEF Init
<1>4. Len(ch.waiting) = 0
  BY <1>3
<1>5. Conserved
  BY <1>1, <1>2, <1>3, <1>4, FS_EmptySet DEF Conserved
<1>6. WaitingOnce /\ WrittenAreDone /\ Emptied
  BY <1>2, <1>3, <1>4 DEF WaitingOnce, WrittenAreDone, Emptied
<1>7. QED
  BY <1>5, <1>6, LeaveInit DEF CaptureInv

LEMMA FinishKeeps ==
  ASSUME CaptureInv, NEW r \in Requests, Finish(r)
  PROVE  Conserved' /\ WaitingOnce' /\ WrittenAreDone' /\ Emptied'
<1>t. RequestTypes /\ CaptureTypes
  BY Types DEF CaptureInv, LeaveInv
<1>1. /\ request' = [request EXCEPT ![r] = Over(IF ch.closed THEN "panicked" ELSE "done")]
      /\ request[r].at \in {"running", "warned"}
      /\ accepted' = accepted /\ main' = main
  BY DEF Finish
<1>2. request'[r].at = (IF ch.closed THEN "panicked" ELSE "done") /\ \A o \in Requests \ {r} : request'[o] = request[o]
  BY <1>1, <1>t DEF RequestTypes, Over
<1>3. Written' = Written /\ r \notin Done
  BY <1>1 DEF Written, Done
<1>4. Done' = IF ch.closed THEN Done ELSE Done \cup {r}
  BY <1>1, <1>2 DEF Done
<1>5. ch \in [waiting : Seq(Requests), closed : BOOLEAN, dropped : Nat] /\ Len(ch.waiting) \in Nat
  BY <1>t DEF CaptureTypes
<1>6. /\ Cardinality(Done) \in Nat /\ Cardinality(Written) \in Nat
      /\ Cardinality(Done \cup {r}) = Cardinality(Done) + 1
  <2>1. Done \subseteq Requests /\ Written \subseteq Requests
    BY DEF Done, Written
  <2>2. IsFiniteSet(Done)
    BY <2>1, Finite
  <2>3. QED
    BY <1>3, <2>1, <2>2, Finite, FS_AddElement
<1>7. CASE ch.closed
  <2>1. ch' = ch /\ Done' = Done
    BY <1>4, <1>7 DEF Finish
  <2>2. QED
    BY <1>1, <1>3, <2>1 DEF CaptureInv, Conserved, WaitingOnce, WrittenAreDone, Emptied
<1>8. CASE ~ch.closed
  <2>1. Done' = Done \cup {r}
    BY <1>4, <1>8
  <2>2. WrittenAreDone'
    BY <1>3, <2>1 DEF CaptureInv, WrittenAreDone
  <2>3. Emptied'
    BY <1>1, <1>8 DEF CaptureInv, LeaveInv, ClosedLast, Emptied
  <2>4. CASE Len(ch.waiting) < Queue
    <3> DEFINE new == Append(ch.waiting, r)
    <3>1. ch' = [ch EXCEPT !.waiting = new]
      BY <1>8, <2>4 DEF Finish
    <3>2. ch'.waiting = new /\ ch'.dropped = ch.dropped
      BY <1>5, <3>1
    <3>3. /\ Len(new) = Len(ch.waiting) + 1 /\ new[Len(ch.waiting) + 1] = r
          /\ \A i \in 1..Len(ch.waiting) : new[i] = ch.waiting[i]
      BY <1>5
    <3> HIDE DEF new
    <3>4. Conserved'
      <4>1. Cardinality(Done') = Cardinality(Done) + 1 /\ Cardinality(Written') = Cardinality(Written)
        BY <1>3, <1>6, <2>1
      <4>2. Len(ch'.waiting) = Len(ch.waiting) + 1 /\ ch'.dropped = ch.dropped
        BY <3>2, <3>3
      <4>3. Cardinality(Done) = ch.dropped + Len(ch.waiting) + Cardinality(Written)
        BY DEF CaptureInv, Conserved
      <4>4. ch.dropped \in Nat
        BY <1>5
      <4>5. Cardinality(Done') = ch'.dropped + Len(ch'.waiting) + Cardinality(Written')
        BY <1>5, <1>6, <4>1, <4>2, <4>3, <4>4
      <4>6. QED
        BY <4>5 DEF Conserved
    <3>5. \A i \in 1..Len(ch.waiting) : ch.waiting[i] \in Done /\ ch.waiting[i] \notin Written /\ ch.waiting[i] # r
      BY <1>3 DEF CaptureInv, WaitingOnce
    <3>6. r \notin Written
      BY <1>3 DEF CaptureInv, WrittenAreDone
    <3>7. \A i \in 1..Len(new) : i \in 1..Len(ch.waiting) \/ i = Len(ch.waiting) + 1
      BY <1>5, <3>3
    <3>8. \A i \in 1..Len(new) : new[i] \in Done' /\ new[i] \notin Written'
      BY <1>3, <2>1, <3>3, <3>5, <3>6, <3>7
    <3>9. \A i, j \in 1..Len(new) : new[i] = new[j] => i = j
      <4> SUFFICES ASSUME NEW i \in 1..Len(new), NEW j \in 1..Len(new), new[i] = new[j] PROVE i = j
        OBVIOUS
      <4>1. CASE i \in 1..Len(ch.waiting) /\ j \in 1..Len(ch.waiting)
        <5>1. ch.waiting[i] = ch.waiting[j]
          BY <3>3, <4>1
        <5>2. QED
          BY <4>1, <5>1 DEF CaptureInv, WaitingOnce
      <4>2. CASE i = Len(ch.waiting) + 1 /\ j \in 1..Len(ch.waiting)
        BY <3>3, <3>5, <4>2
      <4>3. CASE j = Len(ch.waiting) + 1 /\ i \in 1..Len(ch.waiting)
        BY <3>3, <3>5, <4>3
      <4>4. QED
        BY <3>7, <4>1, <4>2, <4>3
    <3>10. WaitingOnce'
      BY <3>2, <3>8, <3>9 DEF WaitingOnce
    <3>11. QED
      BY <2>2, <2>3, <3>4, <3>10
  <2>5. CASE ~(Len(ch.waiting) < Queue)
    <3>1. ch' = [ch EXCEPT !.dropped = @ + 1]
      BY <1>8, <2>5 DEF Finish
    <3>2. ch'.waiting = ch.waiting /\ ch'.dropped = ch.dropped + 1 /\ ch.dropped \in Nat
      BY <1>5, <3>1
    <3>3. Cardinality(Done') = Cardinality(Done) + 1 /\ Cardinality(Written') = Cardinality(Written)
      BY <1>3, <1>6, <2>1
    <3>4. Cardinality(Done) = ch.dropped + Len(ch.waiting) + Cardinality(Written)
      BY DEF CaptureInv, Conserved
    <3>5. Len(ch'.waiting) = Len(ch.waiting)
      BY <3>2
    <3>6. Cardinality(Done') = ch'.dropped + Len(ch'.waiting) + Cardinality(Written')
      BY <1>5, <1>6, <3>2, <3>3, <3>4, <3>5
    <3>7. WaitingOnce'
      BY <1>3, <2>1, <3>2 DEF CaptureInv, WaitingOnce
    <3>8. QED
      BY <2>2, <2>3, <3>6, <3>7 DEF Conserved
  <2>6. QED
    BY <2>4, <2>5
<1>9. QED
  BY <1>7, <1>8

LEMMA WriteKeeps ==
  ASSUME CaptureInv, WriteLine
  PROVE  Conserved' /\ WaitingOnce' /\ WrittenAreDone' /\ Emptied'
<1> DEFINE line == Head(ch.waiting)
           rest == Tail(ch.waiting)
<1>1. ch.waiting # <<>> /\ UNCHANGED <<request, main>>
  BY DEF WriteLine
<1>2. /\ ch \in [waiting : Seq(Requests), closed : BOOLEAN, dropped : Nat]
      /\ accepted \in Seq(Lines)
  BY Types DEF CaptureInv, LeaveInv, CaptureTypes
<1>3. /\ Len(ch.waiting) \in Nat \ {0} /\ Len(rest) = Len(ch.waiting) - 1
      /\ line = ch.waiting[1] /\ line \in Requests
      /\ \A i \in 1..Len(rest) : rest[i] = ch.waiting[i + 1] /\ i + 1 \in 1..Len(ch.waiting)
      /\ 1 \in 1..Len(ch.waiting)
  BY <1>1, <1>2
<1>4. Done' = Done
  BY <1>1 DEF Done
<1>5. line \in Done /\ line \notin Written
  BY <1>3 DEF CaptureInv, WaitingOnce
<1>6. \A i \in 1..Len(rest) : rest[i] \in Done /\ rest[i] \notin Written /\ rest[i] # line
  <2> SUFFICES ASSUME NEW i \in 1..Len(rest) PROVE rest[i] \in Done /\ rest[i] \notin Written /\ rest[i] # line
    OBVIOUS
  <2>1. rest[i] = ch.waiting[i + 1] /\ i + 1 \in 1..Len(ch.waiting) /\ i + 1 # 1
    BY <1>3
  <2>2. ch.waiting[i + 1] # ch.waiting[1]
    BY <1>3, <2>1 DEF CaptureInv, WaitingOnce
  <2>3. QED
    BY <1>3, <2>1, <2>2 DEF CaptureInv, WaitingOnce
<1>7. \A i, j \in 1..Len(rest) : rest[i] = rest[j] => i = j
  <2> SUFFICES ASSUME NEW i \in 1..Len(rest), NEW j \in 1..Len(rest), rest[i] = rest[j] PROVE i = j
    OBVIOUS
  <2>1. ch.waiting[i + 1] = ch.waiting[j + 1] /\ i + 1 \in 1..Len(ch.waiting) /\ j + 1 \in 1..Len(ch.waiting)
    BY <1>3
  <2>2. i + 1 = j + 1
    BY <2>1 DEF CaptureInv, WaitingOnce
  <2>3. QED
    BY <2>2
<1>8. Emptied'
  BY <1>1 DEF CaptureInv, Emptied
<1>9. /\ Cardinality(Written) \in Nat /\ IsFiniteSet(Written)
      /\ Cardinality(Written \cup {line}) = Cardinality(Written) + 1
  <2>1. Written \subseteq Requests
    BY DEF Written
  <2>2. IsFiniteSet(Written)
    BY <2>1, Finite
  <2>3. QED
    BY <1>5, <2>1, <2>2, Finite, FS_AddElement
<1>10. Cardinality(Done) = ch.dropped + Len(ch.waiting) + Cardinality(Written) /\ Written \subseteq Done
  BY DEF CaptureInv, Conserved, WrittenAreDone
<1>11. ch.dropped \in Nat
  BY <1>2
<1>12. \/ accepted' = Append(accepted, line) /\ ch' = [ch EXCEPT !.waiting = Tail(@), !.dropped = @]
       \/ /\ accepted' = accepted \/ accepted' = Append(accepted, Part)
          /\ ch' = [ch EXCEPT !.waiting = Tail(@), !.dropped = @ + 1]
  <2>1. line # Part
    BY <1>3, Sizes
  <2>2. ASSUME NEW d, NEW l, Wrote(d, l)
        PROVE  \/ accepted' = Append(accepted, line) /\ ch' = [ch EXCEPT !.waiting = Tail(@), !.dropped = @]
               \/ accepted' = Append(accepted, Part) /\ ch' = [ch EXCEPT !.waiting = Tail(@), !.dropped = @ + 1]
    <3>1. CASE l = Part
      BY <2>2, <3>1 DEF Wrote
    <3>2. CASE l # Part
      <4>1. l = line
        BY <2>2, <3>2 DEF Wrote
      <4>2. QED
        BY <2>2, <3>2, <4>1 DEF Wrote
    <3>3. QED
      BY <3>1, <3>2
  <2>3. ASSUME NEW d, Dropped(d)
        PROVE  accepted' = accepted /\ ch' = [ch EXCEPT !.waiting = Tail(@), !.dropped = @ + 1]
    BY <2>3 DEF Dropped
  <2>4. QED
    BY <2>2, <2>3, WriteLineIs
<1>13. CASE accepted' = Append(accepted, line) /\ ch' = [ch EXCEPT !.waiting = Tail(@), !.dropped = @]
  <2>1. ch'.waiting = rest /\ ch'.dropped = ch.dropped
    BY <1>2, <1>13
  <2>2. Written' = Written \cup {line}
    <3>1. Append(accepted, line) \in Seq(Lines \cup {line}) /\ Len(accepted) \in Nat
          /\ Len(Append(accepted, line)) = Len(accepted) + 1
          /\ Append(accepted, line)[Len(accepted) + 1] = line
          /\ \A i \in 1..Len(accepted) : Append(accepted, line)[i] = accepted[i]
          /\ DOMAIN Append(accepted, line) = 1..(Len(accepted) + 1) /\ DOMAIN accepted = 1..Len(accepted)
      BY <1>2
    <3>2. PICK next : next = accepted'
      OBVIOUS
    <3>3. DOMAIN next = 1..(Len(accepted) + 1) /\ next[Len(accepted) + 1] = line
          /\ \A i \in 1..Len(accepted) : next[i] = accepted[i]
      BY <1>13, <3>1, <3>2
    <3>4. 1..(Len(accepted) + 1) = 1..Len(accepted) \cup {Len(accepted) + 1}
      BY <3>1
    <3>5. {r \in Requests : \E i \in DOMAIN next : next[i] = r} = {r \in Requests : \E i \in DOMAIN accepted : accepted[i] = r} \cup {line}
      BY <1>3, <3>1, <3>3, <3>4
    <3>6. QED
      BY <3>2, <3>5 DEF Written
  <2> HIDE DEF line, rest
  <2>3. Cardinality(Done') = ch'.dropped + Len(ch'.waiting) + Cardinality(Written')
    <3>1. Cardinality(Done') = Cardinality(Done) /\ Cardinality(Written') = Cardinality(Written) + 1
      BY <1>4, <1>9, <2>2
    <3>2. Len(ch'.waiting) = Len(ch.waiting) - 1
      BY <1>3, <2>1
    <3>3. PICK n \in Nat, d \in Nat, k \in Nat : n = Len(ch.waiting) /\ d = ch.dropped /\ k = Cardinality(Written)
      BY <1>3, <1>9, <1>11
    <3>4. Cardinality(Done) = d + n + k /\ ch'.dropped = d /\ Len(ch'.waiting) = n - 1 /\ Cardinality(Written') = k + 1
      BY <1>10, <2>1, <3>1, <3>2, <3>3
    <3>5. d + n + k = d + (n - 1) + (k + 1)
      OBVIOUS
    <3>6. QED
      BY <3>1, <3>4, <3>5
  <2>4. WaitingOnce'
    BY <1>4, <1>6, <1>7, <2>1, <2>2 DEF WaitingOnce
  <2>5. WrittenAreDone'
    BY <1>4, <1>5, <1>10, <2>2 DEF WrittenAreDone
  <2>6. QED
    BY <1>8, <2>3, <2>4, <2>5 DEF Conserved
<1>14. CASE /\ accepted' = accepted \/ accepted' = Append(accepted, Part)
            /\ ch' = [ch EXCEPT !.waiting = Tail(@), !.dropped = @ + 1]
  <2>1. ch'.waiting = rest /\ ch'.dropped = ch.dropped + 1
    BY <1>2, <1>11, <1>14
  <2>2. Written' = Written
    <3>1. CASE accepted' = accepted
      BY <3>1 DEF Written
    <3>2. CASE accepted' = Append(accepted, Part)
      <4>1. /\ DOMAIN Append(accepted, Part) = 1..(Len(accepted) + 1) /\ DOMAIN accepted = 1..Len(accepted)
            /\ Append(accepted, Part)[Len(accepted) + 1] = Part /\ Len(accepted) \in Nat
            /\ \A i \in 1..Len(accepted) : Append(accepted, Part)[i] = accepted[i]
        BY <1>2
      <4>2. PICK next : next = accepted'
        OBVIOUS
      <4>3. DOMAIN next = 1..(Len(accepted) + 1) /\ next[Len(accepted) + 1] = Part
            /\ \A i \in 1..Len(accepted) : next[i] = accepted[i]
        BY <3>2, <4>1, <4>2
      <4>4. 1..(Len(accepted) + 1) = 1..Len(accepted) \cup {Len(accepted) + 1}
        BY <4>1
      <4>5. {r \in Requests : \E i \in DOMAIN next : next[i] = r} = {r \in Requests : \E i \in DOMAIN accepted : accepted[i] = r}
        BY <4>1, <4>3, <4>4, Sizes
      <4>6. QED
        BY <4>2, <4>5 DEF Written
    <3>3. QED
      BY <1>14, <3>1, <3>2
  <2> HIDE DEF line, rest
  <2>3. Cardinality(Done') = ch'.dropped + Len(ch'.waiting) + Cardinality(Written')
    <3>1. Cardinality(Done') = Cardinality(Done) /\ Cardinality(Written') = Cardinality(Written)
      BY <1>4, <2>2
    <3>2. Len(ch'.waiting) = Len(ch.waiting) - 1
      BY <1>3, <2>1
    <3>3. QED
      <4>1. PICK n \in Nat, d \in Nat, k \in Nat : n = Len(ch.waiting) /\ d = ch.dropped /\ k = Cardinality(Written)
        BY <1>3, <1>9, <1>11
      <4>2. Cardinality(Done) = d + n + k /\ ch'.dropped = d + 1 /\ Len(ch'.waiting) = n - 1
        BY <1>10, <2>1, <3>2, <4>1
      <4>3. d + n + k = (d + 1) + (n - 1) + k
        OBVIOUS
      <4>4. QED
        BY <3>1, <4>1, <4>2, <4>3
  <2>4. WaitingOnce'
    BY <1>4, <1>6, <1>7, <2>1, <2>2 DEF WaitingOnce
  <2>5. WrittenAreDone'
    BY <1>4, <1>10, <2>2 DEF WrittenAreDone
  <2>6. QED
    BY <1>8, <2>3, <2>4, <2>5 DEF Conserved
<1>15. QED
  BY <1>12, <1>13, <1>14

LEMMA CaptureNext == CaptureInv /\ [Next]_vars => CaptureInv'
<1> SUFFICES ASSUME CaptureInv, [Next]_vars PROVE Conserved' /\ WaitingOnce' /\ WrittenAreDone' /\ Emptied'
  BY LeaveNext DEF CaptureInv
<1>k. ASSUME Done' = Done, accepted' = accepted, ch'.waiting = ch.waiting, ch'.dropped = ch.dropped
      PROVE  Conserved' /\ WaitingOnce' /\ WrittenAreDone'
  <2>1. Written' = Written
    BY <1>k DEF Written
  <2>2. QED
    BY <1>k, <2>1 DEF CaptureInv, Conserved, WaitingOnce, WrittenAreDone
<1>e. ASSUME main' = main, ch'.waiting = ch.waiting PROVE Emptied'
  BY <1>e DEF CaptureInv, Emptied
<1>t. RequestTypes /\ CaptureTypes
  BY Types DEF CaptureInv, LeaveInv
<1>1. ASSUME NEW r \in Requests, Arrive(r) \/ Degrade(r)
      PROVE  Conserved' /\ WaitingOnce' /\ WrittenAreDone' /\ Emptied'
  <2>1. request[r].at # "done" /\ request'[r].at # "done" /\ \A o \in Requests \ {r} : request'[o] = request[o]
    BY <1>1, <1>t DEF Arrive, Degrade, RequestTypes, Over
  <2>2. Done' = Done
    BY <2>1 DEF Done
  <2>3. UNCHANGED <<main, ch, accepted>>
    BY <1>1 DEF Arrive, Degrade, capture
  <2>4. QED
    BY <1>e, <1>k, <2>2, <2>3
<1>2. ASSUME NEW r \in Requests, Finish(r)
      PROVE  Conserved' /\ WaitingOnce' /\ WrittenAreDone' /\ Emptied'
  BY <1>2, FinishKeeps
<1>3. CASE WriteLine
  BY <1>3, WriteKeeps
<1>4. CASE Notice \/ WindowPasses \/ FlushTick \/ FlushTell \/ UNCHANGED vars
  <2>1. UNCHANGED <<main, ch, accepted, request>>
    BY <1>4 DEF Notice, WindowPasses, FlushTick, FlushTell, vars, capture
  <2>2. Done' = Done
    BY <2>1 DEF Done
  <2>3. QED
    BY <1>e, <1>k, <2>1, <2>2
<1>5. CASE ListenerFails \/ Stop \/ DrainOver \/ Shutdown \/ CloseCapture
  <2>1. UNCHANGED <<accepted, request>> /\ main' \notin {"store", "log", "end", "exit"}
    BY <1>5 DEF ListenerFails, Stop, DrainOver, Shutdown, CloseListener, AwaitRequests, CloseCapture, MainGoes, capture
  <2>2. Done' = Done
    BY <2>1 DEF Done
  <2>3. ch'.waiting = ch.waiting /\ ch'.dropped = ch.dropped
    <3>1. ch' = ch \/ ch' = [ch EXCEPT !.closed = TRUE]
      BY <1>5 DEF ListenerFails, Stop, DrainOver, Shutdown, CloseListener, AwaitRequests, CloseCapture, capture
    <3>2. ch \in [waiting : Seq(Requests), closed : BOOLEAN, dropped : Nat]
      BY <1>t DEF CaptureTypes
    <3>3. QED
      BY <3>1, <3>2
  <2>4. Emptied'
    BY <2>1 DEF Emptied
  <2>5. QED
    BY <1>k, <2>1, <2>2, <2>3, <2>4
<1>6. CASE AwaitCapture
  <2>1. UNCHANGED <<ch, accepted, request>> /\ ch.waiting = <<>>
    BY <1>6 DEF AwaitCapture, capture
  <2>2. Done' = Done
    BY <2>1 DEF Done
  <2>3. QED
    BY <1>k, <2>1, <2>2 DEF Emptied
<1>7. CASE CloseStore \/ StopLog \/ Exit
  <2>1. UNCHANGED <<ch, accepted, request>> /\ main \in {"store", "log", "end", "exit"}
    BY <1>7 DEF CloseStore, StopLog, Exit, MainGoes, capture
  <2>2. Done' = Done
    BY <2>1 DEF Done
  <2>3. Emptied'
    BY <2>1 DEF CaptureInv, Emptied
  <2>4. QED
    BY <1>k, <2>1, <2>2, <2>3
<1>8. QED
  BY <1>1, <1>2, <1>3, <1>4, <1>5, <1>6, <1>7 DEF Next, Closing

\* What the log has kept silent is counted, and told by the last flush.
RepeatsCounted ==
  /\ repeats.suppressed = repeats.told + repeats.taken + repeats.count
  /\ main \in {"end", "exit"} /\ cut = {} => repeats.count = 0 /\ repeats.taken = 0

RepeatInv == LeaveInv /\ RepeatsCounted

LEMMA RepeatInit == Init => RepeatInv
<1> SUFFICES ASSUME Init PROVE RepeatInv
  OBVIOUS
<1>1. repeats.count = 0 /\ repeats.taken = 0 /\ repeats.suppressed = 0 /\ repeats.told = 0
  BY DEF Init
<1>2. QED
  BY <1>1, LeaveInit DEF RepeatInv, RepeatsCounted

LEMMA RepeatNext == RepeatInv /\ [Next]_vars => RepeatInv'
<1> SUFFICES ASSUME RepeatInv, [Next]_vars PROVE RepeatsCounted'
  BY LeaveNext DEF RepeatInv
<1>t. RepeatTypes /\ RequestTypes /\ MainTypes
  BY Types DEF RepeatInv, LeaveInv
<1>1. ASSUME NEW r \in Requests, Degrade(r) PROVE RepeatsCounted'
  <2>1. UNCHANGED <<main, cut>> /\ request[r].at = "running"
    BY <1>1 DEF Degrade
  <2>2. ~ (main \in {"end", "exit"} /\ cut = {})
    <3> SUFFICES ASSUME main \in {"end", "exit"}, cut = {} PROVE FALSE
      OBVIOUS
    <3>1. request[r].via \in Listeners
      BY <1>t DEF RequestTypes
    <3>2. main \in Awaited(request[r].via)
      BY <3>1 DEF Awaited, Closed, MainStages, Listeners
    <3>3. InFlight(request[r].via) = {}
      BY <3>1, <3>2 DEF RepeatInv, LeaveInv, NobodyLeft
    <3>4. QED
      BY <2>1, <3>3 DEF InFlight
  <2>3. repeats'.suppressed = repeats'.told + repeats'.taken + repeats'.count
    BY <1>1, <1>t, SilencedIs DEF Degrade, RepeatInv, RepeatsCounted, RepeatTypes
  <2>4. QED
    BY <2>1, <2>2, <2>3 DEF RepeatsCounted
<1>2. CASE FlushTick
  BY <1>2, <1>t, FlushedIs DEF FlushTick, RepeatInv, RepeatsCounted, RepeatTypes
<1>e. CASE FlushTell
  BY <1>e, <1>t, ToldIs DEF FlushTell, RepeatInv, RepeatsCounted, RepeatTypes
<1>3. CASE WindowPasses
  <2>1. repeats'.suppressed = repeats.suppressed /\ repeats'.told = repeats.told
        /\ repeats'.taken = repeats.taken /\ repeats'.count = repeats.count
    BY <1>3, <1>t DEF WindowPasses, RepeatTypes, Tallies
  <2>2. QED
    BY <1>3, <2>1 DEF WindowPasses, RepeatInv, RepeatsCounted
<1>4. CASE StopLog
  <2>1. Flushed(repeats) \in Tallies /\ Flushed(repeats).count = 0
        /\ Flushed(repeats).suppressed = Flushed(repeats).told + Flushed(repeats).taken + Flushed(repeats).count
    BY <1>4, <1>t, FlushedIs DEF StopLog, RepeatInv, RepeatsCounted, RepeatTypes
  <2>2. QED
    BY <1>4, <2>1, ToldIs DEF StopLog, RepeatsCounted
<1>k. ASSUME UNCHANGED repeats, cut' = {} => cut = {}, main' \in {"end", "exit"} => main \in {"end", "exit"}
      PROVE  RepeatsCounted'
  BY <1>k DEF RepeatInv, RepeatsCounted
<1>5. ASSUME NEW r \in Requests, Arrive(r) \/ Finish(r) PROVE RepeatsCounted'
  BY <1>5, <1>k DEF Arrive, Finish
<1>6. CASE Notice \/ WriteLine \/ UNCHANGED vars
  BY <1>6, <1>k DEF Notice, WriteLine, vars
<1>7. CASE ListenerFails \/ Stop \/ DrainOver \/ Shutdown
  <2>1. UNCHANGED repeats /\ cut \subseteq cut' /\ main' \notin {"end", "exit"}
    BY <1>7 DEF ListenerFails, Stop, DrainOver, Shutdown, CloseListener, AwaitRequests, MainGoes
  <2>2. QED
    BY <1>k, <2>1
<1>8. CASE CloseCapture \/ AwaitCapture \/ CloseStore \/ Exit
  <2>1. UNCHANGED <<repeats, cut>> /\ (main' \in {"end", "exit"} => main \in {"end", "exit"})
    BY <1>8 DEF CloseCapture, AwaitCapture, CloseStore, Exit, MainGoes
  <2>2. QED
    BY <1>k, <2>1
<1>9. QED
  BY <1>1, <1>2, <1>e, <1>3, <1>4, <1>5, <1>6, <1>7, <1>8 DEF Next, Closing

\* Once the queue has been written out, every record the handlers offered to the
\* capture is in its file or among those it counts as dropped (capture.Writer).
THEOREM CaptureLosesNothingUntold == Spec => []CaptureTellsItsLosses
<1>1. CaptureInv => CaptureTellsItsLosses
  <2> SUFFICES ASSUME CaptureInv, main \in {"store", "log", "end", "exit"}
               PROVE  Cardinality(Done) = ch.dropped + Cardinality(Written)
    BY DEF CaptureTellsItsLosses, Done, Written
  <2>1. ch.waiting = <<>>
    BY DEF CaptureInv, Emptied
  <2>2. Len(ch.waiting) = 0
    BY <2>1
  <2>3. ch.dropped \in Nat /\ Cardinality(Written) \in Nat
    <3>1. Written \subseteq Requests
      BY DEF Written
    <3>2. ch \in [waiting : Seq(Requests), closed : BOOLEAN, dropped : Nat]
      BY Types DEF CaptureInv, LeaveInv, CaptureTypes
    <3>3. QED
      BY <3>1, <3>2, Finite
  <2>4. QED
    BY <2>2, <2>3 DEF CaptureInv, Conserved
<1>2. QED
  BY <1>1, CaptureInit, CaptureNext, PTL DEF Spec

\* What the log has kept silent is told by the time it is closed, unless a handler
\* outlives the service (repeatHandler.Close).
THEOREM SilenceIsTold == Spec => []RepeatsAreTold
<1>1. RepeatInv => RepeatsAreTold
  <2> SUFFICES ASSUME RepeatInv, main \in {"end", "exit"}, cut = {} PROVE repeats.told = repeats.suppressed
    BY DEF RepeatsAreTold
  <2>1. repeats.count = 0 /\ repeats.taken = 0 /\ repeats.suppressed = repeats.told + repeats.taken + repeats.count
    BY DEF RepeatInv, RepeatsCounted
  <2>2. repeats.told \in Nat
    BY Types DEF RepeatInv, LeaveInv, RepeatTypes, Tallies
  <2>3. QED
    BY <2>1, <2>2
<1>2. QED
  BY <1>1, RepeatInit, RepeatNext, PTL DEF Spec

-----------------------------------------------------------------------------
(* The files of the capture hold the last lines.                            *)

\* Of numbers there is a least.
LEMMA Least ==
  ASSUME NEW T \in SUBSET Nat, T # {}
  PROVE  \E m \in T : \A n \in T : m <= n
<1> DEFINE Sets == {1..n : n \in T}
<1>1. IsWellFoundedOn(StrictSubsetOrdering(Nat), FiniteSubsetsOf(Nat))
  BY FS_StrictSubsetOrderingWellFounded
<1>2. Sets \subseteq FiniteSubsetsOf(Nat) /\ Sets # {}
  <2>1. ASSUME NEW n \in T
        PROVE  1..n \in FiniteSubsetsOf(Nat)
    <3>1. IsFiniteSet(1..n)
      BY FS_Interval
    <3>2. QED
      BY <3>1 DEF FiniteSubsetsOf
  <2>2. QED
    BY <2>1
<1>3. PICK x \in Sets : \A y \in Sets : <<y, x>> \notin StrictSubsetOrdering(Nat)
  <2> HIDE DEF Sets
  <2>1. QED
    BY <1>1, <1>2, WFMin
<1>4. PICK m \in T : x = 1..m
  OBVIOUS
<1>5. ASSUME NEW n \in T, n < m
      PROVE  FALSE
  <2>1. 1..n \subseteq x /\ 1..n # x
    BY <1>4, <1>5
  <2>2. 1..n \in Sets /\ 1..n \in SUBSET Nat /\ x \in SUBSET Nat
    BY <1>4
  <2>3. QED
    BY <2>1, <2>2, <1>3 DEF StrictSubsetOrdering
<1>6. QED
  BY <1>5

\* A sequence of sequences put one after another is what is made by putting them so,
\* one at a time.
LEMMA FlattenIs ==
  ASSUME NEW s, NEW g, Len(s) \in Nat \ {0}, g = [i \in 1..Len(s) |-> g[i]],
         \A i \in 1..Len(s) : g[i] = IF i = 1 THEN s[i] ELSE g[i - 1] \o s[i]
  PROVE  FlattenSeq(s) = g[Len(s)]
<1> DEFINE Eq(f) == f = [i \in 1..Len(s) |-> IF i = 1 THEN s[i] ELSE f[i - 1] \o s[i]]
<1>1. Eq(g)
  OBVIOUS
<1>2. ASSUME NEW f, Eq(f)
      PROVE  f[Len(s)] = g[Len(s)]
  <2> DEFINE T == {i \in 1..Len(s) : f[i] # g[i]}
  <2>1. \A i \in 1..Len(s) : f[i] = IF i = 1 THEN s[i] ELSE f[i - 1] \o s[i]
    BY <1>2
  <2>2. ASSUME T # {}
        PROVE  FALSE
    <3>1. PICK m \in T : \A n \in T : m <= n
      <4>1. T \in SUBSET Nat
        OBVIOUS
      <4> HIDE DEF T
      <4>2. QED
        BY <2>2, <4>1, Least
    <3>2. m \in 1..Len(s) /\ f[m] # g[m]
      OBVIOUS
    <3>3. CASE m = 1
      BY <2>1, <3>2, <3>3
    <3>4. CASE m # 1
      <4>1. m - 1 \in 1..Len(s) /\ m - 1 < m
        BY <3>2, <3>4
      <4>2. f[m - 1] = g[m - 1]
        BY <3>1, <4>1
      <4>3. QED
        BY <2>1, <3>2, <3>4, <4>2
    <3>5. QED
      BY <3>3, <3>4
  <2>3. QED
    BY <2>2
<1>3. FlattenSeq(s) = (CHOOSE f : Eq(f))[Len(s)]
  BY DEF FlattenSeq
<1>4. Eq(CHOOSE f : Eq(f))
  <2> HIDE DEF Eq
  <2>1. QED
    BY <1>1
<1>5. QED
  <2> HIDE DEF Eq
  <2>1. QED
    BY <1>2, <1>3, <1>4

Files == 1..(Keep + 1)

\* Where the file after i in age begins, or the lines end.
End(from, lines, i) == IF i = 1 THEN Len(lines) ELSE from[i - 1]

\* What the files hold at least from file i on.
Beside(d, i) == (i - 1) * MaxLines + IF d.dead THEN 0 ELSE Len(d.files[1])

\* from[i]: lines written before those of file i.  A file ends before the next younger
\* one begins: exactly there as long as every file has made way, and for the
\* current file and the one before it always.
Laid(from, lines, d) ==
  /\ from \in [Files -> 0..Len(lines)]
  /\ \A i, j \in Files : i <= j => from[j] <= from[i]
  /\ \A i \in Files :
       /\ from[i] + Len(d.files[i]) <= End(from, lines, i)
       /\ i <= 2 \/ ~d.slipped => from[i] + Len(d.files[i]) = End(from, lines, i)
       /\ \A j \in 1..Len(d.files[i]) : d.files[i][j] = lines[from[i] + j]

\* The oldest file begins with the first line, or far enough back.
Reaching(from, lines, d) ==
  ~d.slipped => \A i \in Files : from[i] = 0 \/ Len(lines) - from[i] >= Beside(d, i)

Placing(from, lines, d) == Laid(from, lines, d) /\ Reaching(from, lines, d)

Placed == \E from : Placing(from, accepted, disk)

\* A part of a line is the last thing that is ever written.
PartLast == \A i \in DOMAIN accepted : accepted[i] = Part => i = Len(accepted) /\ disk.dead

FilesInv == TypeOK /\ Placed /\ PartLast

LEMMA ReverseIs ==
  ASSUME NEW S, NEW s \in Seq(S)
  PROVE  /\ Reverse(s) \in Seq(S) /\ Len(Reverse(s)) = Len(s)
         /\ \A i \in 1..Len(s) : Reverse(s)[i] = s[Len(s) - i + 1]
<1>1. Len(s) \in Nat /\ \A i \in 1..Len(s) : Len(s) - i + 1 \in 1..Len(s)
  OBVIOUS
<1>2. Reverse(s) = [i \in 1..Len(s) |-> s[Len(s) - i + 1]]
  BY DEF Reverse
<1>3. \A i \in 1..Len(s) : s[Len(s) - i + 1] \in S
  BY <1>1
<1>4. Reverse(s) \in Seq(S)
  BY <1>1, <1>2, <1>3
<1>5. QED
  BY <1>1, <1>2, <1>4

LEMMA EndIsSuffix ==
  ASSUME NEW S, NEW t \in Seq(S), NEW b \in 0..Len(t)
  PROVE  IsSuffix(SubSeq(t, b + 1, Len(t)), t)
<1> DEFINE s == SubSeq(t, b + 1, Len(t))
           k == Len(t) - b
<1>1. Len(t) \in Nat /\ b \in Nat /\ k \in Nat /\ k <= Len(t)
  OBVIOUS
<1>2. s \in Seq(S) /\ Len(s) = k /\ \A i \in 1..k : s[i] = t[b + i]
  BY <1>1
<1> HIDE DEF s
<1>3. /\ Reverse(s) \in Seq(S) /\ Len(Reverse(s)) = k
      /\ Reverse(t) \in Seq(S) /\ Len(Reverse(t)) = Len(t)
  BY <1>2, ReverseIs
<1>4. \A i \in 1..k : Reverse(s)[i] = Reverse(t)[i]
  <2> SUFFICES ASSUME NEW i \in 1..k
               PROVE  Reverse(s)[i] = Reverse(t)[i]
    OBVIOUS
  <2>1. Reverse(s)[i] = s[k - i + 1]
    BY <1>2, ReverseIs
  <2>2. i \in 1..Len(t) /\ k - i + 1 \in 1..k
    BY <1>1
  <2>3. Reverse(t)[i] = t[Len(t) - i + 1]
    BY <2>2, ReverseIs
  <2>4. s[k - i + 1] = t[b + (k - i + 1)] /\ b + (k - i + 1) = Len(t) - i + 1
    BY <1>1, <1>2, <2>2
  <2>5. QED
    BY <2>1, <2>3, <2>4
<1> HIDE DEF k
<1>5. SubSeq(Reverse(s), 1, k) \in Seq(S) /\ SubSeq(Reverse(t), 1, k) \in Seq(S)
      /\ Len(SubSeq(Reverse(s), 1, k)) = k /\ Len(SubSeq(Reverse(t), 1, k)) = k
      /\ \A i \in 1..k : SubSeq(Reverse(s), 1, k)[i] = Reverse(s)[i] /\ SubSeq(Reverse(t), 1, k)[i] = Reverse(t)[i]
  BY <1>1, <1>3
<1>6. SubSeq(Reverse(s), 1, k) = SubSeq(Reverse(t), 1, k)
  BY <1>4, <1>5, SeqEqual
<1>7. IsSuffix(s, t)
  BY <1>1, <1>3, <1>6 DEF IsSuffix, IsPrefix
<1>8. QED
  BY <1>7 DEF s

\* The files one after another, from the oldest, are the end of what was accepted.
LEMMA PlacedIsEnd ==
  ASSUME FilesInv, ~disk.slipped
  PROVE  LET held == FlattenSeq(Reverse(disk.files))
         IN  IsSuffix(held, accepted) /\ (held = accepted \/ Len(held) >= Kept)
<1> DEFINE n == Keep + 1
           lines == accepted
           files == disk.files
<1>1. n \in Nat /\ n >= 2 /\ Files = 1..n
  BY Sizes DEF Files
<1>2. lines \in Seq(Lines) /\ files \in [1..n -> Seq(Lines)]
  BY DEF FilesInv, TypeOK
<1>3. PICK from : Placing(from, lines, disk)
  BY DEF FilesInv, Placed
<1>d. ~disk.slipped /\ disk.files = files
  OBVIOUS
<1> HIDE DEF n, lines, files
<1>4. Len(lines) \in Nat /\ files \in Seq(Seq(Lines)) /\ Len(files) = n
  BY <1>1, <1>2
<1>5. /\ Reverse(files) \in Seq(Seq(Lines)) /\ Len(Reverse(files)) = n
      /\ \A i \in 1..n : Reverse(files)[i] = files[n - i + 1]
  BY <1>4, ReverseIs
<1> DEFINE E(i) == IF i = 1 THEN Len(lines) ELSE from[i - 1]
           g == [i \in 1..n |-> SubSeq(lines, from[n] + 1, E(n - i + 1))]
<1>6. \A i \in 1..n : from[i] \in 0..Len(lines) /\ Len(files[i]) \in Nat /\ from[i] + Len(files[i]) = E(i)
  BY <1>1, <1>2, <1>3, <1>d DEF Placing, Laid, Reaching, End
<1>7. \A i \in 1..n : E(i) \in 0..Len(lines) /\ from[i] <= E(i)
  <2> SUFFICES ASSUME NEW i \in 1..n
               PROVE  E(i) \in 0..Len(lines) /\ from[i] <= E(i)
    OBVIOUS
  <2>1. from[i] <= E(i)
    <3>1. from[i] \in Nat /\ Len(files[i]) \in Nat /\ E(i) = from[i] + Len(files[i])
      BY <1>4, <1>6
    <3> HIDE DEF E
    <3>2. QED
      BY <3>1
  <2>2. CASE i = 1
    BY <1>4, <2>1, <2>2
  <2>3. CASE i # 1
    <3>1. i - 1 \in 1..n
      BY <1>1, <2>3
    <3>2. QED
      BY <1>6, <2>1, <2>3, <3>1
  <2>4. QED
    BY <2>2, <2>3
<1>8. \A i \in 1..n : files[i] = SubSeq(lines, from[i] + 1, E(i))
  <2> SUFFICES ASSUME NEW i \in 1..n
               PROVE  files[i] = SubSeq(lines, from[i] + 1, E(i))
    OBVIOUS
  <2> DEFINE a == from[i]
             e == E(i)
  <2>1. a \in Nat /\ e \in Nat /\ a <= e /\ e <= Len(lines) /\ Len(files[i]) = e - a
    <3>1. a \in Nat /\ e \in Nat /\ a <= e /\ e <= Len(lines) /\ Len(files[i]) \in Nat /\ a + Len(files[i]) = e
      BY <1>4, <1>6, <1>7
    <3> HIDE DEF a, e
    <3>2. QED
      BY <3>1
  <2>2. files[i] \in Seq(Lines) /\ \A j \in 1..Len(files[i]) : files[i][j] = lines[a + j]
    BY <1>1, <1>2, <1>3, <1>d DEF Placing, Laid, Reaching
  <2> HIDE DEF a, e
  <2>3. /\ SubSeq(lines, a + 1, e) \in Seq(Lines) /\ Len(SubSeq(lines, a + 1, e)) = e - a
        /\ \A j \in 1..(e - a) : SubSeq(lines, a + 1, e)[j] = lines[a + j]
    BY <1>2, <1>4, <2>1
  <2>4. files[i] = SubSeq(lines, a + 1, e)
    BY <2>1, <2>2, <2>3, SeqEqual
  <2>5. QED
    BY <2>4 DEF a, e
<1>9. \A i \in 1..n : g[i] = IF i = 1 THEN Reverse(files)[i] ELSE g[i - 1] \o Reverse(files)[i]
  <2> SUFFICES ASSUME NEW i \in 1..n
               PROVE  g[i] = IF i = 1 THEN Reverse(files)[i] ELSE g[i - 1] \o Reverse(files)[i]
    OBVIOUS
  <2> DEFINE k == n - i + 1
  <2>1. k \in 1..n /\ Reverse(files)[i] = files[k] /\ files[k] = SubSeq(lines, from[k] + 1, E(k))
    <3>1. k \in 1..n
      BY <1>1
    <3>2. QED
      BY <1>5, <1>8, <3>1
  <2>2. CASE i = 1
    <3>1. k = n
      BY <1>1, <2>2
    <3>2. QED
      BY <2>1, <2>2, <3>1
  <2>3. CASE i # 1
    <3>1. i - 1 \in 1..n /\ k + 1 \in 1..n /\ n - (i - 1) + 1 = k + 1 /\ (k + 1) - 1 = k /\ k + 1 # 1
      BY <1>1, <2>3
    <3>2. E(k + 1) = from[k]
      BY <3>1
    <3>3. g[i - 1] = SubSeq(lines, from[n] + 1, from[k])
      BY <3>1, <3>2
    <3>4. from[n] \in Nat /\ from[k] \in Nat /\ from[n] <= from[k] /\ from[k] <= E(k) /\ E(k) <= Len(lines) /\ E(k) \in Nat
      <4>1. n \in 1..n
        BY <1>1
      <4>2. from[n] \in Nat /\ from[k] \in Nat /\ from[k] <= E(k) /\ E(k) <= Len(lines) /\ E(k) \in Nat
        <5>1. from[n] \in 0..Len(lines) /\ from[k] \in 0..Len(lines) /\ E(k) \in 0..Len(lines) /\ from[k] <= E(k)
          BY <1>6, <1>7, <2>1, <4>1
        <5> HIDE DEF E, k
        <5>2. QED
          BY <1>4, <5>1
      <4>3. from[n] <= from[k]
        BY <1>1, <1>3, <2>1, <4>1 DEF Placing, Laid, Reaching
      <4>4. QED
        BY <4>2, <4>3
    <3>5. SubSeq(lines, from[n] + 1, from[k]) \o SubSeq(lines, from[k] + 1, E(k)) = SubSeq(lines, from[n] + 1, E(k))
      <4> HIDE DEF E
      <4>1. from[n] + 1 \in 1..(Len(lines) + 1) /\ from[k] \in (from[n] + 1) - 1..Len(lines) /\ E(k) \in from[k]..Len(lines)
        <5>1. PICK a \in Nat, b \in Nat, c \in Nat, l \in Nat : a = from[n] /\ b = from[k] /\ c = E(k) /\ l = Len(lines)
          BY <1>4, <3>4
        <5>2. a <= b /\ b <= c /\ c <= l
          BY <3>4, <5>1
        <5>3. a + 1 \in 1..(l + 1) /\ b \in (a + 1) - 1..l /\ c \in b..l
          BY <5>2
        <5> HIDE DEF k
        <5>4. QED
          BY <5>1, <5>3
      <4>2. QED
        BY <1>2, <4>1, ConcatAdjacentSubSeq
    <3>6. g[i] = SubSeq(lines, from[n] + 1, E(k))
      OBVIOUS
    <3>7. QED
      BY <2>1, <2>3, <3>3, <3>5, <3>6
  <2>4. QED
    BY <2>2, <2>3
<1>10. FlattenSeq(Reverse(files)) = g[n]
  <2> DEFINE s == Reverse(files)
  <2>1. g = [i \in 1..n |-> g[i]]
    <3> HIDE DEF E
    <3>1. QED
      OBVIOUS
  <2>2. Len(s) = n /\ n \in Nat \ {0}
    BY <1>1, <1>5
  <2>3. g = [i \in 1..Len(s) |-> g[i]] /\ Len(s) \in Nat \ {0}
    <3> HIDE DEF g, s
    <3>1. QED
      BY <2>1, <2>2
  <2>4. \A i \in 1..Len(s) : g[i] = IF i = 1 THEN s[i] ELSE g[i - 1] \o s[i]
    BY <1>5, <1>9
  <2>5. Len(s) = n
    BY <1>5
  <2> HIDE DEF g, s
  <2>6. FlattenSeq(s) = g[Len(s)]
    BY <2>3, <2>4, FlattenIs DEF s
  <2>7. QED
    BY <2>5, <2>6 DEF s
<1>11. g[n] = SubSeq(lines, from[n] + 1, Len(lines))
  <2>1. n \in 1..n /\ n - n + 1 = 1
    BY <1>1
  <2>2. QED
    BY <2>1
<1>12. from[n] \in 0..Len(lines) /\ n \in 1..n
  BY <1>1, <1>6
<1>13. IsSuffix(FlattenSeq(Reverse(files)), lines)
  <2> HIDE DEF g
  <2>1. QED
    BY <1>2, <1>10, <1>11, <1>12, EndIsSuffix
<1>14. FlattenSeq(Reverse(files)) = lines \/ Len(FlattenSeq(Reverse(files))) >= Kept
  <2> HIDE DEF g, E
  <2> DEFINE held == FlattenSeq(Reverse(files))
  <2>1. held = SubSeq(lines, from[n] + 1, Len(lines))
    BY <1>10, <1>11
  <2>2. Len(held) = Len(lines) - from[n]
    BY <1>2, <1>4, <1>12, <2>1
  <2>3. CASE from[n] = 0
    <3>1. held = lines
      BY <1>2, <2>1, <2>3
    <3>2. QED
      BY <3>1
  <2>4. CASE from[n] # 0
    <3>1. Len(lines) - from[n] >= Beside(disk, n)
      BY <1>1, <1>3, <1>d, <1>12, <2>4 DEF Placing, Laid, Reaching
    <3>2. Beside(disk, n) = Kept
      <4>1. n - 1 = Keep
        BY Sizes DEF n
      <4>2. QED
        BY <4>1 DEF Beside, Kept
    <3>3. QED
      BY <2>2, <3>1, <3>2
  <2>5. QED
    BY <2>3, <2>4
<1>15. QED
  BY <1>13, <1>14 DEF files, lines

LEMMA Distributes ==
  ASSUME NEW a \in Nat, NEW b \in Nat, NEW c \in Nat
  PROVE  (a - b) * c = a * c - b * c
OBVIOUS

LEMMA Times ==
  ASSUME NEW a \in Nat, NEW b \in Nat
  PROVE  a * b \in Nat
OBVIOUS

LEMMA Grows ==
  ASSUME NEW a \in Nat, NEW c \in Nat
  PROVE  (a + 1) * c = a * c + c
OBVIOUS

LEMMA FilesInit == Init => FilesInv
<1> SUFFICES ASSUME Init PROVE Placed /\ PartLast
  BY InitTypes DEF FilesInv
<1>1. PICK old \in Found :
        /\ disk = [files |-> [i \in 1..(Keep + 1) |->
                     IF i <= old THEN [j \in 1..MaxLines |-> i * MaxLines - j + 1] ELSE <<>>],
                   dead |-> FALSE, slipped |-> FALSE]
        /\ accepted = [j \in 1..(old * MaxLines) |-> old * MaxLines - j + 1]
  BY DEF Init
<1>2. old \in Nat /\ MaxLines \in Nat /\ Keep + 1 \in Nat /\ old * MaxLines \in Nat
  BY Sizes
<1> DEFINE top == old * MaxLines
           Left(i) == IF i <= old THEN (old - i) * MaxLines ELSE 0
           from == [i \in Files |-> Left(i)]
           files == disk.files
<1>3. Len(accepted) = top /\ \A j \in 1..top : accepted[j] = top - j + 1
  <2>1. PICK n \in Nat : n = top
    BY <1>2
  <2>2. accepted = [j \in 1..n |-> n - j + 1]
    BY <1>1, <2>1
  <2>3. Len(accepted) = n /\ \A j \in 1..n : accepted[j] = n - j + 1
    BY <2>2
  <2>4. QED
    BY <2>1, <2>3
<1>4. ASSUME NEW i \in Files
      PROVE  /\ i \in Nat /\ i >= 1
             /\ i <= old => files[i] = [j \in 1..MaxLines |-> i * MaxLines - j + 1]
             /\ ~(i <= old) => files[i] = <<>>
             /\ Len(files[i]) = IF i <= old THEN MaxLines ELSE 0
  <2>1. i \in Nat /\ i >= 1 /\ files[i] = IF i <= old THEN [j \in 1..MaxLines |-> i * MaxLines - j + 1] ELSE <<>>
    BY <1>1, <1>2 DEF Files
  <2>2. Len([j \in 1..MaxLines |-> i * MaxLines - j + 1]) = MaxLines
    BY <1>2
  <2>3. CASE i <= old
    BY <2>1, <2>2, <2>3
  <2>4. CASE ~(i <= old)
    <3>1. files[i] = <<>> /\ Len(<<>>) = 0
      BY <2>1, <2>4
    <3>2. QED
      BY <2>1, <2>4, <3>1
  <2>5. QED
    BY <2>3, <2>4
<1>5. ASSUME NEW i \in Files, i <= old
      PROVE  /\ Left(i) = top - i * MaxLines /\ Left(i) \in 0..top /\ i * MaxLines \in Nat
             /\ i = 1 => Left(i) + MaxLines = top
             /\ i # 1 => Left(i) + MaxLines = Left(i - 1)
  <2>1. i \in Nat /\ i >= 1 /\ old - i \in Nat /\ i * MaxLines \in Nat
    <3>1. i \in Nat /\ i >= 1
      BY <1>4
    <3>2. old - i \in Nat
      BY <1>2, <1>5, <3>1
    <3>3. QED
      BY <1>2, <3>1, <3>2, Times
  <2>2. (old - i) * MaxLines = old * MaxLines - i * MaxLines
    BY <1>2, <2>1, Distributes
  <2>3. i * MaxLines <= top
    BY <1>2, <1>5, <2>1, Product
  <2>4. Left(i) = top - i * MaxLines /\ Left(i) \in 0..top
    BY <1>2, <1>5, <2>1, <2>2, <2>3
  <2>5. CASE i = 1
    <3>1. i * MaxLines = MaxLines
      BY <1>2, <2>5
    <3>2. QED
      BY <1>2, <2>1, <2>4, <2>5, <3>1
  <2>6. CASE i # 1
    <3>1. i - 1 \in Nat /\ i - 1 <= old /\ old - (i - 1) = (old - i) + 1 /\ old - i \in Nat
      BY <1>2, <1>5, <2>1, <2>6
    <3>2. ((old - i) + 1) * MaxLines = (old - i) * MaxLines + MaxLines
      BY <1>2, <3>1, Grows
    <3>3. Left(i - 1) = ((old - i) + 1) * MaxLines /\ Left(i) = (old - i) * MaxLines
      BY <1>5, <3>1
    <3>4. QED
      BY <2>1, <2>4, <2>6, <3>2, <3>3
  <2>7. QED
    BY <2>1, <2>4, <2>5, <2>6
<1>6. \A i \in Files : from[i] = Left(i)
  OBVIOUS
<1> HIDE DEF from
<1>7. \A i \in Files : Left(i) \in 0..top
  <2> HIDE DEF top
  <2>1. QED
    BY <1>2, <1>4, <1>5 DEF top
<1>8. from \in [Files -> 0..Len(accepted)]
  <2>1. from = [i \in Files |-> from[i]]
    BY DEF from
  <2> HIDE DEF Left, top
  <2>2. QED
    BY <1>3, <1>6, <1>7, <2>1
<1>9. ASSUME NEW i \in Files, NEW j \in Files, i <= j
      PROVE  from[j] <= from[i]
  <2>1. CASE ~(j <= old)
    <3>1. Left(j) = 0 /\ Left(i) \in Nat
      BY <1>2, <1>7, <2>1
    <3>2. QED
      BY <1>6, <3>1
  <2>2. CASE j <= old
    <3>1. i <= old /\ i * MaxLines <= j * MaxLines
      <4>1. i \in Nat /\ j \in Nat
        BY <1>4
      <4>2. i <= old
        BY <1>2, <1>9, <2>2, <4>1
      <4>3. QED
        BY <1>2, <1>9, <4>1, <4>2, Product
    <3>2. Left(i) = top - i * MaxLines /\ Left(j) = top - j * MaxLines /\ i * MaxLines \in Nat /\ j * MaxLines \in Nat
      BY <1>5, <2>2, <3>1
    <3>3. PICK a \in Nat, b \in Nat, t \in Nat : a = i * MaxLines /\ b = j * MaxLines /\ t = top
      BY <1>2, <3>2
    <3>4. Left(j) <= Left(i)
      BY <3>1, <3>2, <3>3
    <3>5. QED
      BY <1>6, <3>4
  <2>3. QED
    BY <2>1, <2>2
<1>10. ASSUME NEW i \in Files
       PROVE  from[i] + Len(files[i]) = IF i = 1 THEN Len(accepted) ELSE from[i - 1]
  <2>1. i # 1 => i - 1 \in Files
    BY <1>2, <1>4 DEF Files
  <2>2. CASE i <= old
    <3>1. Len(files[i]) = MaxLines
      BY <1>4, <2>2
    <3>2. QED
      BY <1>3, <1>5, <1>6, <2>1, <2>2, <3>1
  <2>3. CASE ~(i <= old)
    <3>1. Len(files[i]) = 0 /\ Left(i) = 0
      BY <1>4, <2>3
    <3>2. i = 1 => top = 0
      <4>1. i = 1 => old = 0
        BY <1>2, <2>3
      <4>2. QED
        BY <1>2, <4>1
    <3>3. i # 1 => Left(i - 1) = 0
      <4>1. CASE i - 1 <= old
        <5>1. old - (i - 1) = 0
          <6>1. i \in Nat
            BY <1>4
          <6>2. QED
            BY <1>2, <2>3, <4>1, <6>1
        <5>2. Left(i - 1) = 0 * MaxLines
          BY <4>1, <5>1
        <5>3. QED
          BY <1>2, <5>2
      <4>2. CASE ~(i - 1 <= old)
        BY <4>2
      <4>3. QED
        BY <4>1, <4>2
    <3>4. QED
      BY <1>3, <1>6, <2>1, <3>1, <3>2, <3>3
  <2>4. QED
    BY <2>2, <2>3
<1>11. ASSUME NEW i \in Files, NEW j \in 1..Len(files[i])
       PROVE  files[i][j] = accepted[from[i] + j]
  <2>1. i <= old /\ j \in 1..MaxLines
    <3>1. Len(files[i]) = IF i <= old THEN MaxLines ELSE 0
      BY <1>4
    <3>2. j \in 1..Len(files[i])
      OBVIOUS
    <3> HIDE DEF files
    <3>3. QED
      BY <3>1, <3>2
  <2>2. files[i][j] = i * MaxLines - j + 1
    BY <1>4, <2>1
  <2>3. from[i] = top - i * MaxLines /\ from[i] \in 0..top /\ i * MaxLines \in Nat /\ MaxLines <= i * MaxLines
    <3>1. 1 * MaxLines <= i * MaxLines /\ 1 * MaxLines = MaxLines
      <4>1. i \in Nat /\ 1 \in Nat /\ 1 <= i
        BY <1>4
      <4>2. 1 * MaxLines <= i * MaxLines
        BY <1>2, <4>1, Product
      <4>3. QED
        BY <1>2, <4>2
    <3>2. QED
      BY <1>5, <1>6, <2>1, <3>1
  <2>4. PICK a \in Nat, t \in Nat : a = i * MaxLines /\ t = top
    BY <1>2, <2>3
  <2>5. from[i] = t - a /\ MaxLines <= a /\ a <= t /\ j <= MaxLines /\ j >= 1 /\ j \in Nat
    BY <1>2, <2>1, <2>3, <2>4
  <2>6. from[i] + j \in 1..t /\ t - (from[i] + j) + 1 = a - j + 1
    <3>1. PICK f \in Nat, m \in Nat : f = from[i] /\ m = MaxLines
      BY <1>2, <2>4, <2>5
    <3>2. f = t - a /\ m <= a /\ a <= t /\ j <= m /\ j >= 1 /\ j \in Nat
      BY <2>5, <3>1
    <3>3. f + j \in 1..t /\ t - (f + j) + 1 = a - j + 1
      BY <3>2
    <3>4. QED
      BY <3>1, <3>3
  <2>7. QED
    BY <1>3, <2>2, <2>4, <2>6
<1>12. ASSUME NEW i \in Files
       PROVE  from[i] = 0 \/ top - from[i] >= Beside(disk, i)
  <2>1. CASE ~(i <= old)
    <3>1. Left(i) = 0
      BY <2>1
    <3>2. QED
      BY <1>6, <3>1
  <2>2. CASE i <= old
    <3>1. from[i] = top - i * MaxLines /\ i * MaxLines \in Nat
      BY <1>5, <1>6, <2>2
    <3>2. Beside(disk, i) = i * MaxLines
      <4>1. ~disk.dead /\ 1 \in Files /\ 1 <= old
        <5>1. i \in Nat /\ i >= 1
          BY <1>4
        <5>2. QED
          BY <1>1, <1>2, <2>2, <5>1, Sizes DEF Files
      <4>2. Len(disk.files[1]) = MaxLines
        BY <1>4, <4>1
      <4>3. Beside(disk, i) = (i - 1) * MaxLines + MaxLines
        BY <4>1, <4>2 DEF Beside
      <4>4. i - 1 \in Nat /\ (i - 1) + 1 = i
        <5>1. i \in Nat /\ i >= 1
          BY <1>4
        <5>2. QED
          BY <5>1
      <4>5. ((i - 1) + 1) * MaxLines = (i - 1) * MaxLines + MaxLines
        BY <1>2, <4>4, Grows
      <4>6. QED
        BY <4>3, <4>4, <4>5
    <3>3. PICK a \in Nat, t \in Nat : a = i * MaxLines /\ t = top
      BY <1>2, <3>1
    <3>4. top - from[i] = i * MaxLines
      BY <3>1, <3>3
    <3>5. QED
      BY <3>1, <3>2, <3>4
  <2>3. QED
    BY <2>1, <2>2
<1>13. Placing(from, accepted, disk)
  <2>1. ASSUME NEW i \in Files
        PROVE  /\ from[i] + Len(disk.files[i]) = End(from, accepted, i)
               /\ from[i] + Len(disk.files[i]) <= End(from, accepted, i)
    <3>1. from[i] + Len(disk.files[i]) = End(from, accepted, i)
      BY <1>10 DEF End
    <3>2. from[i] \in Nat /\ Len(disk.files[i]) \in Nat
      BY <1>2, <1>3, <1>4, <1>8
    <3>3. QED
      BY <3>1, <3>2
  <2>2. Laid(from, accepted, disk)
    BY <1>8, <1>9, <1>11, <2>1 DEF Laid
  <2>3. Reaching(from, accepted, disk)
    BY <1>3, <1>12 DEF Reaching
  <2>4. QED
    BY <2>2, <2>3 DEF Placing
<1>14. PartLast
  <2> SUFFICES ASSUME NEW j \in DOMAIN accepted, accepted[j] = Part
               PROVE  FALSE
    BY DEF PartLast
  <2>1. PICK t \in Nat : t = top
    BY <1>2
  <2>2. j \in 1..t /\ accepted[j] = t - j + 1
    BY <1>1, <1>3, <2>1
  <2>3. QED
    BY <2>2 DEF Part
<1>15. QED
  BY <1>13, <1>14 DEF Placed

\* What the types say of the files of the disk, before and after a rotation.
LEMMA FilesAre ==
  ASSUME FilesInv
  PROVE  /\ disk \in Disks /\ accepted \in Seq(Lines) /\ Len(accepted) \in Nat
         /\ disk.files \in [1..(Keep + 1) -> Seq(Lines)] /\ CaptureTypes
         /\ \A i \in Files : disk.files[i] \in Seq(Lines) /\ Len(disk.files[i]) \in Nat
         /\ \A i \in Files : i \in Nat /\ i >= 1 /\ (i # 1 => i - 1 \in Files) /\ (i > 2 => i - 1 # 1)
         /\ 1 \in Files /\ 2 \in Files
<1>1. disk \in Disks /\ accepted \in Seq(Lines) /\ CaptureTypes
  BY Types DEF FilesInv, TypeOK, Disks
<1>2. disk.files \in [1..(Keep + 1) -> Seq(Lines)]
  BY <1>1 DEF Disks
<1>3. \A i \in Files : i \in Nat /\ i >= 1 /\ (i # 1 => i - 1 \in Files) /\ (i > 2 => i - 1 # 1)
  BY Sizes DEF Files
<1>4. 1 \in Files /\ 2 \in Files
  BY Sizes DEF Files
<1>5. \A i \in Files : disk.files[i] \in Seq(Lines) /\ Len(disk.files[i]) \in Nat
  <2>1. \A i \in Files : disk.files[i] \in Seq(Lines)
    BY <1>2 DEF Files
  <2>2. QED
    BY <2>1
<1>6. QED
  BY <1>1, <1>2, <1>3, <1>4, <1>5

\* A rotation lays the files anew: what has moved begins where its old number has, what
\* has stayed where it began, and nothing comes before what is older.
LEMMA MovedIsLaid ==
  ASSUME FilesInv, NEW from, Laid(from, accepted, disk),
         NEW d, NEW refused, Moved(d, Shifted, refused) \/ Moved(d, Rotated, refused)
  PROVE  \E at : /\ Laid(at, accepted, d)
                 /\ ~d.slipped => ~disk.slipped /\ \A i \in Files : i # 1 => at[i] = from[i - 1]
<1> DEFINE n == Len(accepted)
           files == disk.files
           new == d.files
           turned == Moved(d, Rotated, refused)
           Stays(i) == /\ i \in refused
                       /\ ~(i > 2 /\ i - 1 \notin refused /\ files[i - 1] # <<>>)
                       /\ ~(turned /\ i = 2)
           at == [i \in Files |-> IF i = 1 THEN IF turned THEN n ELSE from[1]
                                  ELSE IF Stays(i) THEN from[i] ELSE from[i - 1]]
<1>1. /\ disk \in Disks /\ n \in Nat /\ files \in [1..(Keep + 1) -> Seq(Lines)]
      /\ \A i \in Files : files[i] \in Seq(Lines) /\ Len(files[i]) \in Nat
      /\ \A i \in Files : i \in Nat /\ i >= 1 /\ (i # 1 => i - 1 \in Files) /\ (i > 2 => i - 1 # 1)
      /\ 1 \in Files /\ 2 \in Files
  BY FilesAre
<1>2. /\ \A i \in Files : from[i] \in 0..n
      /\ \A i, j \in Files : i <= j => from[j] <= from[i]
      /\ \A i \in Files :
           /\ from[i] + Len(files[i]) <= End(from, accepted, i)
           /\ i <= 2 \/ ~disk.slipped => from[i] + Len(files[i]) = End(from, accepted, i)
           /\ \A j \in 1..Len(files[i]) : files[i][j] = accepted[from[i] + j]
  BY DEF Laid
<1>3. /\ \A i \in Files : at[i] = IF i = 1 THEN IF turned THEN n ELSE from[1]
                                   ELSE IF Stays(i) THEN from[i] ELSE from[i - 1]
      /\ DOMAIN at = Files /\ at = [i \in Files |-> at[i]]
  <2> HIDE DEF turned, Stays
  <2>1. QED
    OBVIOUS
<1>4. /\ new = IF turned THEN Rotated(files, refused) ELSE Shifted(files, refused)
      /\ d.slipped <=> disk.slipped \/ refused # {}
  <2>1. disk \in [files : [1..(Keep + 1) -> Seq(Lines)], dead : BOOLEAN, slipped : BOOLEAN]
    BY <1>1 DEF Disks
  <2>2. CASE turned
    <3>1. d = [disk EXCEPT !.files = Rotated(disk.files, refused), !.slipped = @ \/ refused # {}]
      BY <2>2 DEF Moved
    <3>2. QED
      BY <2>1, <2>2, <3>1
  <2>3. CASE ~turned
    <3>1. d = [disk EXCEPT !.files = Shifted(disk.files, refused), !.slipped = @ \/ refused # {}]
      BY <2>3 DEF Moved
    <3>2. QED
      BY <2>1, <2>3, <3>1
  <2>4. QED
    BY <2>2, <2>3
<1>5. /\ new[1] = IF turned THEN <<>> ELSE files[1]
      /\ new[2] = IF turned THEN files[1] ELSE IF 2 \in refused THEN files[2] ELSE <<>>
      /\ \A i \in Files : i > 2 => new[i] = IF i - 1 \notin refused /\ files[i - 1] # <<>> THEN files[i - 1]
                                          ELSE IF i \in refused THEN files[i] ELSE <<>>
  <2> HIDE DEF turned, new, files
  <2>1. files \in [1..(Keep + 1) -> Seq(Lines)] /\ 1 \in 1..(Keep + 1) /\ 2 \in 1..(Keep + 1)
    BY <1>1, Sizes
  <2> DEFINE f == Shifted(files, refused)
  <2>2. f = [i \in 1..(Keep + 1) |-> IF i > 2 /\ i - 1 \notin refused /\ files[i - 1] # <<>> THEN files[i - 1]
                                     ELSE IF i = 1 \/ i \in refused THEN files[i] ELSE <<>>]
    BY <2>1 DEF Shifted
  <2>3. Rotated(files, refused) = [f EXCEPT ![1] = <<>>, ![2] = files[1]]
    BY DEF Rotated
  <2> HIDE DEF f
  <2>4. f[1] = files[1] /\ f[2] = IF 2 \in refused THEN files[2] ELSE <<>>
    BY <2>1, <2>2
  <2>5. Rotated(files, refused)[1] = <<>> /\ Rotated(files, refused)[2] = files[1]
    <3>1. DOMAIN f = 1..(Keep + 1)
      BY <2>2
    <3>2. QED
      BY <2>1, <2>3, <3>1
  <2>6. ASSUME NEW i \in Files, i > 2
        PROVE  /\ f[i] = IF i - 1 \notin refused /\ files[i - 1] # <<>> THEN files[i - 1]
                         ELSE IF i \in refused THEN files[i] ELSE <<>>
               /\ Rotated(files, refused)[i] = f[i]
    <3>1. i # 1 /\ i # 2 /\ i \in 1..(Keep + 1)
      BY <2>6 DEF Files
    <3>2. f[i] = IF i - 1 \notin refused /\ files[i - 1] # <<>> THEN files[i - 1]
                 ELSE IF i \in refused THEN files[i] ELSE <<>>
      BY <2>2, <2>6, <3>1
    <3>3. Rotated(files, refused)[i] = f[i]
      <4>1. f = [j \in 1..(Keep + 1) |-> f[j]]
        BY <2>2
      <4>2. QED
        BY <2>3, <3>1, <4>1
    <3>4. QED
      BY <3>2, <3>3
  <2>7. new = IF turned THEN Rotated(files, refused) ELSE f
    BY <1>4 DEF f
  <2>8. QED
    BY <2>4, <2>5, <2>6, <2>7
\* A file stays, has moved, or there is none.
<1>6. ASSUME NEW i \in Files, i # 1
      PROVE  \/ /\ refused # {} /\ ~(turned /\ i = 2) /\ new[i] = files[i] /\ at[i] = from[i]
             \/ new[i] = files[i - 1] /\ at[i] = from[i - 1] /\ at[i - 1] = End(from, accepted, i - 1)
             \/ (refused # {} \/ (i = 2 /\ ~turned)) /\ new[i] = <<>> /\ at[i] = from[i - 1]
  <2>1. i - 1 \in Files /\ (i = 2 \/ i > 2) /\ (i > 2 => i - 1 # 1)
    BY <1>1, <1>6
  <2>2. CASE i = 2
    <3>1. End(from, accepted, 1) = n
      BY DEF End
    <3> HIDE DEF turned, at, new, files, n
    <3>2. CASE turned
      BY <1>1, <1>3, <1>5, <2>2, <3>1, <3>2
    <3>3. CASE ~turned
      BY <1>1, <1>3, <1>5, <2>2, <3>3
    <3>4. QED
      BY <3>2, <3>3
  <2>3. CASE i > 2
    <3>1. End(from, accepted, i - 1) = from[(i - 1) - 1]
      BY <2>1, <2>3 DEF End
    <3>2. CASE i - 1 \notin refused /\ files[i - 1] # <<>>
      <4>1. ~Stays(i) /\ ~Stays(i - 1)
        BY <2>3, <3>2
      <4>2. new[i] = files[i - 1]
        BY <1>5, <2>3, <3>2
      <4> HIDE DEF turned, Stays, at, new, files, n
      <4>3. at[i] = from[i - 1] /\ at[i - 1] = from[(i - 1) - 1]
        BY <1>3, <1>6, <2>1, <2>3, <4>1
      <4>4. QED
        BY <3>1, <4>2, <4>3
    <3>3. CASE ~(i - 1 \notin refused /\ files[i - 1] # <<>>) /\ i \in refused
      <4>1. Stays(i) /\ refused # {} /\ ~(turned /\ i = 2)
        BY <2>3, <3>3
      <4>2. new[i] = files[i]
        BY <1>5, <2>3, <3>3
      <4> HIDE DEF turned, Stays, at, new, files, n
      <4>3. at[i] = from[i]
        BY <1>3, <1>6, <4>1
      <4>4. QED
        BY <4>1, <4>2, <4>3
    <3>4. CASE ~(i - 1 \notin refused /\ files[i - 1] # <<>>) /\ i \notin refused
      <4>1. ~Stays(i)
        BY <3>4
      <4>2. new[i] = <<>>
        BY <1>5, <2>3, <3>4
      <4>3. refused # {} \/ files[i - 1] = <<>>
        BY <3>4
      <4>4. i - 1 \notin refused => ~Stays(i - 1)
        OBVIOUS
      <4> HIDE DEF turned, Stays, at, new, files, n
      <4>5. at[i] = from[i - 1]
        BY <1>3, <1>6, <4>1
      <4>6. CASE refused # {}
        BY <4>2, <4>5, <4>6
      <4>7. CASE refused = {}
        <5>1. at[i - 1] = from[(i - 1) - 1]
          BY <1>3, <2>1, <2>3, <4>4, <4>7
        <5>2. QED
          BY <3>1, <4>2, <4>3, <4>5, <4>7, <5>1
      <4>8. QED
        BY <4>6, <4>7
    <3>5. QED
      BY <3>2, <3>3, <3>4
  <2>4. QED
    BY <2>1, <2>2, <2>3
<1> HIDE DEF turned, Stays, at, new, files
<1>7. at[1] + Len(new[1]) = n /\ at[1] \in 0..n /\ from[1] <= at[1]
  <2>1. from[1] + Len(files[1]) = n /\ from[1] \in 0..n
    BY <1>1, <1>2 DEF End
  <2>2. CASE turned
    <3>1. at[1] = n /\ new[1] = <<>>
      BY <1>1, <1>3, <1>5, <2>2
    <3>2. QED
      BY <1>1, <2>1, <3>1
  <2>3. CASE ~turned
    <3>1. at[1] = from[1] /\ new[1] = files[1]
      BY <1>1, <1>3, <1>5, <2>3
    <3>2. QED
      BY <1>1, <2>1, <3>1
  <2>4. QED
    BY <2>2, <2>3
<1>8. ASSUME NEW i \in Files
      PROVE  at[i] \in 0..n /\ from[i] <= at[i] /\ (i # 1 => at[i] <= from[i - 1])
  <2>1. CASE i = 1
    BY <1>7, <2>1
  <2>2. CASE i # 1
    <3>1. i - 1 \in Files /\ i - 1 <= i /\ at[i] \in {from[i], from[i - 1]}
      BY <1>1, <1>6, <2>2
    <3>2. from[i] \in 0..n /\ from[i - 1] \in 0..n /\ from[i] <= from[i - 1]
      BY <1>2, <3>1
    <3>3. QED
      BY <1>1, <3>1, <3>2
  <2>3. QED
    BY <2>1, <2>2
<1>9. ASSUME NEW i \in Files, NEW j \in Files, i <= j
      PROVE  at[j] <= at[i]
  <2>1. CASE i = j
    <3>1. at[i] \in Nat
      BY <1>1, <1>8
    <3>2. QED
      BY <2>1, <3>1
  <2>2. CASE i # j
    <3>0. i \in Nat /\ j \in Nat /\ i >= 1
      BY <1>1
    <3>1. j # 1 /\ j - 1 \in Files /\ i <= j - 1
      BY <1>1, <1>9, <2>2, <3>0
    <3>2. at[j] <= from[j - 1] /\ from[j - 1] <= from[i] /\ from[i] <= at[i]
      BY <1>2, <1>8, <3>1
    <3>3. at[j] \in Nat /\ from[j - 1] \in Nat /\ from[i] \in Nat /\ at[i] \in Nat
      BY <1>1, <1>2, <1>8, <3>1
    <3>4. QED
      BY <3>2, <3>3
  <2>3. QED
    BY <2>1, <2>2
<1>10. ASSUME NEW i \in Files, i # 1
       PROVE  /\ at[i] + Len(new[i]) <= at[i - 1]
              /\ i <= 2 \/ ~d.slipped => at[i] + Len(new[i]) = at[i - 1]
              /\ \A j \in 1..Len(new[i]) : new[i][j] = accepted[at[i] + j]
  <2>1. /\ i - 1 \in Files /\ (i <= 2 => i = 2) /\ End(from, accepted, i) = from[i - 1]
    BY <1>1, <1>10 DEF End
  <2>2. /\ at[i] \in Nat /\ at[i - 1] \in Nat /\ from[i] \in Nat /\ from[i - 1] \in Nat /\ from[i - 1] <= at[i - 1]
        /\ Len(files[i]) \in Nat /\ Len(files[i - 1]) \in Nat
    BY <1>1, <1>2, <1>8, <2>1
  <2>3. i = 2 /\ ~turned => at[i - 1] = from[i - 1]
    BY <1>1, <1>3
  <2>4. CASE refused # {} /\ ~(turned /\ i = 2) /\ new[i] = files[i] /\ at[i] = from[i]
    <3>1. from[i] + Len(files[i]) <= from[i - 1] /\ (i <= 2 => from[i] + Len(files[i]) = from[i - 1])
      BY <1>2, <2>1
    <3>2. \A j \in 1..Len(new[i]) : new[i][j] = accepted[at[i] + j]
      BY <1>2, <2>4
    <3>3. d.slipped
      BY <1>4, <2>4
    <3>4. at[i] + Len(new[i]) <= at[i - 1]
      BY <2>2, <2>4, <3>1
    <3>5. i <= 2 => at[i] + Len(new[i]) = at[i - 1]
      BY <2>1, <2>2, <2>3, <2>4, <3>1
    <3>6. QED
      BY <3>2, <3>3, <3>4, <3>5
  <2>5. CASE new[i] = files[i - 1] /\ at[i] = from[i - 1] /\ at[i - 1] = End(from, accepted, i - 1)
    <3>1. /\ from[i - 1] + Len(files[i - 1]) <= at[i - 1]
          /\ i - 1 <= 2 \/ ~disk.slipped => from[i - 1] + Len(files[i - 1]) = at[i - 1]
          /\ \A j \in 1..Len(files[i - 1]) : files[i - 1][j] = accepted[from[i - 1] + j]
      BY <1>2, <2>1, <2>5
    <3>0. i \in Nat
      BY <1>1
    <3>2. i <= 2 => i - 1 <= 2
      BY <3>0
    <3>3. ~d.slipped => ~disk.slipped
      BY <1>4
    <3>4. QED
      BY <2>5, <3>1, <3>2, <3>3
  <2>6. CASE (refused # {} \/ (i = 2 /\ ~turned)) /\ new[i] = <<>> /\ at[i] = from[i - 1]
    <3>1. Len(new[i]) = 0 /\ at[i] + Len(new[i]) = from[i - 1]
      BY <2>2, <2>6
    <3>2. i <= 2 \/ ~d.slipped => i = 2
      BY <1>4, <2>1, <2>6
    <3>3. i = 2 => at[i] + Len(new[i]) = at[i - 1]
      <4>1. CASE i = 2 /\ ~turned
        BY <2>3, <3>1, <4>1
      <4>2. CASE i = 2 /\ turned
        <5>1. new[2] = files[1] /\ at[1] = n
          BY <1>1, <1>3, <1>5, <4>2
        <5>2. from[1] + Len(files[1]) = n
          BY <1>1, <1>2 DEF End
        <5>3. QED
          BY <2>6, <3>1, <4>2, <5>1, <5>2
      <4>3. QED
        BY <4>1, <4>2
    <3>4. \A j \in 1..Len(new[i]) : new[i][j] = accepted[at[i] + j]
      BY <3>1
    <3>5. QED
      BY <2>2, <3>1, <3>2, <3>3, <3>4
  <2>7. QED
    BY <1>6, <1>10, <2>4, <2>5, <2>6
<1>11. ASSUME NEW i \in Files
       PROVE  /\ at[i] + Len(new[i]) <= End(at, accepted, i)
              /\ i <= 2 \/ ~d.slipped => at[i] + Len(new[i]) = End(at, accepted, i)
              /\ \A j \in 1..Len(new[i]) : new[i][j] = accepted[at[i] + j]
  <2>1. CASE i = 1
    <3>1. at[1] + Len(new[1]) = n /\ End(at, accepted, 1) = n
      BY <1>7 DEF End
    <3>2. \A j \in 1..Len(new[1]) : new[1][j] = accepted[at[1] + j]
      <4>1. CASE turned
        <5>1. Len(new[1]) = 0
          BY <1>5, <4>1
        <5>2. QED
          BY <5>1
      <4>2. CASE ~turned
        <5>1. new[1] = files[1] /\ at[1] = from[1]
          BY <1>1, <1>3, <1>5, <4>2
        <5>2. QED
          BY <1>1, <1>2, <5>1
      <4>3. QED
        BY <4>1, <4>2
    <3>3. QED
      BY <1>1, <2>1, <3>1, <3>2
  <2>2. CASE i # 1
    <3>1. End(at, accepted, i) = at[i - 1]
      BY <2>2 DEF End
    <3>2. QED
      BY <1>10, <2>2, <3>1
  <2>3. QED
    BY <2>1, <2>2
<1>12. at \in [Files -> 0..Len(accepted)]
  BY <1>3, <1>8
<1>13. Laid(at, accepted, d)
  BY <1>9, <1>11, <1>12 DEF Laid, new
<1>14. ~d.slipped => ~disk.slipped /\ \A i \in Files : i # 1 => at[i] = from[i - 1]
  <2> SUFFICES ASSUME ~d.slipped PROVE ~disk.slipped /\ \A i \in Files : i # 1 => at[i] = from[i - 1]
    OBVIOUS
  <2>1. refused = {} /\ ~disk.slipped
    BY <1>4
  <2>2. QED
    BY <1>6, <2>1
<1>15. QED
  BY <1>13, <1>14

\* A full file more: what reached back far enough does so in its new place.
LEMMA MovedReaches ==
  ASSUME FilesInv, ~disk.dead, NEW from, Placing(from, accepted, disk),
         NEW d, NEW refused, Moved(d, Shifted, refused) \/ Moved(d, Rotated, refused)
  PROVE  \E at : /\ Laid(at, accepted, d)
                 /\ Reaching(at, accepted, [d EXCEPT !.dead = TRUE])
                 /\ Moved(d, Rotated, refused) => Reaching(at, accepted, d)
<1>1. PICK at : /\ Laid(at, accepted, d)
                /\ ~d.slipped => ~disk.slipped /\ \A i \in Files : i # 1 => at[i] = from[i - 1]
  BY MovedIsLaid DEF Placing
<1> DEFINE n == Len(accepted)
           lost == [d EXCEPT !.dead = TRUE]
<1>2. n \in Nat /\ MaxLines \in Nat /\ 1 \in Files
      /\ \A i \in Files : i \in Nat /\ i >= 1 /\ (i # 1 => i - 1 \in Files)
  BY FilesAre, Sizes
<1>3. d \in Disks /\ lost \in Disks /\ lost.dead /\ lost.slipped = d.slipped /\ lost.files = d.files
  <2>1. disk \in Disks /\ disk.files \in [1..(Keep + 1) -> Seq(Lines)]
    BY FilesAre
  <2>2. \E new : d = [disk EXCEPT !.files = new, !.slipped = @ \/ refused # {}] /\ new \in [1..(Keep + 1) -> Seq(Lines)]
    <3>1. CASE Moved(d, Shifted, refused)
      <4>1. d = [disk EXCEPT !.files = Shifted(disk.files, refused), !.slipped = @ \/ refused # {}]
        BY <3>1 DEF Moved
      <4>2. Shifted(disk.files, refused) \in [1..(Keep + 1) -> Seq(Lines)]
        BY <2>1, ShiftedIs
      <4>3. QED
        BY <4>1, <4>2
    <3>2. CASE Moved(d, Rotated, refused)
      <4>1. d = [disk EXCEPT !.files = Rotated(disk.files, refused), !.slipped = @ \/ refused # {}]
        BY <3>2 DEF Moved
      <4>2. Rotated(disk.files, refused) \in [1..(Keep + 1) -> Seq(Lines)]
        BY <2>1, ShiftedIs
      <4>3. QED
        BY <4>1, <4>2
    <3>3. QED
      BY <3>1, <3>2
  <2>3. d \in Disks
    BY <2>1, <2>2 DEF Disks
  <2>4. QED
    BY <2>3 DEF Disks
<1>4. Len(disk.files[1]) = MaxLines
  BY DEF Moved
<1>5. at[1] + Len(d.files[1]) = n /\ at[1] \in 0..n /\ Len(d.files[1]) \in Nat
  <2>1. at[1] + Len(d.files[1]) = n /\ at[1] \in 0..n
    BY <1>1, <1>2 DEF Laid, End
  <2>2. d.files[1] \in Seq(Lines)
    BY <1>2, <1>3 DEF Disks, Files
  <2>3. QED
    BY <2>1, <2>2
<1>6. Moved(d, Rotated, refused) => Len(d.files[1]) = 0
  <2> SUFFICES ASSUME Moved(d, Rotated, refused) PROVE Len(d.files[1]) = 0
    OBVIOUS
  <2>1. disk \in Disks /\ disk.files \in [1..(Keep + 1) -> Seq(Lines)]
    BY FilesAre
  <2>2. d.files = Rotated(disk.files, refused)
    BY <2>1 DEF Moved, Disks
  <2>3. Rotated(disk.files, refused)[1] = <<>>
    BY <1>2, <2>1, ShiftedIs DEF Files
  <2>4. QED
    BY <2>2, <2>3
<1>7. ASSUME ~d.slipped, NEW i \in Files
      PROVE  /\ at[i] = 0 \/ n - at[i] >= Beside(lost, i)
             /\ Len(d.files[1]) = 0 => at[i] = 0 \/ n - at[i] >= Beside(d, i)
  <2>1. CASE i = 1
    <3>1. (1 - 1) * MaxLines = 0
      BY <1>2
    <3>2. Beside(lost, 1) = 0 /\ (Len(d.files[1]) = 0 => Beside(d, 1) = 0)
      BY <1>3, <3>1 DEF Beside
    <3>3. n - at[1] >= 0
      BY <1>2, <1>5
    <3>4. QED
      BY <2>1, <3>2, <3>3
  <2>2. CASE i # 1
    <3>1. at[i] = from[i - 1] /\ i - 1 \in Files /\ ~disk.slipped
      BY <1>1, <1>2, <1>7, <2>2
    <3>2. from[i - 1] = 0 \/ n - from[i - 1] >= Beside(disk, i - 1)
      BY <3>1 DEF Placing, Reaching
    <3>3. Beside(disk, i - 1) = (i - 1) * MaxLines
      <4>1. Beside(disk, i - 1) = ((i - 1) - 1) * MaxLines + MaxLines
        BY <1>4 DEF Beside
      <4>2. (i - 1) - 1 \in Nat /\ ((i - 1) - 1) + 1 = i - 1
        <5>1. i \in Nat /\ i - 1 \in Nat /\ i - 1 >= 1
          BY <1>2, <3>1
        <5>2. QED
          BY <5>1
      <4>3. (((i - 1) - 1) + 1) * MaxLines = ((i - 1) - 1) * MaxLines + MaxLines
        BY <1>2, <4>2, Grows
      <4>4. QED
        BY <4>1, <4>2, <4>3
    <3>4. (i - 1) * MaxLines \in Nat
      <4>1. i - 1 \in Nat
        BY <1>2, <3>1
      <4>2. QED
        BY <1>2, <4>1, Times
    <3>5. Beside(lost, i) = (i - 1) * MaxLines /\ (Len(d.files[1]) = 0 => Beside(d, i) = (i - 1) * MaxLines)
      <4>1. PICK m \in Nat : m = (i - 1) * MaxLines
        BY <3>4
      <4>2. Beside(lost, i) = m + 0 /\ (Len(d.files[1]) = 0 => Beside(d, i) = m + 0)
        BY <1>3, <4>1 DEF Beside
      <4>3. QED
        BY <4>1, <4>2
    <3>6. QED
      BY <3>1, <3>2, <3>3, <3>5
  <2>3. QED
    BY <2>1, <2>2
<1>8. Reaching(at, accepted, lost)
  BY <1>3, <1>7 DEF Reaching
<1>9. Moved(d, Rotated, refused) => Reaching(at, accepted, d)
  BY <1>6, <1>7 DEF Reaching
<1>10. QED
  BY <1>1, <1>8, <1>9

\* The same of whatever a rotation leaves.
LEMMA TurnedIsPlaced ==
  ASSUME FilesInv, NEW d \in {disk} \cup HalfTurned \cup Turned, disk.dead => d = disk
  PROVE  \E at : /\ Laid(at, accepted, d)
                 /\ Reaching(at, accepted, [d EXCEPT !.dead = TRUE])
                 /\ ~disk.dead /\ d \in Turned => Reaching(at, accepted, d)
<1>1. PICK from : Placing(from, accepted, disk)
  BY DEF FilesInv, Placed
<1>2. CASE d = disk
  <2> DEFINE lost == [disk EXCEPT !.dead = TRUE]
  <2>1. disk \in Disks /\ Len(accepted) \in Nat /\ Len(disk.files[1]) \in Nat
        /\ \A i \in Files : i \in Nat /\ i >= 1
    BY FilesAre
  <2>2. lost.dead /\ lost.slipped = disk.slipped
    BY <2>1 DEF Disks
  <2>3. ASSUME NEW i \in Files
        PROVE  Beside(lost, i) <= Beside(disk, i) /\ Beside(lost, i) \in Nat /\ Beside(disk, i) \in Nat
    <3>1. (i - 1) * MaxLines \in Nat
      <4>1. i - 1 \in Nat /\ MaxLines \in Nat
        <5>1. i \in Nat /\ i >= 1
          BY <2>1
        <5>2. QED
          BY <5>1, Sizes
      <4>2. QED
        BY <4>1, Times
    <3>2. PICK m \in Nat, l \in Nat : m = (i - 1) * MaxLines /\ l = Len(disk.files[1])
      BY <2>1, <3>1
    <3>3. Beside(lost, i) = m + 0 /\ Beside(disk, i) = m + IF disk.dead THEN 0 ELSE l
      BY <2>2, <3>2 DEF Beside
    <3>4. QED
      BY <3>3
  <2>4. ASSUME NEW i \in Files, from[i] = 0 \/ Len(accepted) - from[i] >= Beside(disk, i)
        PROVE  from[i] = 0 \/ Len(accepted) - from[i] >= Beside(lost, i)
    <3>1. from[i] \in 0..Len(accepted)
      BY <1>1 DEF Placing, Laid
    <3> HIDE DEF lost
    <3>2. PICK f \in Nat, n \in Nat, x \in Nat, y \in Nat :
            f = from[i] /\ n = Len(accepted) /\ x = Beside(lost, i) /\ y = Beside(disk, i)
      <4>1. from[i] \in Nat
        BY <2>1, <3>1
      <4>2. QED
        BY <2>1, <2>3, <4>1
    <3>3. x <= y /\ (f = 0 \/ n - f >= y)
      BY <2>3, <2>4, <3>2
    <3>4. f = 0 \/ n - f >= x
      BY <3>3
    <3>5. QED
      BY <3>2, <3>4
  <2>5. Reaching(from, accepted, lost)
    BY <1>1, <2>2, <2>4 DEF Placing, Reaching
  <2>6. QED
    BY <1>1, <1>2, <2>5 DEF Placing
<1>3. CASE d # disk
  <2>1. PICK refused : Moved(d, Shifted, refused) \/ Moved(d, Rotated, refused)
    BY <1>3, TurnedIs
  <2>2. CASE d \in Turned
    <3>1. PICK r : Moved(d, Rotated, r)
      BY <1>3, <2>2, TurnedIs
    <3>2. QED
      BY <1>1, <1>3, <3>1, MovedReaches
  <2>3. CASE d \notin Turned
    BY <1>1, <1>3, <2>1, <2>3, MovedReaches
  <2>4. QED
    BY <2>2, <2>3
<1>4. QED
  BY <1>2, <1>3

\* A line more, at the end of the current file and of what was written.
LEMMA WroteIsPlaced ==
  ASSUME FilesInv, NEW d, NEW line, Wrote(d, line)
  PROVE  Placed'
<1> DEFINE n == Len(accepted)
           files == d.files
           next == [files EXCEPT ![1] = Append(@, line)]
           lines == Append(accepted, line)
<1>1. /\ d \in Disks /\ accepted \in Seq(Lines) /\ n \in Nat /\ line \in Lines
      /\ 1 \in Files /\ \A i \in Files : i \in Nat /\ i >= 1 /\ (i # 1 => i - 1 \in Files)
      /\ \A i \in Files : files[i] \in Seq(Lines) /\ Len(files[i]) \in Nat
  <2>1. d \in {disk} \cup HalfTurned \cup Turned
    BY DEF Wrote
  <2>2. CaptureTypes
    BY FilesAre
  <2>3. d \in Disks /\ \A i \in Files : files[i] \in Seq(Lines) /\ Len(files[i]) \in Nat
    BY <2>1, <2>2, TurnedTyped DEF Files
  <2>4. line \in Lines
    <3>1. ch.waiting \in Seq(Requests)
      BY <2>2 DEF CaptureTypes
    <3>2. CASE line = Part
      BY <3>2, Sizes
    <3>3. CASE line = Head(ch.waiting)
      BY <3>1, <3>3 DEF Lines, Wrote
    <3>4. QED
      BY <3>2, <3>3 DEF Wrote
  <2>5. QED
    BY <2>3, <2>4, FilesAre
<1>2. PICK at : Laid(at, accepted, d) /\ Reaching(at, accepted, d)
  BY TurnedIsPlaced DEF Wrote
<1>3. /\ \A i \in Files : at[i] \in 0..n
      /\ \A i, j \in Files : i <= j => at[j] <= at[i]
      /\ \A i \in Files : /\ at[i] + Len(files[i]) <= End(at, accepted, i)
                          /\ i <= 2 \/ ~d.slipped => at[i] + Len(files[i]) = End(at, accepted, i)
                          /\ \A j \in 1..Len(files[i]) : files[i][j] = accepted[at[i] + j]
      /\ at = [i \in Files |-> at[i]]
  BY <1>2 DEF Laid
<1>4. /\ lines \in Seq(Lines) /\ Len(lines) = n + 1 /\ lines[n + 1] = line
      /\ \A j \in 1..n : lines[j] = accepted[j]
  BY <1>1
<1>5. /\ disk' = [d EXCEPT !.files = next, !.dead = ~Outlives(line)] /\ accepted' = lines
      /\ disk'.files = next /\ disk'.slipped = d.slipped
  <2>1. disk' = [d EXCEPT !.files = next, !.dead = ~Outlives(line)] /\ accepted' = lines
    BY DEF Wrote
  <2> HIDE DEF next
  <2>2. QED
    BY <1>1, <2>1 DEF Disks
<1>6. next[1] = Append(files[1], line) /\ \A i \in Files : i # 1 => next[i] = files[i]
  <2>1. DOMAIN files = Files
    BY <1>1 DEF Disks, Files
  <2>2. QED
    BY <1>1, <2>1
<1> HIDE DEF n, files, next, lines
<1>7. at[1] + Len(files[1]) = n /\ at[1] \in Nat /\ Len(files[1]) \in Nat /\ files[1] \in Seq(Lines)
  <2>1. at[1] + Len(files[1]) = n
    <3>1. at[1] + Len(files[1]) = End(at, accepted, 1)
      BY <1>1, <1>3
    <3>2. End(at, accepted, 1) = n
      BY DEF End, n
    <3>3. QED
      BY <3>1, <3>2
  <2>2. at[1] \in Nat
    <3>1. at[1] \in 0..n
      BY <1>1, <1>3
    <3>2. QED
      BY <1>1, <3>1
  <2>3. QED
    BY <1>1, <2>1, <2>2
<1>8. /\ Len(next[1]) = Len(files[1]) + 1 /\ next[1][Len(files[1]) + 1] = line
      /\ \A j \in 1..Len(files[1]) : next[1][j] = files[1][j]
  BY <1>1, <1>6, <1>7
<1>p. PICK a \in Nat, l \in Nat : a = at[1] /\ l = Len(files[1]) /\ n = a + l
  BY <1>7
<1>9. at[1] + Len(next[1]) = n + 1
  <2>1. a + (l + 1) = (a + l) + 1
    OBVIOUS
  <2>2. QED
    BY <1>p, <1>8, <2>1
<1>10. ASSUME NEW i \in Files
       PROVE  /\ at[i] + Len(next[i]) <= End(at, lines, i)
              /\ i <= 2 \/ ~d.slipped => at[i] + Len(next[i]) = End(at, lines, i)
              /\ \A j \in 1..Len(next[i]) : next[i][j] = lines[at[i] + j]
  <2>1. CASE i = 1
    <3>1. End(at, lines, 1) = n + 1
      BY <1>4 DEF End
    <3>2. ASSUME NEW j \in 1..Len(next[1])
          PROVE  next[1][j] = lines[at[1] + j]
      <4>1. CASE j = Len(files[1]) + 1
        <5>1. at[1] + j = n + 1
          <6>1. a + (l + 1) = (a + l) + 1
            OBVIOUS
          <6>2. QED
            BY <1>p, <4>1, <6>1
        <5>2. QED
          BY <1>4, <1>8, <4>1, <5>1
      <4>2. CASE j # Len(files[1]) + 1
        <5>1. j \in 1..Len(files[1])
          BY <1>7, <1>8, <3>2, <4>2
        <5>2. at[1] + j \in 1..n
          BY <1>1, <1>7, <5>1
        <5>3. next[1][j] = accepted[at[1] + j]
          BY <1>1, <1>3, <1>8, <5>1
        <5>4. QED
          BY <1>4, <5>2, <5>3
      <4>3. QED
        BY <4>1, <4>2
    <3>3. n + 1 \in Nat
      BY <1>1
    <3>4. QED
      BY <1>9, <2>1, <3>1, <3>2, <3>3
  <2>2. CASE i # 1
    <3>1. next[i] = files[i] /\ End(at, lines, i) = at[i - 1] /\ End(at, accepted, i) = at[i - 1] /\ i - 1 \in Files
      BY <1>1, <1>6, <2>2 DEF End
    <3>2. /\ at[i] + Len(files[i]) <= at[i - 1]
          /\ i <= 2 \/ ~d.slipped => at[i] + Len(files[i]) = at[i - 1]
          /\ at[i] \in 0..n /\ at[i - 1] \in 0..n /\ Len(files[i]) \in Nat
      BY <1>1, <1>3, <3>1
    <3>3. \A j \in 1..Len(files[i]) : at[i] + j \in 1..n
      BY <1>1, <3>2
    <3>4. \A j \in 1..Len(files[i]) : files[i][j] = accepted[at[i] + j]
      BY <1>3
    <3>5. \A j \in 1..Len(files[i]) : files[i][j] = lines[at[i] + j]
      BY <1>4, <3>3, <3>4
    <3>6. QED
      BY <3>1, <3>2, <3>5
  <2>3. QED
    BY <2>1, <2>2
<1>11. at \in [Files -> 0..Len(lines)]
  <2>1. \A i \in Files : at[i] \in 0..Len(lines)
    BY <1>1, <1>3, <1>4
  <2>2. QED
    BY <1>3, <2>1
<1>12. Laid(at, lines, disk')
  BY <1>3, <1>5, <1>10, <1>11 DEF Laid
<1>13. ASSUME ~d.slipped, NEW i \in Files
       PROVE  at[i] = 0 \/ Len(lines) - at[i] >= Beside(disk', i)
  <2>1. /\ d.dead = FALSE /\ (at[i] = 0 \/ n - at[i] >= Beside(d, i))
    <3>1. d.dead = disk.dead /\ ~disk.dead
      <4>1. d \in {disk} \cup HalfTurned \cup Turned /\ ~disk.dead
        BY DEF Wrote
      <4>2. QED
        BY <4>1, TurnedTyped, FilesAre
    <3>2. d.dead \in BOOLEAN
      BY <1>1 DEF Disks
    <3>3. QED
      BY <1>2, <1>13, <3>1, <3>2 DEF Reaching, n
  <2>2. (i - 1) * MaxLines \in Nat
    <3>1. i - 1 \in Nat /\ MaxLines \in Nat
      <4>1. i \in Nat /\ i >= 1
        BY <1>1
      <4>2. QED
        BY <4>1, Sizes
    <3>2. QED
      BY <3>1, Times
  <2>3. PICK m \in Nat, k \in Nat, b \in Nat : m = (i - 1) * MaxLines /\ k = Len(files[1]) /\ b = at[i]
    <3>1. at[i] \in 0..n
      BY <1>3
    <3>2. at[i] \in Nat
      BY <1>1, <3>1
    <3>3. QED
      BY <1>7, <2>2, <3>2
  <2>4. Beside(d, i) = m + k /\ Beside(disk', i) = m + IF disk'.dead THEN 0 ELSE k + 1
    BY <1>5, <1>8, <2>1, <2>3 DEF Beside, files
  <2>5. b = 0 \/ n - b >= m + k
    BY <2>1, <2>3, <2>4
  <2>6. b = 0 \/ (n + 1) - b >= m + IF disk'.dead THEN 0 ELSE k + 1
    BY <1>1, <2>5
  <2>7. QED
    BY <1>4, <2>3, <2>4, <2>6
<1>14. Reaching(at, lines, disk')
  BY <1>5, <1>13 DEF Reaching
<1>15. QED
  BY <1>5, <1>12, <1>14 DEF Placed, Placing

LEMMA WriteIsPlaced ==
  ASSUME FilesInv, WriteLine
  PROVE  Placed'
<1>1. ASSUME NEW d, Dropped(d)
      PROVE  Placed'
  <2>1. d \in {disk} \cup HalfTurned \cup Turned /\ (disk.dead => d = disk)
    BY <1>1 DEF Dropped
  <2>2. PICK at : Laid(at, accepted, d) /\ Reaching(at, accepted, [d EXCEPT !.dead = TRUE])
    BY <2>1, TurnedIsPlaced
  <2>3. disk' = [d EXCEPT !.dead = TRUE] /\ accepted' = accepted
    BY <1>1 DEF Dropped
  <2>4. d \in Disks
    BY <2>1, TurnedTyped, FilesAre
  <2>5. disk'.files = d.files /\ disk'.slipped = d.slipped
    BY <2>3, <2>4 DEF Disks
  <2>6. Laid(at, accepted, disk')
    BY <2>2, <2>5 DEF Laid
  <2>7. QED
    BY <2>2, <2>3, <2>6 DEF Placed, Placing
<1>2. QED
  BY <1>1, WroteIsPlaced, WriteLineIs

\* A part of a line is the last that is written, for the encoder is of no use then.
LEMMA WriteKeepsPartLast ==
  ASSUME FilesInv, WriteLine
  PROVE  PartLast'
<1>1. /\ accepted \in Seq(Lines) /\ Len(accepted) \in Nat /\ disk \in Disks /\ CaptureTypes
      /\ \A i \in DOMAIN accepted : accepted[i] = Part => i = Len(accepted) /\ disk.dead
      /\ DOMAIN accepted = 1..Len(accepted)
  BY FilesAre DEF FilesInv, PartLast
<1>2. ASSUME NEW d, Dropped(d)
      PROVE  PartLast'
  <2>1. d \in Disks
    BY <1>1, <1>2, TurnedTyped DEF Dropped
  <2>2. accepted' = accepted /\ disk'.dead
    BY <1>2, <2>1 DEF Dropped, Disks
  <2>3. QED
    BY <1>1, <2>2 DEF PartLast
<1>3. ASSUME NEW d, NEW line, Wrote(d, line)
      PROVE  PartLast'
  <2>1. d \in Disks /\ ~disk.dead
    BY <1>1, <1>3, TurnedTyped DEF Wrote
  <2> DEFINE new == Append(d.files[1], line)
  <2>2. /\ disk' = [d EXCEPT !.files[1] = Append(@, line), !.dead = ~Outlives(line)]
        /\ accepted' = Append(accepted, line)
    BY <1>3 DEF Wrote
  <2>3. disk'.dead <=> line = Part
    BY <2>1, <2>2 DEF Outlives, Disks
  <2>4. /\ Len(accepted') = Len(accepted) + 1 /\ accepted'[Len(accepted) + 1] = line
        /\ DOMAIN accepted' = 1..(Len(accepted) + 1)
        /\ \A i \in 1..Len(accepted) : accepted'[i] = accepted[i]
    BY <1>1, <2>2
  <2>5. ASSUME NEW i \in DOMAIN accepted', accepted'[i] = Part
        PROVE  i = Len(accepted') /\ disk'.dead
    <3>1. CASE i = Len(accepted) + 1
      BY <2>3, <2>4, <2>5, <3>1
    <3>2. CASE i # Len(accepted) + 1
      <4>1. i \in 1..Len(accepted)
        BY <1>1, <2>4, <3>2
      <4>2. QED
        BY <1>1, <2>1, <2>4, <2>5, <4>1
    <3>3. QED
      BY <3>1, <3>2
  <2>6. QED
    BY <2>5 DEF PartLast
<1>4. QED
  BY <1>2, <1>3, WriteLineIs

LEMMA FilesNext == FilesInv /\ [Next]_vars => FilesInv'
<1> SUFFICES ASSUME FilesInv, [Next]_vars PROVE Placed' /\ PartLast'
  BY NextTypes DEF FilesInv
<1>1. CASE WriteLine
  BY <1>1, WriteIsPlaced, WriteKeepsPartLast
<1>2. CASE ~WriteLine
  <2>1. UNCHANGED <<disk, accepted>>
    <3>1. ASSUME NEW r \in Requests, Arrive(r) \/ Degrade(r) \/ Finish(r)
          PROVE  UNCHANGED <<disk, accepted>>
      BY <3>1 DEF Arrive, Degrade, Finish, capture
    <3>2. CASE Notice \/ WindowPasses \/ FlushTick \/ FlushTell \/ ListenerFails \/ Stop \/ DrainOver \/ UNCHANGED vars
      BY <3>2 DEF Notice, WindowPasses, FlushTick, FlushTell, ListenerFails, Stop, DrainOver, vars, capture
    <3>3. CASE Closing
      BY <3>3 DEF Closing, Shutdown, CloseListener, AwaitRequests, CloseCapture, AwaitCapture, CloseStore, StopLog, Exit, capture
    <3>4. QED
      BY <1>2, <3>1, <3>2, <3>3 DEF Next
  <2>2. QED
    BY <2>1 DEF FilesInv, Placed, PartLast
<1>3. QED
  BY <1>1, <1>2

\* The current file and the one before it are the end of what was written, whatever has
\* become of the others.
LEMMA NewestAreEnd ==
  ASSUME FilesInv
  PROVE  IsSuffix(disk.files[2] \o disk.files[1], accepted)
<1>1. PICK from : Laid(from, accepted, disk)
  BY DEF FilesInv, Placed, Placing
<1> DEFINE n == Len(accepted)
           a == from[1]
           b == from[2]
           s == disk.files[1]
           t == disk.files[2]
<1>2. accepted \in Seq(Lines) /\ n \in Nat /\ s \in Seq(Lines) /\ t \in Seq(Lines) /\ 1 \in Files /\ 2 \in Files
  BY FilesAre
<1>3. a \in 0..n /\ b \in 0..n /\ a + Len(s) = n /\ b + Len(t) = a
  <2>1. /\ \A i \in Files : from[i] \in 0..n
        /\ \A i \in Files : i <= 2 => from[i] + Len(disk.files[i]) = End(from, accepted, i)
    BY <1>1 DEF Laid
  <2>2. a + Len(s) = End(from, accepted, 1) /\ b + Len(t) = End(from, accepted, 2) /\ a \in 0..n /\ b \in 0..n
    BY <1>2, <2>1
  <2>3. End(from, accepted, 1) = n /\ End(from, accepted, 2) = a
    BY DEF End
  <2>4. QED
    BY <2>2, <2>3
<1>4. /\ \A j \in 1..Len(s) : s[j] = accepted[a + j]
      /\ \A j \in 1..Len(t) : t[j] = accepted[b + j]
  BY <1>1, <1>2 DEF Laid
<1> HIDE DEF a, b, n, s, t
<1>5. /\ Len(s) \in Nat /\ Len(t) \in Nat /\ a \in Nat /\ b \in Nat /\ a <= n /\ b <= a
      /\ Len(s) = n - a /\ Len(t) = a - b
  BY <1>2, <1>3
<1>6. s = SubSeq(accepted, a + 1, n)
  <2>1. /\ SubSeq(accepted, a + 1, n) \in Seq(Lines) /\ Len(SubSeq(accepted, a + 1, n)) = n - a
        /\ \A j \in 1..(n - a) : SubSeq(accepted, a + 1, n)[j] = accepted[a + j]
    BY <1>2, <1>5 DEF n
  <2>2. QED
    BY <1>2, <1>4, <1>5, <2>1, SeqEqual
<1>7. t = SubSeq(accepted, b + 1, a)
  <2>1. /\ SubSeq(accepted, b + 1, a) \in Seq(Lines) /\ Len(SubSeq(accepted, b + 1, a)) = a - b
        /\ \A j \in 1..(a - b) : SubSeq(accepted, b + 1, a)[j] = accepted[b + j]
    BY <1>2, <1>5 DEF n
  <2>2. QED
    BY <1>2, <1>4, <1>5, <2>1, SeqEqual
<1>8. b + 1 \in 1..(n + 1) /\ a \in (b + 1) - 1..n /\ n \in a..n /\ b \in 0..n
  BY <1>2, <1>5
<1>9. t \o s = SubSeq(accepted, b + 1, n)
  BY <1>2, <1>6, <1>7, <1>8, ConcatAdjacentSubSeq DEF n
<1>10. IsSuffix(SubSeq(accepted, b + 1, n), accepted)
  BY <1>2, <1>8, EndIsSuffix DEF n
<1>11. QED
  BY <1>9, <1>10 DEF s, t

\* Where a line stands among those written is by its file and its place in it.
LEMMA PlacedInOrder ==
  ASSUME FilesInv
  PROVE  OlderFilesAreOlder
<1>1. PICK from : Laid(from, accepted, disk)
  BY DEF FilesInv, Placed, Placing
<1> DEFINE n == Len(accepted)
           files == disk.files
<1>2. /\ accepted \in Seq(Lines) /\ n \in Nat /\ DOMAIN files = Files /\ DOMAIN accepted = 1..n
      /\ \A i \in Files : files[i] \in Seq(Lines) /\ Len(files[i]) \in Nat /\ DOMAIN files[i] = 1..Len(files[i])
      /\ \A i \in Files : i \in Nat /\ i >= 1 /\ (i # 1 => i - 1 \in Files)
  <2>1. /\ accepted \in Seq(Lines) /\ n \in Nat /\ files \in [1..(Keep + 1) -> Seq(Lines)]
        /\ \A i \in Files : files[i] \in Seq(Lines) /\ Len(files[i]) \in Nat
        /\ \A i \in Files : i \in Nat /\ i >= 1 /\ (i # 1 => i - 1 \in Files)
    BY FilesAre
  <2>2. DOMAIN files = Files
    BY <2>1 DEF Files
  <2>3. \A i \in Files : DOMAIN files[i] = 1..Len(files[i])
    BY <2>1
  <2>4. QED
    BY <2>1, <2>2, <2>3
<1> HIDE DEF files
\* A file ends before any younger one begins.
<1>3. ASSUME NEW i \in Files, NEW p \in 1..Len(files[i])
      PROVE  from[i] + p \in 1..n /\ files[i][p] = accepted[from[i] + p]
             /\ \A j \in Files : j < i => from[i] + p <= from[j]
  <2>1. files[i][p] = accepted[from[i] + p]
    BY <1>1 DEF Laid, files
  <2>2. from[i] \in 0..n /\ from[i] + Len(files[i]) <= End(from, accepted, i) /\ Len(files[i]) \in Nat
    BY <1>1, <1>2 DEF Laid, files
  <2>3. CASE i = 1
    <3>1. from[i] + Len(files[i]) <= n
      BY <2>2, <2>3 DEF End
    <3>2. from[i] + p \in 1..n
      BY <1>2, <2>2, <3>1
    <3>3. \A j \in Files : ~(j < i)
      BY <1>2, <2>3
    <3>4. QED
      BY <2>1, <3>2, <3>3
  <2>4. CASE i # 1
    <3>1. i - 1 \in Files /\ from[i] + Len(files[i]) <= from[i - 1]
      BY <1>2, <2>2, <2>4 DEF End
    <3>2. from[i - 1] \in 0..n
      BY <1>1, <3>1 DEF Laid
    <3>3. from[i] + p \in 1..n /\ from[i] + p <= from[i - 1] /\ from[i] + p \in Nat
      BY <1>2, <2>2, <3>1, <3>2
    <3>4. ASSUME NEW j \in Files, j < i
          PROVE  from[i] + p <= from[j]
      <4>1. j <= i - 1
        <5>1. i \in Nat /\ j \in Nat
          BY <1>2
        <5>2. QED
          BY <3>4, <5>1
      <4>2. from[i - 1] <= from[j] /\ from[j] \in 0..n
        BY <1>1, <3>1, <4>1 DEF Laid
      <4>3. from[j] \in Nat /\ from[i - 1] \in Nat
        BY <1>2, <3>2, <4>2
      <4>4. QED
        BY <3>3, <4>2, <4>3
    <3>5. QED
      BY <2>1, <3>3, <3>4
  <2>5. QED
    BY <2>3, <2>4
<1>4. ASSUME NEW i \in Files, NEW j \in Files, NEW p \in 1..Len(files[i]), NEW q \in 1..Len(files[j]),
             j < i \/ (i = j /\ p < q)
      PROVE  \E a, b \in 1..n : a < b /\ accepted[a] = files[i][p] /\ accepted[b] = files[j][q]
  <2>1. /\ from[i] + p \in 1..n /\ files[i][p] = accepted[from[i] + p]
        /\ from[j] + q \in 1..n /\ files[j][q] = accepted[from[j] + q]
        /\ j < i => from[i] + p <= from[j]
    BY <1>3
  <2>2. from[i] \in 0..n /\ from[j] \in 0..n /\ p \in Nat /\ q \in Nat /\ q >= 1
    <3>1. Len(files[i]) \in Nat /\ Len(files[j]) \in Nat
      BY <1>2
    <3>2. QED
      BY <1>1, <3>1 DEF Laid
  <2>3. PICK f \in Nat, g \in Nat : f = from[i] /\ g = from[j]
    BY <1>2, <2>2
  <2>4. f + p < g + q
    <3>1. CASE j < i
      BY <2>1, <2>2, <2>3, <3>1
    <3>2. CASE i = j /\ p < q
      BY <2>2, <2>3, <3>2
    <3>3. QED
      BY <1>4, <3>1, <3>2
  <2>5. QED
    BY <2>1, <2>3, <2>4
<1>5. \A i, j \in DOMAIN files : \A p \in DOMAIN files[i], q \in DOMAIN files[j] :
        j < i \/ (i = j /\ p < q) => \E a, b \in DOMAIN accepted : a < b /\ accepted[a] = files[i][p] /\ accepted[b] = files[j][q]
  <2> SUFFICES ASSUME NEW i \in DOMAIN files, NEW j \in DOMAIN files, NEW p \in DOMAIN files[i], NEW q \in DOMAIN files[j],
                      j < i \/ (i = j /\ p < q)
               PROVE  \E a, b \in DOMAIN accepted : a < b /\ accepted[a] = files[i][p] /\ accepted[b] = files[j][q]
    OBVIOUS
  <2>1. i \in Files /\ j \in Files /\ p \in 1..Len(files[i]) /\ q \in 1..Len(files[j]) /\ DOMAIN accepted = 1..n
    BY <1>2
  <2>2. \E a, b \in 1..n : a < b /\ accepted[a] = files[i][p] /\ accepted[b] = files[j][q]
    BY <1>4, <2>1
  <2> HIDE DEF n
  <2>3. QED
    BY <2>1, <2>2
<1>6. QED
  BY <1>5 DEF OlderFilesAreOlder, files

\* Whatever the service writes down is there in the end, or its loss is told, but for
\* the lines of a file that could not make way: the records of the capture
\* (capture.Writer), the lines of its files, which are the last that were written, in
\* order (rotatingWriter.rotate), and what the log kept silent (repeatHandler.Close).
THEOREM WrittenDownOrTold == Spec => []NothingLostUntold
<1>1. FilesInv => FilesHoldTheLast
  BY PlacedIsEnd, NewestAreEnd DEF FilesHoldTheLast
<1>2. FilesInv => OlderFilesAreOlder
  BY PlacedInOrder
<1>3. FilesInv => NothingFollowsAPart
  BY DEF FilesInv, PartLast, NothingFollowsAPart
<1>4. Spec => [](FilesHoldTheLast /\ OlderFilesAreOlder /\ NothingFollowsAPart)
  BY <1>1, <1>2, <1>3, FilesInit, FilesNext, PTL DEF Spec
<1>5. CaptureTellsItsLosses /\ (FilesHoldTheLast /\ OlderFilesAreOlder /\ NothingFollowsAPart) /\ RepeatsAreTold
      => NothingLostUntold
  BY DEF NothingLostUntold
<1>6. QED
  BY <1>4, <1>5, CaptureLosesNothingUntold, SilenceIsTold, PTL
=============================================================================
