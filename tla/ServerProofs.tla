---------------------------- MODULE ServerProofs ----------------------------
(***************************************************************************)
(* What is proved of Server for every set of clients, every mix of their   *)
(* requests and every size of channel, batch and queue: a write that was   *)
(* answered ok is durable, and as long as nobody scans a filter, the locks *)
(* are taken in an order that excludes deadlock.                           *)
(***************************************************************************)
EXTENDS Server, SequenceTheorems, TLAPS

(* The order of the locks: metadata, segments, then sealing and buffer. *)
Rank(lock) == IF lock = "metadata" THEN 0 ELSE IF lock = "segments" THEN 1 ELSE 2

LockNames == {"buffer", "sealing", "segments", "metadata"}
Modes == {"read", "write"}
StepType == [do : {"touch", "hold", "release"}, mode : Modes, lock : LockNames]

(* A program releases what it holds, and takes only locks above those it   *)
(* still holds.                                                            *)
Releases(step, h) == step.do = "release" /\ <<step.mode, step.lock>> = h
Ends(prog, first, h) == \E j \in first .. Len(prog) : Releases(prog[j], h)
Below(prog, first, i, h) ==
    Rank(h[2]) < Rank(prog[i].lock) \/ \E j \in first .. i - 1 : Releases(prog[j], h)
Ordered(prog, held) ==
    /\ \A h \in held : Ends(prog, 1, h)
    /\ \A k \in 1 .. Len(prog) : prog[k].do = "hold" =>
           Ends(prog, k + 1, <<prog[k].mode, prog[k].lock>>)
    /\ \A i \in 1 .. Len(prog) : prog[i].do # "release" =>
           /\ \A h \in held : Below(prog, 1, i, h)
           /\ \A k \in 1 .. i - 1 : prog[k].do = "hold" =>
                  Below(prog, k + 1, i, <<prog[k].mode, prog[k].lock>>)

LocksTyped ==
    /\ program \in [Threads -> Seq(StepType)]
    /\ holds \in [Threads -> SUBSET (Modes \X LockNames)]
    /\ waits \subseteq Threads
LocksInv ==
    /\ LocksTyped
    /\ \A t \in Threads : Ordered(program[t], holds[t])
    /\ \A t \in waits : Acquires(t) /\ Head(program[t]).mode = "write"

-----------------------------------------------------------------------------
(* The programs. *)

LEMMA Shifted ==
  ASSUME NEW prog \in Seq(StepType), prog # <<>>
  PROVE  /\ Tail(prog) \in Seq(StepType) /\ Len(Tail(prog)) = Len(prog) - 1
         /\ Len(prog) \in Nat \ {0}
         /\ \A i \in 1 .. Len(prog) - 1 : Tail(prog)[i] = prog[i + 1]
         /\ Head(prog) = prog[1] /\ prog[1] \in StepType
  OBVIOUS

(* What the thread holds after a step. *)
After(step, held) ==
    CASE step.do = "touch" -> held
      [] step.do = "hold" -> held \cup {<<step.mode, step.lock>>}
      [] step.do = "release" -> held \ {<<step.mode, step.lock>>}

LEMMA OrderedTail ==
  ASSUME NEW prog \in Seq(StepType), prog # <<>>, NEW held, Ordered(prog, held)
  PROVE  Ordered(Tail(prog), After(Head(prog), held))
  <1>1. PICK n, rest, step, left :
            /\ n = Len(prog) - 1 /\ rest = Tail(prog) /\ step = prog[1]
            /\ left = After(step, held)
    OBVIOUS
  <1>2. /\ n \in Nat /\ Len(prog) = n + 1 /\ Len(rest) = n /\ step = Head(prog)
        /\ \A i \in 1 .. n : rest[i] = prog[i + 1]
        /\ step.do \in {"touch", "hold", "release"}
    <2>1. step \in StepType /\ step = Head(prog)
      BY <1>1, Shifted
    <2>2. n \in Nat /\ Len(prog) = n + 1 /\ Len(rest) = n
      BY <1>1, Shifted
    <2>3. \A i \in 1 .. n : rest[i] = prog[i + 1]
      BY <1>1, Shifted
    <2> QED
      BY <2>1, <2>2, <2>3 DEF StepType
  <1>3. PICK own : own = <<step.mode, step.lock>>
    OBVIOUS
  <1>4. /\ \A h \in left : h \in held \/ (h = own /\ step.do = "hold")
        /\ \A h \in left : step.do = "release" => h # own
    BY <1>1, <1>2, <1>3 DEF After
  <1>5. ASSUME NEW h \in left PROVE Ends(rest, 1, h)
    <2>1. PICK j \in 1 .. n + 1 : j # 1 /\ Releases(prog[j], h)
      <3>1. CASE h \in held
        <4>1. PICK j \in 1 .. n + 1 : Releases(prog[j], h)
          BY <1>2, <3>1 DEF Ordered, Ends
        <4>2. j # 1
          BY <1>1, <1>3, <1>4, <4>1 DEF Releases
        <4> QED
          BY <4>1, <4>2
      <3>2. CASE h = own /\ step.do = "hold"
        <4>1. Ends(prog, 1 + 1, own)
          BY <1>1, <1>2, <1>3, <3>2 DEF Ordered
        <4> QED
          BY <1>2, <3>2, <4>1 DEF Ends
      <3> QED
        BY <1>4, <1>5, <3>1, <3>2
    <2>2. j - 1 \in 1 .. n /\ rest[j - 1] = prog[j]
      BY <1>2, <2>1
    <2> QED
      BY <1>2, <2>1, <2>2 DEF Ends
  <1>6. ASSUME NEW k \in 1 .. n, rest[k].do = "hold"
        PROVE  Ends(rest, k + 1, <<rest[k].mode, rest[k].lock>>)
    <2>1. k + 1 \in 1 .. n + 1 /\ rest[k] = prog[k + 1]
      BY <1>2
    <2>2. PICK j \in (k + 1) + 1 .. n + 1 : Releases(prog[j], <<rest[k].mode, rest[k].lock>>)
      BY <1>2, <1>6, <2>1 DEF Ordered, Ends
    <2>3. j - 1 \in k + 1 .. n /\ j - 1 \in 1 .. n /\ rest[j - 1] = prog[j]
      BY <1>2, <2>2
    <2> QED
      BY <1>2, <2>2, <2>3 DEF Ends
  <1>7. ASSUME NEW i \in 1 .. n, rest[i].do # "release", NEW h \in left
        PROVE  Below(rest, 1, i, h)
    <2>1. i + 1 \in 1 .. n + 1 /\ rest[i] = prog[i + 1]
      BY <1>2
    <2>2. \/ Rank(h[2]) < Rank(prog[i + 1].lock)
          \/ \E j \in 1 .. i : j # 1 /\ Releases(prog[j], h)
      <3>1. CASE h \in held
        <4>1. Below(prog, 1, i + 1, h)
          BY <1>2, <1>7, <2>1, <3>1 DEF Ordered
        <4>2. (i + 1) - 1 = i
          OBVIOUS
        <4>3. ~ Releases(prog[1], h)
          BY <1>1, <1>3, <1>4, <1>7 DEF Releases
        <4> QED
          BY <4>1, <4>2, <4>3 DEF Below
      <3>2. CASE h = own /\ step.do = "hold"
        <4>1. 1 \in 1 .. (i + 1) - 1 /\ (i + 1) - 1 = i
          OBVIOUS
        <4>2. Below(prog, 1 + 1, i + 1, h)
          BY <1>1, <1>2, <1>3, <1>7, <2>1, <3>2, <4>1 DEF Ordered
        <4> QED
          BY <4>1, <4>2 DEF Below
      <3> QED
        BY <1>4, <1>7, <3>1, <3>2
    <2>3. CASE Rank(h[2]) < Rank(prog[i + 1].lock)
      BY <2>1, <2>3 DEF Below
    <2>4. CASE \E j \in 1 .. i : j # 1 /\ Releases(prog[j], h)
      <3>1. PICK j \in 1 .. i : j # 1 /\ Releases(prog[j], h)
        BY <2>4
      <3>2. j - 1 \in 1 .. i - 1 /\ rest[j - 1] = prog[j]
        BY <1>2, <3>1
      <3> QED
        BY <3>1, <3>2 DEF Below
    <2> QED
      BY <2>2, <2>3, <2>4
  <1>8. ASSUME NEW i \in 1 .. n, rest[i].do # "release", NEW k \in 1 .. i - 1, rest[k].do = "hold"
        PROVE  Below(rest, k + 1, i, <<rest[k].mode, rest[k].lock>>)
    <2>1. PICK h : h = <<rest[k].mode, rest[k].lock>>
      OBVIOUS
    <2>2. /\ i + 1 \in 1 .. n + 1 /\ rest[i] = prog[i + 1]
          /\ k + 1 \in 1 .. (i + 1) - 1 /\ rest[k] = prog[k + 1] /\ (i + 1) - 1 = i
      BY <1>2
    <2>3. Below(prog, (k + 1) + 1, i + 1, h)
      BY <1>2, <1>8, <2>1, <2>2 DEF Ordered
    <2>4. CASE Rank(h[2]) < Rank(prog[i + 1].lock)
      BY <2>1, <2>2, <2>4 DEF Below
    <2>5. CASE \E j \in (k + 1) + 1 .. i : Releases(prog[j], h)
      <3>1. PICK j \in (k + 1) + 1 .. i : Releases(prog[j], h)
        BY <2>5
      <3>2. j - 1 \in k + 1 .. i - 1 /\ rest[j - 1] = prog[j]
        BY <1>2, <3>1
      <3> QED
        BY <2>1, <3>1, <3>2 DEF Below
    <2> QED
      BY <2>2, <2>3, <2>4, <2>5 DEF Below
  <1> QED
    BY <1>1, <1>2, <1>5, <1>6, <1>7, <1>8 DEF Ordered

Legal(prog) == prog \in Seq(StepType) /\ Ordered(prog, {})

(* Touches only, of locks above a rank. *)
Touches(prog, rank) ==
    /\ prog \in Seq(StepType)
    /\ \A i \in 1 .. Len(prog) : prog[i].do = "touch" /\ rank < Rank(prog[i].lock)

LEMMA Joined ==
  ASSUME NEW p \in Seq(StepType), NEW q \in Seq(StepType)
  PROVE  /\ p \o q \in Seq(StepType) /\ Len(p \o q) = Len(p) + Len(q)
         /\ Len(p) \in Nat /\ Len(q) \in Nat
         /\ \A i \in 1 .. Len(p) : (p \o q)[i] = p[i]
         /\ \A i \in Len(p) + 1 .. Len(p) + Len(q) : (p \o q)[i] = q[i - Len(p)]
  <1>1. p \o q \in Seq(StepType)
    BY ConcatProperties
  <1>2. Len(p) \in Nat /\ Len(q) \in Nat
    OBVIOUS
  <1>3. Len(p \o q) = Len(p) + Len(q)
    BY ConcatProperties
  <1>4. \A i \in 1 .. Len(p) + Len(q) : (p \o q)[i] = IF i <= Len(p) THEN p[i] ELSE q[i - Len(p)]
    BY ConcatProperties
  <1>5. \A i \in 1 .. Len(p) : i \in 1 .. Len(p) + Len(q) /\ i <= Len(p)
    BY <1>2
  <1>6. \A i \in Len(p) + 1 .. Len(p) + Len(q) : i \in 1 .. Len(p) + Len(q) /\ ~(i <= Len(p))
    BY <1>2
  <1> QED
    BY <1>1, <1>2, <1>3, <1>4, <1>5, <1>6

LEMMA TouchOne ==
  ASSUME NEW mode \in Modes, NEW lock \in LockNames
  PROVE  /\ Touch(mode, lock) \in Seq(StepType) /\ Len(Touch(mode, lock)) = 1
         /\ Touch(mode, lock)[1].do = "touch" /\ Touch(mode, lock)[1].lock = lock
  <1>1. PICK step : step = [do |-> "touch", mode |-> mode, lock |-> lock]
    OBVIOUS
  <1>2. step \in StepType /\ step.do = "touch" /\ step.lock = lock
    BY <1>1 DEF StepType
  <1>3. Touch(mode, lock) = <<step>>
    BY <1>1 DEF Touch
  <1> QED
    BY <1>2, <1>3

LEMMA TouchTouches ==
  ASSUME NEW mode \in Modes, NEW lock \in LockNames, NEW rank, rank < Rank(lock)
  PROVE  Touches(Touch(mode, lock), rank)
  <1>1. \A i \in 1 .. 1 : i = 1
    OBVIOUS
  <1> QED
    BY <1>1, TouchOne DEF Touches

LEMMA TouchesJoin ==
  ASSUME NEW rank, NEW p, NEW q, Touches(p, rank), Touches(q, rank)
  PROVE  Touches(p \o q, rank)
  <1>1. PICK m, n, pq : m = Len(p) /\ n = Len(q) /\ pq = p \o q
    OBVIOUS
  <1>2. /\ pq \in Seq(StepType) /\ Len(pq) = m + n /\ m \in Nat /\ n \in Nat
        /\ \A i \in 1 .. m : pq[i] = p[i]
        /\ \A i \in m + 1 .. m + n : pq[i] = q[i - m]
    BY <1>1, Joined DEF Touches
  <1>3. ASSUME NEW i \in 1 .. m + n
        PROVE  pq[i].do = "touch" /\ rank < Rank(pq[i].lock)
    <2>1. CASE i <= m
      <3>1. i \in 1 .. m
        BY <1>2, <2>1
      <3> QED
        BY <1>1, <1>2, <3>1 DEF Touches
    <2>2. CASE ~(i <= m)
      <3>1. i \in m + 1 .. m + n /\ i - m \in 1 .. n
        BY <1>2, <2>2
      <3> QED
        BY <1>1, <1>2, <3>1 DEF Touches
    <2> QED
      BY <2>1, <2>2
  <1> QED
    BY <1>1, <1>2, <1>3 DEF Touches

LEMMA TouchesLegal ==
  ASSUME NEW prog, NEW rank, Touches(prog, rank)
  PROVE  Legal(prog)
  <1>1. prog \in Seq(StepType) /\ Len(prog) \in Nat
    BY DEF Touches
  <1>2. \A k \in 1 .. Len(prog) : prog[k].do # "hold"
    BY DEF Touches
  <1>3. \A i \in 1 .. Len(prog) : \A k \in 1 .. i - 1 : k \in 1 .. Len(prog)
    BY <1>1
  <1> QED
    BY <1>1, <1>2, <1>3 DEF Legal, Ordered

LEMMA JoinLegal ==
  ASSUME NEW p, NEW q, Legal(p), Legal(q)
  PROVE  Legal(p \o q)
  <1>1. PICK m, n, pq : m = Len(p) /\ n = Len(q) /\ pq = p \o q
    OBVIOUS
  <1>2. /\ pq \in Seq(StepType) /\ Len(pq) = m + n /\ m \in Nat /\ n \in Nat
        /\ \A i \in 1 .. m : pq[i] = p[i]
        /\ \A i \in m + 1 .. m + n : pq[i] = q[i - m]
    BY <1>1, Joined DEF Legal
  <1>3. ASSUME NEW k \in 1 .. m, p[k].do = "hold"
        PROVE  \E j \in k + 1 .. m : Releases(pq[j], <<p[k].mode, p[k].lock>>)
    <2>1. PICK j \in k + 1 .. m : Releases(p[j], <<p[k].mode, p[k].lock>>)
      BY <1>1, <1>3 DEF Legal, Ordered, Ends
    <2>2. j \in 1 .. m
      BY <1>2
    <2> QED
      BY <1>2, <2>1, <2>2
  <1>4. ASSUME NEW k \in 1 .. m + n, pq[k].do = "hold"
        PROVE  Ends(pq, k + 1, <<pq[k].mode, pq[k].lock>>)
    <2>1. CASE k \in 1 .. m
      <3>1. PICK j \in k + 1 .. m : Releases(pq[j], <<pq[k].mode, pq[k].lock>>)
        BY <1>2, <1>3, <1>4, <2>1
      <3>2. j \in k + 1 .. m + n
        BY <1>2
      <3> QED
        BY <1>2, <3>1, <3>2 DEF Ends
    <2>2. CASE k \notin 1 .. m
      <3>1. k \in m + 1 .. m + n /\ k - m \in 1 .. n
        BY <1>2, <2>2
      <3>2. PICK j \in (k - m) + 1 .. n : Releases(q[j], <<pq[k].mode, pq[k].lock>>)
        BY <1>1, <1>2, <1>4, <3>1 DEF Legal, Ordered, Ends
      <3>3. j + m \in k + 1 .. m + n /\ j + m \in m + 1 .. m + n /\ (j + m) - m = j
        BY <1>2, <3>1, <3>2
      <3>4. pq[j + m] = q[j]
        BY <1>2, <3>3
      <3> QED
        BY <1>2, <3>2, <3>3, <3>4 DEF Ends
    <2> QED
      BY <2>1, <2>2
  <1>5. ASSUME NEW i \in 1 .. m + n, pq[i].do # "release", NEW k \in 1 .. i - 1, pq[k].do = "hold"
        PROVE  Below(pq, k + 1, i, <<pq[k].mode, pq[k].lock>>)
    <2>0. PICK h : h = <<pq[k].mode, pq[k].lock>>
      OBVIOUS
    <2>1. CASE i \in 1 .. m
      <3>1. k \in 1 .. m /\ pq[k] = p[k] /\ pq[i] = p[i]
        BY <1>2, <2>1
      <3>2. Below(p, k + 1, i, h)
        BY <1>1, <1>5, <2>0, <2>1, <3>1 DEF Legal, Ordered
      <3>3. \A j \in k + 1 .. i - 1 : pq[j] = p[j]
        BY <1>2, <2>1
      <3> QED
        BY <2>0, <3>1, <3>2, <3>3 DEF Below
    <2>2. CASE i \notin 1 .. m /\ k \in 1 .. m
      <3>1. PICK j \in k + 1 .. m : Releases(pq[j], h)
        BY <1>2, <1>3, <1>5, <2>0, <2>2
      <3>2. j \in k + 1 .. i - 1
        BY <1>2, <2>2
      <3> QED
        BY <2>0, <3>1, <3>2 DEF Below
    <2>3. CASE i \notin 1 .. m /\ k \notin 1 .. m
      <3>1. /\ i \in m + 1 .. m + n /\ i - m \in 1 .. n /\ k - m \in 1 .. (i - m) - 1
            /\ k \in m + 1 .. m + n
        BY <1>2, <2>3
      <3>2. pq[i] = q[i - m] /\ pq[k] = q[k - m]
        BY <1>2, <3>1
      <3>3. Below(q, (k - m) + 1, i - m, h)
        BY <1>1, <1>5, <2>0, <3>1, <3>2 DEF Legal, Ordered
      <3>4. CASE \E j \in (k - m) + 1 .. (i - m) - 1 : Releases(q[j], h)
        <4>1. PICK j \in (k - m) + 1 .. (i - m) - 1 : Releases(q[j], h)
          BY <3>4
        <4>2. j + m \in k + 1 .. i - 1 /\ j + m \in m + 1 .. m + n /\ (j + m) - m = j
          BY <1>2, <3>1, <4>1
        <4>3. pq[j + m] = q[j]
          BY <1>2, <4>2
        <4> QED
          BY <2>0, <4>1, <4>2, <4>3 DEF Below
      <3>5. CASE Rank(h[2]) < Rank(q[i - m].lock)
        BY <2>0, <3>2, <3>5 DEF Below
      <3> QED
        BY <3>3, <3>4, <3>5 DEF Below
    <2> QED
      BY <2>1, <2>2, <2>3
  <1> QED
    BY <1>1, <1>2, <1>4, <1>5 DEF Legal, Ordered


LEMMA UnderLegal ==
  ASSUME NEW mode \in Modes, NEW lock \in LockNames, NEW inner, Touches(inner, Rank(lock))
  PROVE  Legal(Under(mode, lock, inner))
  <1>1. PICK n, prog, own, first, last :
            /\ n = Len(inner) /\ prog = Under(mode, lock, inner) /\ own = <<mode, lock>>
            /\ first = [do |-> "hold", mode |-> mode, lock |-> lock]
            /\ last = [do |-> "release", mode |-> mode, lock |-> lock]
    OBVIOUS
  <1>2. first \in StepType /\ last \in StepType
    BY <1>1 DEF StepType
  <1>3. /\ <<first>> \in Seq(StepType) /\ Len(<<first>>) = 1 /\ <<first>>[1] = first
        /\ <<last>> \in Seq(StepType) /\ Len(<<last>>) = 1 /\ <<last>>[1] = last
    BY <1>2
  <1>4. prog = (<<first>> \o inner) \o <<last>>
    BY <1>1 DEF Under, Hold, Release
  <1>5. inner \in Seq(StepType) /\ n \in Nat
    BY <1>1 DEF Touches
  <1>6. PICK body : body = <<first>> \o inner
    OBVIOUS
  <1>7. /\ body \in Seq(StepType) /\ Len(body) = n + 1 /\ body[1] = first
        /\ \A i \in 2 .. n + 1 : body[i] = inner[i - 1]
    <2>1. /\ body \in Seq(StepType) /\ Len(body) = 1 + n
          /\ \A i \in 1 .. 1 : body[i] = <<first>>[i]
          /\ \A i \in 1 + 1 .. 1 + n : body[i] = inner[i - 1]
      BY <1>1, <1>3, <1>5, <1>6, Joined
    <2> QED
      BY <1>3, <1>5, <2>1
  <1>8. /\ prog \in Seq(StepType) /\ Len(prog) = n + 2 /\ prog[1] = first /\ prog[n + 2] = last
        /\ \A i \in 2 .. n + 1 : prog[i] = inner[i - 1]
    <2>1. /\ prog \in Seq(StepType) /\ Len(prog) = (n + 1) + 1
          /\ \A i \in 1 .. n + 1 : prog[i] = body[i]
          /\ \A i \in (n + 1) + 1 .. (n + 1) + 1 : prog[i] = <<last>>[i - (n + 1)]
      BY <1>3, <1>4, <1>6, <1>7, Joined
    <2>2. n + 2 \in (n + 1) + 1 .. (n + 1) + 1 /\ (n + 2) - (n + 1) = 1 /\ 1 \in 1 .. n + 1
      BY <1>5
    <2>3. prog[n + 2] = last /\ prog[1] = first
      BY <1>3, <1>7, <2>1, <2>2
    <2>4. \A i \in 2 .. n + 1 : i \in 1 .. n + 1
      OBVIOUS
    <2> QED
      BY <1>5, <1>7, <2>1, <2>3, <2>4
  <1>9. /\ first.do = "hold" /\ last.do = "release"
        /\ <<first.mode, first.lock>> = own /\ Releases(last, own) /\ own[2] = lock
    BY <1>1 DEF Releases
  <1>10. \A i \in 2 .. n + 1 : prog[i].do = "touch" /\ Rank(lock) < Rank(prog[i].lock)
    <2>1. \A i \in 2 .. n + 1 : i - 1 \in 1 .. n
      BY <1>5
    <2> QED
      BY <1>1, <1>8, <2>1 DEF Touches
  <1>11. \A i \in 1 .. n + 2 : i = 1 \/ i = n + 2 \/ i \in 2 .. n + 1
    BY <1>5
  <1>12. ASSUME NEW k \in 1 .. n + 2, prog[k].do = "hold" PROVE k = 1
    BY <1>8, <1>9, <1>10, <1>11, <1>12
  <1>13. Ends(prog, 1 + 1, own)
    <2>1. n + 2 \in 1 + 1 .. n + 2
      BY <1>5
    <2> QED
      BY <1>8, <1>9, <2>1 DEF Ends
  <1>14. ASSUME NEW i \in 1 .. n + 2, prog[i].do # "release", NEW k \in 1 .. i - 1, prog[k].do = "hold"
         PROVE  Below(prog, k + 1, i, <<prog[k].mode, prog[k].lock>>)
    <2>1. k \in 1 .. n + 2
      BY <1>5
    <2>2. k = 1 /\ <<prog[k].mode, prog[k].lock>> = own
      BY <1>8, <1>9, <1>12, <1>14, <2>1
    <2>3. i \in 2 .. n + 1
      BY <1>8, <1>9, <1>11, <1>14, <2>2
    <2> QED
      BY <1>9, <1>10, <2>2, <2>3 DEF Below
  <1>15. \A k \in 1 .. n + 2 : prog[k].do = "hold" =>
             Ends(prog, k + 1, <<prog[k].mode, prog[k].lock>>)
    BY <1>8, <1>9, <1>12, <1>13
  <1> QED
    BY <1>1, <1>8, <1>14, <1>15 DEF Legal, Ordered

(* All locks but the metadata lie above it; the sealing list and the buffer *)
(* above the segments.                                                      *)
LEMMA ReadsTouch ==
  /\ \A lock \in LockNames, mode \in Modes : Touches(Touch(mode, lock), -1)
  /\ \A lock \in LockNames \ {"metadata"} : Touches(Touch("read", lock), Rank("metadata"))
  /\ \A lock \in {"buffer", "sealing"}, mode \in Modes : Touches(Touch(mode, lock), Rank("segments"))
  <1>1. /\ \A lock \in LockNames : -1 < Rank(lock)
        /\ \A lock \in LockNames \ {"metadata"} : Rank("metadata") < Rank(lock)
        /\ \A lock \in {"buffer", "sealing"} : Rank("segments") < Rank(lock)
    BY DEF Rank, LockNames
  <1>2. "read" \in Modes /\ {"buffer", "sealing"} \subseteq LockNames
    BY DEF Modes, LockNames
  <1> QED
    BY <1>1, <1>2, TouchTouches

LEMMA WriterLegal ==
  /\ Legal(LookUpLive) /\ Legal(InsertProgram) /\ Legal(DeleteProgram) /\ Legal(SealProgram)
  /\ Legal(InsertProgram \o SealProgram) /\ Legal(StoreProgram) /\ Legal(MergeProgram)
  /\ Legal(SearchProgram) /\ Legal(Touch("write", "buffer"))
  <1>1. {"read", "write"} \subseteq Modes /\ {"buffer", "sealing", "segments", "metadata"} \subseteq LockNames
    BY DEF Modes, LockNames
  <1>2. /\ Touches(Touch("read", "buffer"), -1) /\ Touches(Touch("read", "sealing"), -1)
        /\ Touches(Touch("read", "segments"), -1) /\ Touches(Touch("read", "metadata"), -1)
        /\ Touches(Touch("write", "buffer"), -1) /\ Touches(Touch("write", "sealing"), -1)
        /\ Touches(Touch("write", "segments"), -1) /\ Touches(Touch("write", "metadata"), -1)
    BY <1>1, ReadsTouch
  <1>3. Touches(LookUpLive, -1)
    BY <1>2, TouchesJoin DEF LookUpLive
  <1>4. Touches(InsertProgram, -1)
    BY <1>2, <1>3, TouchesJoin DEF InsertProgram
  <1>5. Touches(DeleteProgram, -1)
    <2>1. Touches(LookUpLive \o Touch("write", "buffer"), -1)
      BY <1>2, <1>3, TouchesJoin
    <2>2. Touches(LookUpLive \o Touch("write", "buffer") \o Touch("read", "sealing"), -1)
      BY <1>2, <2>1, TouchesJoin
    <2>3. Touches(LookUpLive \o Touch("write", "buffer") \o Touch("read", "sealing")
                  \o Touch("read", "segments"), -1)
      BY <1>2, <2>2, TouchesJoin
    <2> QED
      BY <1>2, <2>3, TouchesJoin DEF DeleteProgram
  <1>6. Touches(SealProgram, -1) /\ Touches(StoreProgram, -1) /\ Touches(MergeProgram, -1)
    BY <1>2, TouchesJoin DEF SealProgram, StoreProgram, MergeProgram
  <1>7. Touches(SearchProgram, -1)
    BY <1>2, TouchesJoin DEF SearchProgram, Sources
  <1> QED
    BY <1>2, <1>3, <1>4, <1>5, <1>6, <1>7, TouchesLegal, JoinLegal

LEMMA NestedLegal ==
  Legal(BuildProgram) /\ Legal(LenProgram) /\ Legal(PostProgram) /\ Legal(StatsProgram)
  <1>1. /\ {"read", "write"} \subseteq Modes
        /\ {"segments", "metadata"} \subseteq LockNames
        /\ {"segments", "sealing", "buffer"} \subseteq LockNames \ {"metadata"}
    BY DEF Modes, LockNames
  <1>2. /\ Touches(Touch("read", "sealing"), Rank("segments"))
        /\ Touches(Touch("read", "buffer"), Rank("segments"))
        /\ Touches(Touch("write", "sealing"), Rank("segments"))
    BY <1>1, ReadsTouch
  <1>3. /\ Touches(Touch("read", "sealing"), Rank("metadata"))
        /\ Touches(Touch("read", "buffer"), Rank("metadata"))
        /\ Touches(Touch("read", "segments"), Rank("metadata"))
    BY <1>1, ReadsTouch
  <1>4. Legal(BuildProgram)
    BY <1>1, <1>2, UnderLegal DEF BuildProgram
  <1>5. Legal(LenProgram)
    <2>1. Touches(Touch("read", "sealing") \o Touch("read", "buffer"), Rank("segments"))
      BY <1>2, TouchesJoin
    <2> QED
      BY <1>1, <2>1, UnderLegal DEF LenProgram
  <1>6. Legal(PostProgram)
    <2>1. Touches(Sources, Rank("metadata"))
      BY <1>3, TouchesJoin DEF Sources
    <2>2. Legal(Under("read", "metadata", Sources))
      BY <1>1, <2>1, UnderLegal
    <2> QED
      BY <1>5, <2>2, JoinLegal DEF PostProgram
  <1>7. Legal(StatsProgram)
    <2>1. Legal(Under("read", "segments", Touch("read", "buffer")))
      BY <1>1, <1>2, UnderLegal
    <2> QED
      BY <1>5, <2>1, JoinLegal DEF StatsProgram
  <1> QED
    BY <1>4, <1>5, <1>6, <1>7

-----------------------------------------------------------------------------
(* The steps of a thread. *)

LEMMA NothingHeld ==
  ASSUME LocksInv, NEW t \in Threads, Idle(t)
  PROVE  holds[t] = {} /\ t \notin waits
  <1>1. Ordered(<<>>, holds[t])
    BY DEF LocksInv, Idle
  <1>2. \A h : ~ Ends(<<>>, 1, h)
    BY DEF Ends
  <1> QED
    BY <1>1, <1>2 DEF Ordered, LocksInv, Acquires

LEMMA BeginKeepsOrder ==
  ASSUME LocksInv, NEW t \in Threads, NEW steps, Legal(steps), Begin(t, steps), UNCHANGED <<holds, waits>>
  PROVE  LocksInv'
  <1>1. Idle(t) /\ program' = [program EXCEPT ![t] = steps] /\ holds' = holds /\ waits' = waits
    BY DEF Begin
  <1>2. holds[t] = {} /\ t \notin waits
    BY <1>1, NothingHeld
  <1>3. steps \in Seq(StepType) /\ Ordered(steps, {})
    BY DEF Legal
  <1>4. /\ program' \in [Threads -> Seq(StepType)]
        /\ program'[t] = steps /\ \A u \in Threads : u # t => program'[u] = program[u]
    BY <1>1, <1>3 DEF LocksInv, LocksTyped
  <1>5. LocksTyped'
    BY <1>1, <1>4 DEF LocksInv, LocksTyped
  <1>6. \A u \in Threads : Ordered(program'[u], holds'[u])
    BY <1>1, <1>2, <1>3, <1>4 DEF LocksInv
  <1>7. \A u \in waits' : u # t /\ u \in Threads
    BY <1>1, <1>2 DEF LocksInv, LocksTyped
  <1>8. \A u \in waits' : (Acquires(u) /\ Head(program[u]).mode = "write")'
    BY <1>1, <1>4, <1>7 DEF LocksInv, Acquires, Idle
  <1> QED
    BY <1>5, <1>6, <1>8 DEF LocksInv

LEMMA LockStepKeepsOrder ==
  ASSUME LocksInv, NEW t \in Threads, LockStep(t)
  PROVE  LocksInv'
  <1>1. PICK prog, step, held : prog = program[t] /\ step = Head(prog) /\ held = holds[t]
    OBVIOUS
  <1>2. prog \in Seq(StepType) /\ prog # <<>>
    BY <1>1 DEF LocksInv, LocksTyped, LockStep, Idle
  <1>3. Tail(prog) \in Seq(StepType) /\ step \in StepType
    BY <1>1, <1>2, Shifted
  <1>4. /\ step.do \in {"touch", "hold", "release"} /\ <<step.mode, step.lock>> \in Modes \X LockNames
    BY <1>3 DEF StepType
  <1>5. held \in SUBSET (Modes \X LockNames)
    BY <1>1 DEF LocksInv, LocksTyped
  <1>6. After(step, held) \in SUBSET (Modes \X LockNames)
    BY <1>4, <1>5 DEF After
  <1>7. holds' = [holds EXCEPT ![t] = After(step, held)]
    BY <1>1 DEF LockStep, After
  <1>8. program' = [program EXCEPT ![t] = Tail(prog)] /\ waits' = waits \ {t}
    BY <1>1 DEF LockStep
  <1>9. LocksTyped'
    BY <1>3, <1>6, <1>7, <1>8 DEF LocksInv, LocksTyped
  <1>10. /\ program'[t] = Tail(prog) /\ holds'[t] = After(step, held)
         /\ \A u \in Threads : u # t => program'[u] = program[u] /\ holds'[u] = holds[u]
    BY <1>7, <1>8 DEF LocksInv, LocksTyped
  <1>11. Ordered(Tail(prog), After(step, held))
    BY <1>1, <1>2, OrderedTail DEF LocksInv
  <1>12. \A u \in Threads : Ordered(program'[u], holds'[u])
    BY <1>10, <1>11 DEF LocksInv
  <1>13. \A u \in waits' : (Acquires(u) /\ Head(program[u]).mode = "write")'
    <2>1. \A u \in waits' : u \in waits /\ u # t /\ u \in Threads
      BY <1>8 DEF LocksInv, LocksTyped
    <2> QED
      BY <1>10, <2>1 DEF LocksInv, Acquires, Idle
  <1> QED
    BY <1>9, <1>12, <1>13 DEF LocksInv

LEMMA RunKeepsOrder ==
  ASSUME LocksInv, NEW t \in Threads, Run(t)
  PROVE  LocksInv'
  <1>1. CASE LockStep(t)
    BY <1>1, LockStepKeepsOrder
  <1>2. CASE Queue(t)
    <2>1. /\ Acquires(t) /\ Head(program[t]).mode = "write" /\ waits' = waits \cup {t}
          /\ program' = program /\ holds' = holds
      BY <1>2 DEF Queue
    <2> QED
      BY <2>1 DEF LocksInv, LocksTyped, Acquires, Idle
  <1> QED
    BY <1>1, <1>2 DEF Run

LEMMA SameKeepsOrder == LocksInv /\ UNCHANGED lockVars => LocksInv'
  BY DEF LocksInv, LocksTyped, lockVars, Acquires, Idle

-----------------------------------------------------------------------------
(* The order excludes a cycle: of the threads that wait for each other, one *)
(* asks for a lock of the highest rank.  Who holds that lock would ask for  *)
(* a higher one, and a writer ahead in its queue is blocked by a holder.    *)

Wanted(t) == Rank(Head(program[t]).lock)

LEMMA HolderWantsMore ==
  ASSUME LocksInv, NEW t \in Threads, Acquires(t), NEW lock, t \in HoldersOf(lock)
  PROVE  Rank(lock) < Wanted(t)
  <1>1. PICK mode \in {"read", "write"} : <<mode, lock>> \in holds[t]
    BY DEF HoldersOf
  <1>2. PICK prog, h : prog = program[t] /\ h = <<mode, lock>>
    OBVIOUS
  <1>3. prog \in Seq(StepType) /\ prog # <<>> /\ Ordered(prog, holds[t])
    BY <1>2 DEF LocksInv, LocksTyped, Acquires, Idle
  <1>4. Len(prog) \in Nat \ {0} /\ Head(prog) = prog[1]
    BY <1>3, Shifted
  <1>5. 1 \in 1 .. Len(prog) /\ prog[1].do # "release"
    BY <1>2, <1>4 DEF Acquires
  <1>6. Below(prog, 1, 1, h)
    BY <1>1, <1>2, <1>3, <1>5 DEF Ordered
  <1>7. \A j : j \notin 1 .. 1 - 1
    OBVIOUS
  <1>8. Rank(h[2]) < Rank(prog[1].lock)
    BY <1>6, <1>7 DEF Below
  <1> QED
    BY <1>2, <1>4, <1>8 DEF Wanted

(* A blocker holds the lock, or is a writer that waits for it. *)
LEMMA Blocked ==
  ASSUME LocksInv, NEW t \in Threads, NEW b \in BlockersOf(t)
  PROVE  /\ Acquires(t) /\ b \in Threads
         /\ \/ b \in HoldersOf(Head(program[t]).lock)
            \/ b \in waits /\ Head(program[b]).lock = Head(program[t]).lock
  <1>1. Acquires(t)
    BY DEF BlockersOf
  <1>2. PICK step : step = Head(program[t])
    OBVIOUS
  <1>3. b \in WritersAt(step.lock) \/ b \in HoldersOf(step.lock)
    BY <1>1, <1>2 DEF BlockersOf
  <1>4. CASE b \in WritersAt(step.lock)
    BY <1>1, <1>2, <1>4 DEF WritersAt, HoldersOf
  <1>5. CASE b \in HoldersOf(step.lock)
    BY <1>1, <1>2, <1>5 DEF HoldersOf
  <1> QED
    BY <1>3, <1>4, <1>5

LEMMA OrderExcludesCycles == LocksInv => NoWaitCycle
  <1> SUFFICES ASSUME LocksInv,
                      NEW stuck \in SUBSET { t \in Threads : BlockersOf(t) # {} }, stuck # {},
                      \A t \in stuck : BlockersOf(t) \cap stuck # {}
               PROVE  FALSE
    BY DEF NoWaitCycle
  <1>1. \A t \in stuck : t \in Threads /\ Acquires(t)
    BY DEF BlockersOf
  <1>2. \A t \in stuck : Wanted(t) \in {0, 1, 2}
    BY DEF Wanted, Rank
  <1>3. PICK t \in stuck : \A u \in stuck : Wanted(u) <= Wanted(t)
    <2>1. CASE \E t \in stuck : Wanted(t) = 2
      BY <1>2, <2>1
    <2>2. CASE (\A t \in stuck : Wanted(t) # 2) /\ \E t \in stuck : Wanted(t) = 1
      BY <1>2, <2>2
    <2>3. CASE \A t \in stuck : Wanted(t) # 2 /\ Wanted(t) # 1
      BY <1>2, <2>3
    <2> QED
      BY <2>1, <2>2, <2>3
  <1>4. PICK lock : lock = Head(program[t]).lock /\ Rank(lock) = Wanted(t)
    BY DEF Wanted
  <1>5. \A b \in stuck : b \notin HoldersOf(lock)
    <2> SUFFICES ASSUME NEW b \in stuck, b \in HoldersOf(lock) PROVE FALSE
      OBVIOUS
    <2>1. Rank(lock) < Wanted(b)
      BY <1>1, HolderWantsMore
    <2> QED
      BY <1>2, <1>3, <1>4, <2>1
  <1>6. PICK b \in stuck : b \in BlockersOf(t)
    BY <1>3
  <1>7. b \in waits /\ Head(program[b]).lock = lock
    BY <1>1, <1>4, <1>5, <1>6, Blocked
  <1>8. PICK u \in stuck : u \in BlockersOf(b)
    BY <1>6
  <1>9. Acquires(b) /\ Head(program[b]).mode = "write"
    BY <1>7 DEF LocksInv
  <1>10. u \in HoldersOf(lock)
    BY <1>7, <1>8, <1>9 DEF BlockersOf
  <1> QED
    BY <1>5, <1>8, <1>10

-----------------------------------------------------------------------------
(* The server. *)

(* The one program that takes the locks out of order is never asked for:   *)
(* the queries a client may send are of every other kind.                  *)
NoScan == \A mix \in Mixes : \A c \in Clients : mix[c] # "scan"

ServerInv == LocksInv /\ want \in Mixes

LEMMA Workers == Clients \subseteq Threads /\ {"writer", "sealer", "merger"} \subseteq Threads
  BY ServerAssumption

LEMMA StartInOrder == ServerInit => ServerInv
  <1> SUFFICES ASSUME ServerInit PROVE ServerInv
    OBVIOUS
  <1>1. /\ program = [t \in Threads |-> <<>>] /\ holds = [t \in Threads |-> {}] /\ waits = {}
        /\ want \in Mixes
    BY DEF ServerInit, LockInit
  <1>2. LocksTyped
    BY <1>1 DEF LocksTyped
  <1>3. Legal(<<>>)
    BY DEF Legal, Ordered
  <1> QED
    BY <1>1, <1>2, <1>3 DEF ServerInv, LocksInv, Legal

LEMMA ArriveKeepsOrder ==
  ASSUME NoScan, ServerInv, NEW c \in Clients, Arrive(c)
  PROVE  LocksInv'
  <1>1. CASE want[c] \in Writing
    BY <1>1, SameKeepsOrder DEF Arrive, ServerInv
  <1>2. CASE want[c] \notin Writing
    <2>1. want[c] \in {"search", "post", "stats"}
      <3>1. want \in [Clients -> Writing \cup Reading] /\ want[c] # "scan"
        BY ServerAssumption DEF ServerInv, NoScan
      <3> QED
        BY <1>2, <3>1 DEF Reading
    <2>2. PICK steps : /\ Begin(c, steps) /\ UNCHANGED <<holds, waits>>
                       /\ steps \in {SearchProgram, PostProgram, StatsProgram}
      <3>1. CASE want[c] = "search"
        BY <1>2, <3>1 DEF Arrive
      <3>2. CASE want[c] = "post"
        BY <1>2, <3>2 DEF Arrive
      <3>3. CASE want[c] = "stats"
        BY <1>2, <3>3 DEF Arrive
      <3> QED
        BY <2>1, <3>1, <3>2, <3>3
    <2>3. Legal(steps)
      BY <2>2, WriterLegal, NestedLegal
    <2> QED
      BY <2>2, <2>3, BeginKeepsOrder, Workers DEF ServerInv
  <1> QED
    BY <1>1, <1>2

LEMMA RunsKeepsOrder ==
  ASSUME LocksInv, NEW steps, Legal(steps), Runs(steps)
  PROVE  LocksInv'
  BY BeginKeepsOrder, Workers DEF Runs

LEMMA WriterKeepsOrder ==
  ASSUME LocksInv, WriterTask \/ Panic
  PROVE  LocksInv'
  <1>1. CASE ReceiveBatch
    BY <1>1, SameKeepsOrder DEF ReceiveBatch
  <1>2. CASE StartWrite
    <2>1. PICK steps : /\ Runs(steps)
                       /\ steps \in {LookUpLive, InsertProgram, DeleteProgram, InsertProgram \o SealProgram}
      BY <1>2 DEF StartWrite
    <2>2. Legal(steps)
      BY <2>1, WriterLegal
    <2> QED
      BY <2>1, <2>2, RunsKeepsOrder
  <1>3. CASE WriterRuns
    BY <1>3, RunKeepsOrder, Workers DEF WriterRuns
  <1>4. CASE EndWrite
    BY <1>4, SameKeepsOrder DEF EndWrite
  <1>5. CASE Stall
    BY <1>5, SameKeepsOrder DEF Stall
  <1>6. CASE CheckpointCommit
    <2>1. PICK steps : Runs(steps) /\ steps \in {SealProgram, Touch("write", "buffer")}
      BY <1>6 DEF CheckpointCommit
    <2>2. Legal(steps)
      BY <2>1, WriterLegal
    <2> QED
      BY <2>1, <2>2, RunsKeepsOrder
  <1>7. CASE CheckpointSealed
    BY <1>7, SameKeepsOrder DEF CheckpointSealed
  <1>8. CASE CheckpointStore
    BY <1>8, RunsKeepsOrder, WriterLegal DEF CheckpointStore
  <1>9. CASE CheckpointReply
    BY <1>9, SameKeepsOrder DEF CheckpointReply
  <1>10. CASE Commit
    BY <1>10, SameKeepsOrder DEF Commit
  <1>11. CASE Stop
    BY <1>11, SameKeepsOrder DEF Stop
  <1>12. CASE Panic
    BY <1>12, SameKeepsOrder DEF Panic
  <1> QED
    BY <1>1, <1>2, <1>3, <1>4, <1>5, <1>6, <1>7, <1>8, <1>9, <1>10, <1>11, <1>12 DEF WriterTask

LEMMA HandlerKeepsOrder ==
  ASSUME NoScan, ServerInv, NEW c \in Clients, Handler(c) \/ HangUp(c)
  PROVE  LocksInv'
  <1>1. CASE Arrive(c)
    BY <1>1, ArriveKeepsOrder
  <1>2. CASE Send(c)
    BY <1>2, SameKeepsOrder DEF Send, ServerInv
  <1>3. CASE Receive(c)
    BY <1>3, SameKeepsOrder DEF Receive, ServerInv
  <1>4. CASE SearchRuns(c)
    BY <1>4, RunKeepsOrder, Workers DEF SearchRuns, ServerInv
  <1>5. CASE SearchEnds(c)
    BY <1>5, SameKeepsOrder DEF SearchEnds, ServerInv
  <1>6. CASE HangUp(c)
    BY <1>6, SameKeepsOrder DEF HangUp, ServerInv
  <1> QED
    BY <1>1, <1>2, <1>3, <1>4, <1>5, <1>6 DEF Handler

LEMMA BackgroundKeepsOrder ==
  ASSUME LocksInv, SealerWorks \/ SealerEnds \/ MergerWorks \/ ShutDown
  PROVE  LocksInv'
  <1>1. CASE SealerWorks
    BY <1>1, BeginKeepsOrder, RunKeepsOrder, NestedLegal, Workers DEF SealerWorks
  <1>2. CASE SealerEnds
    BY <1>2, LockStepKeepsOrder, Workers DEF SealerEnds
  <1>3. CASE MergerWorks
    BY <1>3, BeginKeepsOrder, RunKeepsOrder, WriterLegal, Workers DEF MergerWorks
  <1>4. CASE ShutDown
    BY <1>4, SameKeepsOrder DEF ShutDown
  <1> QED
    BY <1>1, <1>2, <1>3, <1>4

(* Nobody changes what the clients ask for. *)
LEMMA WantStays == [Next]_serverVars => UNCHANGED want
  <1>1. ASSUME NEW c \in Clients, Handler(c) \/ HangUp(c) PROVE UNCHANGED want
    BY <1>1 DEF Handler, HangUp, Arrive, Send, Receive, SearchRuns, SearchEnds, HandlerVars
  <1>2. ASSUME WriterTask \/ Panic PROVE UNCHANGED want
    BY <1>2 DEF WriterTask, ReceiveBatch, StartWrite, WriterRuns, EndWrite, Stall, CheckpointCommit,
                CheckpointSealed, CheckpointStore, CheckpointReply, Commit, Stop, Panic, WriterSame
  <1>3. ASSUME SealerWorks \/ SealerEnds \/ MergerWorks \/ ShutDown PROVE UNCHANGED want
    BY <1>3 DEF SealerWorks, SealerEnds, MergerWorks, ShutDown, BackgroundSame, clientVars
  <1> QED
    BY <1>1, <1>2, <1>3 DEF Next, serverVars, clientVars

LEMMA StepKeepsOrder ==
  ASSUME NoScan, ServerInv, [Next]_serverVars
  PROVE  ServerInv'
  <1>1. LocksInv'
    <2>1. ASSUME NEW c \in Clients, Handler(c) \/ HangUp(c) PROVE LocksInv'
      BY <2>1, HandlerKeepsOrder
    <2>2. CASE WriterTask \/ Panic
      BY <2>2, WriterKeepsOrder DEF ServerInv
    <2>3. CASE SealerWorks \/ SealerEnds \/ MergerWorks \/ ShutDown
      BY <2>3, BackgroundKeepsOrder DEF ServerInv
    <2>4. CASE UNCHANGED serverVars
      BY <2>4, SameKeepsOrder DEF serverVars, ServerInv
    <2> QED
      BY <2>1, <2>2, <2>3, <2>4 DEF Next
  <1>2. UNCHANGED want
    BY WantStays
  <1> QED
    BY <1>1, <1>2 DEF ServerInv

(* No deadlock among the handlers, the writer task and the seal and merge  *)
(* threads, for any number of clients that send any requests but one: a    *)
(* filter that is answered by a scan, which takes the buffer before the    *)
(* segments (run ServerDeadlock).                                          *)
THEOREM LocksInOrder ==
  ASSUME NoScan
  PROVE  Spec => []NoWaitCycle
  <1>1. ServerInit => ServerInv
    BY StartInOrder
  <1>2. ServerInv /\ [Next]_serverVars => ServerInv'
    BY StepKeepsOrder
  <1>3. ServerInv => NoWaitCycle
    BY OrderExcludesCycles DEF ServerInv
  <1> QED
    BY <1>1, <1>2, <1>3, PTL DEF Spec

-----------------------------------------------------------------------------
(* What a reply rests on.  A result "ok" in the batch stands for a write   *)
(* that is applied, and what is applied is durable once a commit succeeds. *)

Answers == {"none", "ok", "refused", "error", "closed", "lost"}
HandlerStates == {"new", "sending", "waiting", "searching", "done", "left"}
Results == {"ok", "refused", "error"}

RequestsTyped ==
    /\ want \in [Clients -> Writing \cup Reading]
    /\ handler \in [Clients -> HandlerStates] /\ answer \in [Clients -> Answers]
    /\ channel \in Seq(Clients) /\ batch \in Seq(Clients)
    /\ pending \in Seq(Clients \X Results) /\ faults \in Nat
DurableApplied == durable \subseteq applied
ResultsApplied == \A p \in ToSet(pending) : p[2] = "ok" => p[1] \in applied
SearchesRead == \A c \in Clients : handler[c] = "searching" => want[c] \in Reading
InBatch ==
    /\ wstate \in {"refused", "error", "ok", "seal"} => batch # <<>>
    /\ wstate \in {"ckpt_seal", "ckpt_wait", "ckpt_store"} =>
           batch # <<>> /\ want[Head(batch)] = "checkpoint"
OkStored ==
    \A c \in Clients : answer[c] = "ok" /\ want[c] \in {"insert", "delete"} => c \in durable \cup leaked
StopStores == wstate = "stopped" /\ faults = 0 => applied = durable

ReplyInv ==
    /\ RequestsTyped /\ DurableApplied /\ ResultsApplied /\ SearchesRead /\ InBatch
    /\ OkStored /\ StopStores

(* Steps that leave the replies and what they rest on alone. *)
replyVars == <<want, handler, answer, channel, wstate, batch, pending, applied, durable, leaked, faults>>

LEMMA SameReplies == ReplyInv /\ UNCHANGED replyVars => ReplyInv'
  BY DEF ReplyInv, RequestsTyped, DurableApplied, ResultsApplied, SearchesRead, InBatch, OkStored,
         StopStores, replyVars

LEMMA StartReplies == ServerInit => ReplyInv
  <1> SUFFICES ASSUME ServerInit PROVE ReplyInv
    OBVIOUS
  <1>1. /\ want \in Mixes /\ handler = [c \in Clients |-> "new"] /\ answer = [c \in Clients |-> "none"]
        /\ channel = <<>> /\ wstate = "recv" /\ batch = <<>> /\ pending = <<>>
        /\ applied = {} /\ durable = {} /\ faults = 0
    BY DEF ServerInit
  <1>2. want \in [Clients -> Writing \cup Reading]
    BY <1>1, ServerAssumption
  <1>3. handler \in [Clients -> HandlerStates] /\ answer \in [Clients -> Answers]
    BY <1>1 DEF HandlerStates, Answers
  <1>4. channel \in Seq(Clients) /\ batch \in Seq(Clients) /\ pending \in Seq(Clients \X Results)
    BY <1>1
  <1>5. ToSet(pending) = {}
    BY <1>1 DEF ToSet
  <1> QED
    BY <1>1, <1>2, <1>3, <1>4, <1>5
    DEF ReplyInv, RequestsTyped, DurableApplied, ResultsApplied, SearchesRead, InBatch, OkStored, StopStores

LEMMA TailOf ==
  ASSUME NEW S, NEW s \in Seq(S), s # <<>>
  PROVE  Tail(s) \in Seq(S) /\ Head(s) \in S
  OBVIOUS

LEMMA Appended ==
  ASSUME NEW S, NEW s \in Seq(S), NEW e \in S
  PROVE  Append(s, e) \in Seq(S) /\ ToSet(Append(s, e)) = ToSet(s) \cup {e}
  <1>1. /\ Append(s, e) \in Seq(S) /\ Len(Append(s, e)) = Len(s) + 1 /\ Len(s) \in Nat
        /\ \A i \in 1 .. Len(s) : Append(s, e)[i] = s[i]
        /\ Append(s, e)[Len(s) + 1] = e
    OBVIOUS
  <1>2. \A i \in 1 .. Len(s) + 1 : i \in 1 .. Len(s) \/ i = Len(s) + 1
    BY <1>1
  <1>3. Len(s) + 1 \in 1 .. Len(s) + 1 /\ \A i \in 1 .. Len(s) : i \in 1 .. Len(s) + 1
    BY <1>1
  <1> QED
    BY <1>1, <1>2, <1>3 DEF ToSet

LEMMA ReplyOf ==
  ASSUME RequestsTyped
  PROVE  /\ ToSet(pending) \subseteq Clients \X Results
         /\ \A c \in Clients : PendingOf(c) # {} =>
                (CHOOSE p \in PendingOf(c) : TRUE) \in PendingOf(c)
  <1>1. \A i \in 1 .. Len(pending) : pending[i] \in Clients \X Results
    BY DEF RequestsTyped
  <1> QED
    BY <1>1 DEF ToSet

(* Delivering replies: nobody is told ok whose write is not applied. *)
LEMMA Delivered ==
  ASSUME ReplyInv, NEW failed \in BOOLEAN, Deliver(failed)
  PROVE  /\ answer' \in [Clients -> Answers]
         /\ \A c \in Clients : answer'[c] = "ok" => answer[c] = "ok" \/ (~ failed /\ c \in applied)
  <1>1. RequestsTyped /\ ResultsApplied /\ answer \in [Clients -> Answers]
    BY DEF ReplyInv, RequestsTyped
  <1>2. ASSUME NEW c \in Clients
        PROVE  /\ answer'[c] \in Answers
               /\ answer'[c] = "ok" => answer[c] = "ok" \/ (~ failed /\ c \in applied)
    <2>1. CASE handler[c] = "waiting" /\ PendingOf(c) # {} /\ ~ failed
      <3>1. PICK p : p = CHOOSE q \in PendingOf(c) : TRUE
        OBVIOUS
      <3>2. p \in ToSet(pending) /\ p[1] = c
        BY <1>1, <2>1, <3>1, ReplyOf DEF PendingOf
      <3>3. p[2] \in Results
        BY <1>1, <3>2, ReplyOf
      <3>4. answer'[c] = p[2]
        BY <2>1, <3>1 DEF Deliver
      <3> QED
        BY <1>1, <2>1, <3>2, <3>3, <3>4 DEF ResultsApplied, Results, Answers
    <2>2. CASE handler[c] = "waiting" /\ PendingOf(c) # {} /\ failed
      BY <2>2 DEF Deliver, Answers
    <2>3. CASE ~ (handler[c] = "waiting" /\ PendingOf(c) # {})
      BY <1>1, <2>3 DEF Deliver
    <2> QED
      BY <2>1, <2>2, <2>3
  <1>3. answer' = [c \in Clients |-> answer'[c]]
    BY DEF Deliver
  <1> QED
    BY <1>2, <1>3

LEMMA OneFault ==
  ASSUME NEW fails \in BOOLEAN, Outcome(fails), faults \in Nat
  PROVE  faults' \in Nat /\ (faults' = 0 => ~ fails /\ faults = 0)
  BY DEF Outcome

-----------------------------------------------------------------------------
(* The handlers. *)

LEMMA HandlerKeepsReplies ==
  ASSUME ReplyInv, NEW c \in Clients, Handler(c) \/ HangUp(c)
  PROVE  ReplyInv'
  <1>1. /\ handler \in [Clients -> HandlerStates] /\ answer \in [Clients -> Answers]
        /\ channel \in Seq(Clients) /\ want \in [Clients -> Writing \cup Reading]
    BY DEF ReplyInv, RequestsTyped
  <1>2. CASE Arrive(c)
    <2>1. PICK next \in {"sending", "searching"} :
              /\ handler' = [handler EXCEPT ![c] = next]
              /\ next = "searching" => want[c] \notin Writing
      BY <1>2 DEF Arrive
    <2>2. handler' \in [Clients -> HandlerStates]
      BY <1>1, <2>1 DEF HandlerStates
    <2>3. /\ UNCHANGED <<want, answer, channel, wstate, batch, pending, applied, durable, leaked, faults>>
      BY <1>2 DEF Arrive, HandlerVars, writerVars, storeVars
    <2>4. SearchesRead'
      BY <1>1, <2>1, <2>3 DEF ReplyInv, SearchesRead
    <2> QED
      BY <2>2, <2>3, <2>4
      DEF ReplyInv, RequestsTyped, DurableApplied, ResultsApplied, InBatch, OkStored, StopStores
  <1>3. CASE Send(c)
    <2>1. PICK next \in {"done", "waiting"} : handler' = [handler EXCEPT ![c] = next]
      BY <1>3 DEF Send
    <2>2. handler' \in [Clients -> HandlerStates] /\ SearchesRead'
      <3>1. UNCHANGED want
        BY <1>3 DEF Send, HandlerVars
      <3> QED
        BY <1>1, <2>1, <3>1 DEF HandlerStates, ReplyInv, SearchesRead
    <2>3. answer' = answer \/ answer' = [answer EXCEPT ![c] = "closed"]
      BY <1>3 DEF Send
    <2>4. channel' = channel \/ channel' = Append(channel, c)
      BY <1>3 DEF Send
    <2>5. UNCHANGED <<want, wstate, batch, pending, applied, durable, leaked, faults>>
      BY <1>3 DEF Send, HandlerVars, writerVars, storeVars
    <2>6. answer' \in [Clients -> Answers] /\ OkStored'
      BY <1>1, <2>3, <2>5 DEF Answers, ReplyInv, OkStored
    <2>7. channel' \in Seq(Clients)
      BY <1>1, <2>4, Appended
    <2> QED
      BY <2>2, <2>5, <2>6, <2>7
      DEF ReplyInv, RequestsTyped, DurableApplied, ResultsApplied, InBatch, StopStores
  <1>4. CASE Receive(c) \/ SearchEnds(c) \/ HangUp(c)
    <2>1. PICK next \in {"done", "left"} : handler' = [handler EXCEPT ![c] = next]
      BY <1>4 DEF Receive, SearchEnds, HangUp
    <2>2. UNCHANGED <<want, channel, wstate, batch, pending, applied, durable, leaked, faults>>
      BY <1>4 DEF Receive, SearchEnds, HangUp, HandlerVars, writerVars, storeVars
    <2>3. handler' \in [Clients -> HandlerStates] /\ SearchesRead'
      BY <1>1, <2>1, <2>2 DEF HandlerStates, ReplyInv, SearchesRead
    <2>4. \/ answer' = answer \/ answer' = [answer EXCEPT ![c] = "lost"]
          \/ answer' = [answer EXCEPT ![c] = "ok"] /\ handler[c] = "searching"
      BY <1>4 DEF Receive, SearchEnds, HangUp
    <2>5. handler[c] = "searching" => want[c] \notin {"insert", "delete"}
      BY DEF ReplyInv, SearchesRead, Reading
    <2>6. answer' \in [Clients -> Answers] /\ OkStored'
      BY <1>1, <2>2, <2>4, <2>5 DEF Answers, ReplyInv, OkStored
    <2> QED
      BY <2>2, <2>3, <2>6
      DEF ReplyInv, RequestsTyped, DurableApplied, ResultsApplied, InBatch, StopStores
  <1>5. CASE SearchRuns(c)
    BY <1>5, SameReplies DEF SearchRuns, HandlerVars, writerVars, storeVars, replyVars
  <1> QED
    BY <1>2, <1>3, <1>4, <1>5 DEF Handler

-----------------------------------------------------------------------------
(* The writer task. *)

LEMMA ReceiveKeepsReplies ==
  ASSUME ReplyInv, ReceiveBatch
  PROVE  ReplyInv'
  <1>1. PICK n : /\ n \in {Len(channel), MaxBatch} /\ n <= Len(channel)
                 /\ batch' = SubSeq(channel, 1, n) /\ channel' = SubSeq(channel, n + 1, Len(channel))
    <2>1. MaxBatch \in Nat /\ Len(channel) \in Nat
      BY ServerAssumption DEF ReplyInv, RequestsTyped
    <2>2. PICK n : n = IF Len(channel) < MaxBatch THEN Len(channel) ELSE MaxBatch
      OBVIOUS
    <2>3. n \in {Len(channel), MaxBatch} /\ n <= Len(channel)
      BY <2>1, <2>2
    <2>4. batch' = SubSeq(channel, 1, n) /\ channel' = SubSeq(channel, n + 1, Len(channel))
      BY <2>2 DEF ReceiveBatch
    <2> QED
      BY <2>3, <2>4
  <1>2. channel \in Seq(Clients) /\ n \in Nat /\ Len(channel) \in Nat
    BY <1>1, ServerAssumption DEF ReplyInv, RequestsTyped
  <1>3. batch' \in Seq(Clients)
    <2>1. \A i \in 1 .. n : i \in 1 .. Len(channel)
      BY <1>1, <1>2
    <2>2. \A i \in 1 .. n : channel[i] \in Clients
      BY <1>2, <2>1
    <2> QED
      BY <1>1, <1>2, <2>2, SubSeqProperties
  <1>4. channel' \in Seq(Clients)
    <2>1. \A i \in n + 1 .. Len(channel) : i \in 1 .. Len(channel)
      BY <1>1, <1>2
    <2>2. \A i \in n + 1 .. Len(channel) : channel[i] \in Clients
      BY <1>2, <2>1
    <2> QED
      BY <1>1, <1>2, <2>2, SubSeqProperties
  <1>5. /\ wstate' = "next"
        /\ UNCHANGED <<want, handler, answer, pending, applied, durable, leaked, faults>>
    BY DEF ReceiveBatch, WriterSame, storeVars
  <1> QED
    BY <1>3, <1>4, <1>5
    DEF ReplyInv, RequestsTyped, DurableApplied, ResultsApplied, SearchesRead, InBatch, OkStored, StopStores

(* A step of the writer task that neither answers nor ends a command. *)
LEMMA ProgressKeepsReplies ==
  ASSUME ReplyInv, UNCHANGED <<want, handler, answer, channel, batch, pending, applied, durable, leaked>>,
         faults' \in Nat, wstate' # "stopped", InBatch'
  PROVE  ReplyInv'
  BY DEF ReplyInv, RequestsTyped, DurableApplied, ResultsApplied, SearchesRead, OkStored, StopStores

LEMMA StartWriteKeepsReplies ==
  ASSUME ReplyInv, StartWrite
  PROVE  ReplyInv'
  <1>1. PICK fails \in BOOLEAN : Outcome(fails) /\ wstate' \in {"refused", "error", "ok", "seal"}
    BY DEF StartWrite
  <1>2. faults' \in Nat
    BY <1>1, OneFault DEF ReplyInv, RequestsTyped
  <1>3. /\ batch # <<>>
        /\ UNCHANGED <<want, handler, answer, channel, batch, pending, applied, durable, leaked>>
    BY DEF StartWrite, WriterSame, storeVars
  <1>4. InBatch'
    BY <1>1, <1>3 DEF InBatch
  <1> QED
    BY <1>1, <1>2, <1>3, <1>4, ProgressKeepsReplies

LEMMA EndWriteKeepsReplies ==
  ASSUME ReplyInv, EndWrite
  PROVE  ReplyInv'
  <1>1. PICK result \in Results :
            /\ pending' = Append(pending, <<Head(batch), result>>)
            /\ applied' = IF result = "ok" THEN applied \cup {Head(batch)} ELSE applied
    BY DEF EndWrite, Results, At
  <1>2. /\ batch' = Tail(batch) /\ wstate' \in {"stall", "next"}
        /\ UNCHANGED <<want, handler, answer, channel, durable, leaked, faults>>
    BY DEF EndWrite, WriterSame
  <1>3. batch \in Seq(Clients) /\ batch # <<>>
    BY DEF ReplyInv, RequestsTyped, InBatch, EndWrite
  <1>4. batch' \in Seq(Clients) /\ Head(batch) \in Clients
    BY <1>2, <1>3, TailOf
  <1>5. <<Head(batch), result>> \in Clients \X Results
    BY <1>1, <1>4
  <1>6. pending \in Seq(Clients \X Results)
    BY DEF ReplyInv, RequestsTyped
  <1>7. pending' \in Seq(Clients \X Results) /\ ToSet(pending') = ToSet(pending) \cup {<<Head(batch), result>>}
    BY <1>1, <1>5, <1>6, Appended
  <1>8. RequestsTyped'
    BY <1>2, <1>4, <1>7 DEF ReplyInv, RequestsTyped
  <1>9. applied \subseteq applied'
    BY <1>1
  <1>10. DurableApplied'
    BY <1>2, <1>9 DEF ReplyInv, DurableApplied
  <1>11. ResultsApplied'
    BY <1>1, <1>7, <1>9 DEF ReplyInv, ResultsApplied
  <1>12. SearchesRead' /\ InBatch' /\ OkStored' /\ StopStores'
    BY <1>2 DEF ReplyInv, SearchesRead, InBatch, OkStored, StopStores
  <1> QED
    BY <1>8, <1>10, <1>11, <1>12 DEF ReplyInv

(* A commit: everything applied is durable, or nothing more is. *)
LEMMA CommitKeepsReplies ==
  ASSUME ReplyInv, NEW failed \in BOOLEAN, NEW fails \in BOOLEAN, Outcome(fails), Deliver(failed),
         durable' = (IF fails THEN durable ELSE applied),
         ~ fails \/ failed \/ applied \ durable \subseteq leaked', leaked \subseteq leaked',
         pending' = <<>>, UNCHANGED <<want, handler, channel, batch, applied>>,
         wstate' # "stopped", InBatch'
  PROVE  ReplyInv'
  <1>1. /\ answer' \in [Clients -> Answers]
        /\ \A c \in Clients : answer'[c] = "ok" => answer[c] = "ok" \/ (~ failed /\ c \in applied)
    BY Delivered
  <1>2. durable \subseteq applied /\ durable \subseteq durable' /\ durable' \subseteq applied
    BY DEF ReplyInv, DurableApplied
  <1>3. faults' \in Nat
    BY OneFault DEF ReplyInv, RequestsTyped
  <1>4. pending' \in Seq(Clients \X Results) /\ ToSet(pending') = {}
    BY DEF ToSet
  <1>5. RequestsTyped'
    BY <1>1, <1>3, <1>4 DEF ReplyInv, RequestsTyped
  <1>6. DurableApplied' /\ ResultsApplied' /\ SearchesRead' /\ StopStores'
    BY <1>2, <1>4 DEF ReplyInv, DurableApplied, ResultsApplied, SearchesRead, StopStores
  <1>7. OkStored'
    <2> SUFFICES ASSUME NEW c \in Clients, answer'[c] = "ok", want[c] \in {"insert", "delete"}
                 PROVE  c \in durable' \cup leaked'
      BY DEF OkStored
    <2>1. CASE answer[c] = "ok"
      BY <1>2, <2>1 DEF ReplyInv, OkStored
    <2>2. CASE ~ failed /\ c \in applied
      <3>1. CASE fails
        BY <1>2, <2>2, <3>1
      <3>2. CASE ~ fails
        BY <2>2, <3>2
      <3> QED
        BY <3>1, <3>2
    <2> QED
      BY <1>1, <2>1, <2>2
  <1> QED
    BY <1>5, <1>6, <1>7 DEF ReplyInv

LEMMA CheckpointCommitKeepsReplies ==
  ASSUME ReplyInv, CheckpointCommit
  PROVE  ReplyInv'
  <1>1. PICK fails \in BOOLEAN :
            /\ Outcome(fails)
            /\ durable' = (IF fails THEN durable ELSE applied)
            /\ leaked' = (IF fails THEN leaked \cup (applied \ durable) ELSE leaked)
    BY DEF CheckpointCommit
  <1>2. /\ Deliver(FALSE) /\ pending' = <<>>
        /\ UNCHANGED <<want, handler, channel, batch, applied>>
        /\ wstate' \in {"ckpt_seal", "ckpt_wait"} /\ batch # <<>> /\ want[Head(batch)] = "checkpoint"
    BY DEF CheckpointCommit, WriterSame
  <1>3. InBatch'
    BY <1>2 DEF InBatch
  <1>4. leaked \subseteq leaked' /\ (~ fails \/ applied \ durable \subseteq leaked')
    BY <1>1
  <1> QED
    BY <1>1, <1>2, <1>3, <1>4, CommitKeepsReplies

LEMMA BatchEndKeepsReplies ==
  ASSUME ReplyInv, Commit
  PROVE  ReplyInv'
  <1>1. /\ wstate' = "recv" /\ pending' = <<>>
        /\ UNCHANGED <<want, handler, channel, batch, applied, leaked>>
    BY DEF Commit, WriterSame
  <1>2. InBatch'
    BY <1>1 DEF InBatch
  <1>3. CASE pending = <<>>
    <2>1. UNCHANGED <<answer, durable, faults>> /\ pending' = pending /\ faults' \in Nat
      BY <1>1, <1>3 DEF Commit, ReplyInv, RequestsTyped
    <2> QED
      BY <1>1, <1>2, <2>1, ProgressKeepsReplies
  <1>4. CASE pending # <<>>
    <2>1. PICK fails \in BOOLEAN :
              Outcome(fails) /\ durable' = (IF fails THEN durable ELSE applied) /\ Deliver(fails)
      BY <1>4 DEF Commit
    <2> QED
      BY <1>1, <1>2, <2>1, CommitKeepsReplies
  <1> QED
    BY <1>3, <1>4

LEMMA CheckpointReplyKeepsReplies ==
  ASSUME ReplyInv, CheckpointReply
  PROVE  ReplyInv'
  <1>1. PICK client : client = Head(batch)
    OBVIOUS
  <1>2. batch \in Seq(Clients) /\ batch # <<>> /\ want[client] = "checkpoint"
    BY <1>1 DEF ReplyInv, RequestsTyped, InBatch, CheckpointReply, At
  <1>3. client \in Clients /\ Tail(batch) \in Seq(Clients)
    BY <1>1, <1>2, TailOf
  <1>4. PICK fails \in BOOLEAN :
            /\ Outcome(fails)
            /\ durable' = (IF fails THEN durable ELSE applied)
            /\ answer' = IF handler[client] = "waiting"
                           THEN [answer EXCEPT ![client] = IF fails THEN "error" ELSE "ok"]
                           ELSE answer
    BY <1>1 DEF CheckpointReply
  <1>5. /\ batch' = Tail(batch) /\ wstate' = "next"
        /\ UNCHANGED <<want, handler, channel, pending, applied, leaked>>
    BY DEF CheckpointReply, WriterSame
  <1>6. answer \in [Clients -> Answers] /\ faults' \in Nat
    BY <1>4, OneFault DEF ReplyInv, RequestsTyped
  <1>7. answer' \in [Clients -> Answers] /\ \A c \in Clients : c # client => answer'[c] = answer[c]
    BY <1>3, <1>4, <1>6 DEF Answers
  <1>8. durable \subseteq applied /\ durable \subseteq durable' /\ durable' \subseteq applied
    BY <1>4 DEF ReplyInv, DurableApplied
  <1>9. RequestsTyped'
    BY <1>3, <1>5, <1>6, <1>7 DEF ReplyInv, RequestsTyped
  <1>10. OkStored'
    BY <1>2, <1>5, <1>7, <1>8 DEF ReplyInv, OkStored
  <1> QED
    BY <1>5, <1>8, <1>9, <1>10
    DEF ReplyInv, DurableApplied, ResultsApplied, SearchesRead, InBatch, StopStores

LEMMA StopKeepsReplies ==
  ASSUME ReplyInv, Stop
  PROVE  ReplyInv'
  <1>1. PICK fails \in BOOLEAN : Outcome(fails) /\ durable' = (IF fails THEN durable ELSE applied)
    BY DEF Stop
  <1>2. /\ wstate' = "stopped"
        /\ UNCHANGED <<want, handler, answer, channel, batch, pending, applied, leaked>>
    BY DEF Stop, WriterSame
  <1>3. faults' \in Nat /\ (faults' = 0 => ~ fails)
    BY <1>1, OneFault DEF ReplyInv, RequestsTyped
  <1>4. durable \subseteq durable' /\ durable' \subseteq applied
    BY <1>1 DEF ReplyInv, DurableApplied
  <1> QED
    BY <1>1, <1>2, <1>3, <1>4
    DEF ReplyInv, RequestsTyped, DurableApplied, ResultsApplied, SearchesRead, InBatch, OkStored, StopStores

LEMMA PanicKeepsReplies ==
  ASSUME ReplyInv, Panic
  PROVE  ReplyInv'
  <1>1. /\ wstate' = "dead" /\ channel' = <<>> /\ batch' = <<>> /\ pending' = <<>> /\ Outcome(TRUE)
        /\ UNCHANGED <<want, handler, answer, applied, durable, leaked>>
    BY DEF Panic, WriterSame, storeVars
  <1>2. faults' \in Nat
    BY <1>1, OneFault DEF ReplyInv, RequestsTyped
  <1>3. channel' \in Seq(Clients) /\ batch' \in Seq(Clients) /\ pending' \in Seq(Clients \X Results)
    BY <1>1
  <1>4. ToSet(pending') = {}
    BY <1>1 DEF ToSet
  <1> QED
    BY <1>1, <1>2, <1>3, <1>4
    DEF ReplyInv, RequestsTyped, DurableApplied, ResultsApplied, SearchesRead, InBatch, OkStored, StopStores

LEMMA WriterKeepsReplies ==
  ASSUME ReplyInv, WriterTask \/ Panic
  PROVE  ReplyInv'
  <1>1. CASE WriterRuns
    BY <1>1, SameReplies DEF WriterRuns, WriterSame, writerVars, storeVars, replyVars
  <1>2. CASE Stall \/ CheckpointSealed \/ CheckpointStore
    <2>1. /\ UNCHANGED <<want, handler, answer, channel, batch, pending, applied, durable, leaked, faults>>
          /\ wstate' \in {"next", "ckpt_wait", "ckpt_store"}
          /\ wstate' # "next" => wstate \in {"ckpt_seal", "ckpt_wait"}
      BY <1>2 DEF Stall, CheckpointSealed, CheckpointStore, WriterSame, storeVars, At
    <2>2. InBatch' /\ faults' \in Nat
      BY <2>1 DEF ReplyInv, InBatch, RequestsTyped
    <2> QED
      BY <2>1, <2>2, ProgressKeepsReplies
  <1> QED
    BY <1>1, <1>2, ReceiveKeepsReplies, StartWriteKeepsReplies, EndWriteKeepsReplies,
       CheckpointCommitKeepsReplies, CheckpointReplyKeepsReplies, BatchEndKeepsReplies,
       StopKeepsReplies, PanicKeepsReplies DEF WriterTask

LEMMA StepKeepsReplies ==
  ASSUME ReplyInv, [Next]_serverVars
  PROVE  ReplyInv'
  <1>1. ASSUME NEW c \in Clients, Handler(c) \/ HangUp(c) PROVE ReplyInv'
    BY <1>1, HandlerKeepsReplies
  <1>2. CASE WriterTask \/ Panic
    BY <1>2, WriterKeepsReplies
  <1>3. CASE SealerWorks \/ SealerEnds \/ MergerWorks \/ ShutDown
    BY <1>3, SameReplies DEF SealerWorks, SealerEnds, MergerWorks, ShutDown, BackgroundSame, clientVars,
                             writerVars, storeVars, replyVars
  <1>4. CASE UNCHANGED serverVars
    BY <1>4, SameReplies DEF serverVars, clientVars, writerVars, storeVars, replyVars
  <1> QED
    BY <1>1, <1>2, <1>3, <1>4 DEF Next

(* Whoever is told that a write is done has it stored for good, through    *)
(* full channels, shared commits, failures, hang-ups and panics, but for   *)
(* the writes a checkpoint answered although their commit had failed; and  *)
(* a stop without a failure leaves nothing behind that is not stored.      *)
THEOREM RepliesAreDurable == Spec => []OkMeansDurable
  <1>1. ServerInit => ReplyInv
    BY StartReplies
  <1>2. ReplyInv /\ [Next]_serverVars => ReplyInv'
    BY StepKeepsReplies
  <1>3. ReplyInv => OkMeansDurable
    BY DEF ReplyInv, OkStored, StopStores, OkMeansDurable
  <1> QED
    BY <1>1, <1>2, <1>3, PTL DEF Spec
=============================================================================
