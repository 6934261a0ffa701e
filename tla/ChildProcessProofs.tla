------------------------- MODULE ChildProcessProofs -------------------------
(***************************************************************************)
(* Proofs about ChildProcess, for any number of processes, output pipes,   *)
(* slots, lanes and chunks.  Three facts make the invariant inductive:     *)
(*   - the process slots are counted right, and only a process that has    *)
(*     one has a child that lives (SlotsCounted);                          *)
(*   - the pool never has more lanes out than there are, so that what is   *)
(*     served and what waits are together exactly what was asked           *)
(*     (LanesHold, and the lemma Served);                                  *)
(*   - a stdin that is not open is neither written nor to be written, and  *)
(*     whatever closes it has stopped its writers first (StdinQuiet).      *)
(***************************************************************************)
EXTENDS ChildProcess, FiniteSetTheorems, SequenceTheorems, TLAPS

WriteOf(p) == Call("write", p)

(* A call is outstanding once at most.                                     *)
Once(queue, c) ==
  \A i, j \in 1 .. Len(queue) : queue[i] = c /\ queue[j] = c => i = j
Alone(c) == (c \in busy => c \notin Range(waiting)) /\ Once(waiting, c)

HasSlot == {p \in Procs : stage[p] \in {"spawning", "running"}}

LanesHold ==
  /\ busy \subseteq Calls /\ waiting \in Seq(Calls)
  /\ Cardinality(busy) <= MAX_LANES

SlotsCounted ==
  /\ processes = Cardinality(HasSlot) /\ processes <= MAX_PROCESSES
  /\ \A i \in 1 .. Len(process_waiters) : stage[process_waiters[i]] = "parked"
  /\ \A i, j \in 1 .. Len(process_waiters) :
       process_waiters[i] = process_waiters[j] => i = j
  /\ \A p \in Procs : child[p] = "alive" => stage[p] = "running"

WritesKnown ==
  \A p \in Procs :
    /\ Alone(WriteOf(p))
    /\ WriteOf(p) \in Outstanding => unwritten[p] > 0

StdinQuiet ==
  \A p \in Procs :
    /\ fd_close[p]["stdin"] # "open" =>
         /\ WriteOf(p) \notin Outstanding /\ ~Pumps(p)
         /\ p \in stdin_closing \cup stdin_stopped
    /\ closing[p] # "no" => p \in stdin_stopped
    /\ Call("kill", p) \in Outstanding => p \in stdin_stopped
    /\ \A fd \in Fds : CloseCall(p, fd) \in Outstanding => fd_close[p][fd] # "open"

Inv == TypeOK /\ LanesHold /\ SlotsCounted /\ WritesKnown /\ StdinQuiet

-----------------------------------------------------------------------------
(***************************************************************************)
(* Sequences and sets.                                                     *)
(***************************************************************************)
LEMMA RangeIs ==
  ASSUME NEW S, NEW s \in Seq(S)
  PROVE  /\ Range(s) \subseteq S
         /\ \A x : x \in Range(s) <=> \E i \in 1 .. Len(s) : s[i] = x
BY DEF Range

LEMMA RangeFinite ==
  ASSUME NEW S, NEW s \in Seq(S)
  PROVE  IsFiniteSet(Range(s)) /\ Cardinality(Range(s)) <= Len(s)
<1>0. Len(s) \in Nat
  OBVIOUS
<1>1. IsFiniteSet(1 .. Len(s)) /\ Cardinality(1 .. Len(s)) = Len(s)
  BY <1>0, FS_Interval, SMTT(60)
<1>2. PICK f : f = [i \in 1 .. Len(s) |-> s[i]]
  OBVIOUS
<1>3. f \in Surjection(1 .. Len(s), Range(s))
  BY <1>2 DEF Surjection, Range
<1> QED
  BY <1>1, <1>3, FS_Surjection

LEMMA RangeOfConcat ==
  ASSUME NEW S, NEW s \in Seq(S), NEW t \in Seq(S)
  PROVE  s \o t \in Seq(S) /\ Range(s \o t) = Range(s) \cup Range(t)
<1>1. s \o t \in Seq(S)
  OBVIOUS
<1>2. ASSUME NEW x PROVE x \in Range(s \o t) <=> x \in Range(s) \cup Range(t)
  <2>1. ASSUME x \in Range(s \o t) PROVE x \in Range(s) \cup Range(t)
    <3>1. PICK i \in 1 .. Len(s \o t) : (s \o t)[i] = x
      BY <1>1, <2>1, RangeIs
    <3>2. CASE i <= Len(s)
      BY <3>1, <3>2, RangeIs
    <3>3. CASE i > Len(s)
      <4>1. i - Len(s) \in 1 .. Len(t) /\ t[i - Len(s)] = x
        BY <3>1, <3>3
      <4> QED BY <4>1, RangeIs
    <3> QED BY <3>2, <3>3
  <2>2. ASSUME x \in Range(s) PROVE x \in Range(s \o t)
    <3>1. PICK i \in 1 .. Len(s) : s[i] = x
      BY <2>2, RangeIs
    <3>2. i \in 1 .. Len(s \o t) /\ (s \o t)[i] = x
      BY <3>1
    <3> QED BY <1>1, <3>2, RangeIs
  <2>3. ASSUME x \in Range(t) PROVE x \in Range(s \o t)
    <3>1. PICK i \in 1 .. Len(t) : t[i] = x
      BY <2>3, RangeIs
    <3>2. i + Len(s) \in 1 .. Len(s \o t) /\ (s \o t)[i + Len(s)] = x
      BY <3>1
    <3> QED BY <1>1, <3>2, RangeIs
  <2> QED BY <2>1, <2>2, <2>3
<1> QED BY <1>1, <1>2

LEMMA SetToSeqIs ==
  ASSUME NEW S, IsFiniteSet(S)
  PROVE  SetToSeq(S) \in Seq(S) /\ Range(SetToSeq(S)) \subseteq S
<1>1. Cardinality(S) \in Nat /\ ExistsBijection(1 .. Cardinality(S), S)
  BY FS_CardinalityType
<1>2. PICK f \in [1 .. Cardinality(S) -> S] : IsInjective(f)
  BY <1>1 DEF ExistsBijection, Bijection, Injection
<1>3. SetToSeq(S) \in [1 .. Cardinality(S) -> S]
  BY <1>2 DEF SetToSeq
<1>4. SetToSeq(S) \in Seq(S)
  BY <1>1, <1>3
<1> QED
  BY <1>4, RangeIs

LEMMA CallsFinite == IsFiniteSet(Calls)
<1>1. IsFiniteSet({"-"}) /\ IsFiniteSet(Fds)
  BY ProcsAssumption, FS_Singleton, FS_AddElement DEF Fds
<1>2. ASSUME NEW K, IsFiniteSet(K), NEW F, IsFiniteSet(F)
      PROVE  IsFiniteSet(K \X Procs \X F)
  <2>1. IsFiniteSet(K \X (Procs \X F))
    BY <1>2, ProcsAssumption, FS_Product
  <2>2. PICK f : f = [c \in K \X (Procs \X F) |-> <<c[1], c[2][1], c[2][2]>>]
    OBVIOUS
  <2>3. f \in Surjection(K \X (Procs \X F), K \X Procs \X F)
    <3>1. f \in [K \X (Procs \X F) -> K \X Procs \X F]
      BY <2>2
    <3>2. ASSUME NEW c \in K \X Procs \X F
          PROVE  \E d \in K \X (Procs \X F) : f[d] = c
      <4>1. <<c[1], <<c[2], c[3]>>>> \in K \X (Procs \X F)
        OBVIOUS
      <4>2. f[<<c[1], <<c[2], c[3]>>>>] = <<c[1], c[2], c[3]>>
        BY <2>2, <4>1
      <4>3. c = <<c[1], c[2], c[3]>>
        OBVIOUS
      <4> QED BY <4>1, <4>2, <4>3
    <3> QED BY <3>1, <3>2 DEF Surjection
  <2> QED BY <2>1, <2>3, FS_Surjection
<1>3. /\ IsFiniteSet({"spawn", "reap", "write", "kill"})
      /\ IsFiniteSet({"read", "late read"}) /\ IsFiniteSet({"close"})
  <2>1. IsFiniteSet({"spawn"}) /\ IsFiniteSet({"read"}) /\ IsFiniteSet({"close"})
    BY FS_Singleton
  <2>2. IsFiniteSet({"spawn"} \cup {"reap"}) /\ IsFiniteSet({"read"} \cup {"late read"})
    BY <2>1, FS_AddElement
  <2>3. IsFiniteSet(({"spawn"} \cup {"reap"}) \cup {"write"})
    BY <2>2, FS_AddElement
  <2>4. IsFiniteSet((({"spawn"} \cup {"reap"}) \cup {"write"}) \cup {"kill"})
    BY <2>3, FS_AddElement
  <2>5. /\ {"spawn", "reap", "write", "kill"} = (({"spawn"} \cup {"reap"}) \cup {"write"}) \cup {"kill"}
        /\ {"read", "late read"} = {"read"} \cup {"late read"}
    OBVIOUS
  <2> QED BY <2>1, <2>2, <2>4, <2>5
<1>4. /\ IsFiniteSet({"spawn", "reap", "write", "kill"} \X Procs \X {"-"})
      /\ IsFiniteSet({"read", "late read"} \X Procs \X Outputs)
      /\ IsFiniteSet({"close"} \X Procs \X Fds)
  BY <1>1, <1>2, <1>3, ProcsAssumption
<1> QED
  BY <1>4, FS_Union DEF Calls

-----------------------------------------------------------------------------
(***************************************************************************)
(* The pool: what is served and what waits.                                *)
(***************************************************************************)
LEMMA Served ==
  ASSUME NEW taken \in SUBSET Calls, Cardinality(taken) <= MAX_LANES,
         NEW queue \in Seq(Calls), Serve(taken, queue)
  PROVE  /\ LanesHold'
         /\ Outstanding' = taken \cup Range(queue)
         /\ \A c : (c \in taken => c \notin Range(queue)) /\ Once(queue, c) => Alone(c)'
<1>1. IsFiniteSet(taken) /\ Cardinality(taken) \in Nat
  BY CallsFinite, FS_Subset, FS_CardinalityType
<1>2. PICK n : n = Min({MAX_LANES - Cardinality(taken), Len(queue)})
  OBVIOUS
<1>3. n \in Nat /\ n <= MAX_LANES - Cardinality(taken) /\ n <= Len(queue)
  <2>1. PICK a \in Nat : a = MAX_LANES - Cardinality(taken)
    BY <1>1, CapsAssumption
  <2>2. PICK b \in Nat : b = Len(queue)
    OBVIOUS
  <2>3. n = Min({a, b})
    BY <1>2, <2>1, <2>2
  <2>4. \E x \in {a, b} : \A y \in {a, b} : x <= y
    BY <2>1, <2>2
  <2>5. n \in {a, b} /\ \A y \in {a, b} : n <= y
    BY <2>3, <2>4 DEF Min
  <2> QED BY <2>1, <2>2, <2>5
<1>4. PICK first : first = SubSeq(queue, 1, n)
  OBVIOUS
<1>5. PICK rest : rest = SubSeq(queue, n + 1, Len(queue))
  OBVIOUS
<1>6. busy' = taken \cup Range(first) /\ waiting' = rest
  BY <1>2, <1>4, <1>5 DEF Serve
<1>7. /\ first \in Seq(Calls) /\ Len(first) = n
      /\ \A i \in 1 .. n : first[i] = queue[i]
  BY <1>3, <1>4
<1>8. /\ rest \in Seq(Calls) /\ Len(rest) = Len(queue) - n
      /\ \A i \in 1 .. Len(queue) - n : rest[i] = queue[n + i]
  BY <1>3, <1>5
<1>9. IsFiniteSet(Range(first)) /\ Cardinality(Range(first)) <= n
      /\ Cardinality(Range(first)) \in Nat
  BY <1>7, RangeFinite, FS_CardinalityType
<1>10. Cardinality(busy') <= MAX_LANES
  <2>1. Cardinality(taken \cup Range(first)) =
          Cardinality(taken) + Cardinality(Range(first)) - Cardinality(taken \cap Range(first))
    BY <1>1, <1>9, FS_Union
  <2>2. Cardinality(taken \cap Range(first)) \in Nat
    BY <1>1, FS_Intersection, FS_CardinalityType
  <2> QED BY <1>1, <1>3, <1>6, <1>9, <2>1, <2>2, CapsAssumption
<1>11. Range(first) \subseteq Calls
  BY <1>7, RangeIs
<1>12. LanesHold'
  BY <1>6, <1>8, <1>10, <1>11 DEF LanesHold
<1>13. \A x : x \in Range(first) => \E i \in 1 .. n : queue[i] = x
  BY <1>7, RangeIs
<1>14. \A x : x \in Range(rest) => \E i \in n + 1 .. Len(queue) : queue[i] = x
  <2>1. ASSUME NEW x, x \in Range(rest) PROVE \E i \in n + 1 .. Len(queue) : queue[i] = x
    <3>1. PICK j \in 1 .. Len(rest) : rest[j] = x
      BY <1>8, <2>1, RangeIs
    <3>2. n + j \in n + 1 .. Len(queue) /\ queue[n + j] = x
      BY <1>3, <1>8, <3>1
    <3> QED BY <3>2
  <2> QED BY <2>1
<1>15. ASSUME NEW i \in 1 .. Len(queue) PROVE queue[i] \in Range(first) \cup Range(rest)
  <2>1. CASE i <= n
    <3>1. i \in 1 .. Len(first) /\ first[i] = queue[i]
      BY <1>3, <1>7, <2>1
    <3> QED BY <1>7, <3>1, RangeIs
  <2>2. CASE i > n
    <3>1. i - n \in 1 .. Len(rest) /\ rest[i - n] = queue[i]
      BY <1>3, <1>8, <2>2
    <3> QED BY <1>8, <3>1, RangeIs
  <2> QED BY <1>3, <2>1, <2>2
<1>16. Range(queue) = Range(first) \cup Range(rest)
  <2>1. \A x : x \in Range(queue) <=> \E i \in 1 .. Len(queue) : queue[i] = x
    BY RangeIs
  <2>2. \A i \in 1 .. n : i \in 1 .. Len(queue)
    BY <1>3
  <2>3. \A i \in n + 1 .. Len(queue) : i \in 1 .. Len(queue)
    BY <1>3
  <2> QED BY <1>13, <1>14, <1>15, <2>1, <2>2, <2>3
<1>17. Outstanding' = taken \cup Range(queue)
  BY <1>6, <1>16 DEF Outstanding
<1>18. ASSUME NEW c, c \in taken => c \notin Range(queue), Once(queue, c)
       PROVE  Alone(c)'
  <2>1. ASSUME c \in busy', c \in Range(waiting') PROVE FALSE
    <3>1. c \in Range(rest)
      BY <1>6, <2>1
    <3>2. c \notin taken
      BY <1>16, <1>18, <3>1
    <3>3. c \in Range(first)
      BY <1>6, <2>1, <3>2
    <3>4. PICK i \in 1 .. n : queue[i] = c
      BY <1>13, <3>3
    <3>5. PICK j \in n + 1 .. Len(queue) : queue[j] = c
      BY <1>14, <3>1
    <3>6. i \in 1 .. Len(queue) /\ j \in 1 .. Len(queue) /\ i # j
      BY <1>3
    <3> QED BY <1>18, <3>4, <3>5, <3>6 DEF Once
  <2>2. Once(rest, c)
    <3>1. ASSUME NEW i \in 1 .. Len(rest), NEW j \in 1 .. Len(rest), rest[i] = c, rest[j] = c
          PROVE  i = j
      <4>1. n + i \in 1 .. Len(queue) /\ n + j \in 1 .. Len(queue)
        BY <1>3, <1>8
      <4>2. queue[n + i] = c /\ queue[n + j] = c
        BY <1>8, <3>1
      <4>3. n + i = n + j
        BY <1>18, <4>1, <4>2 DEF Once
      <4> QED BY <1>3, <4>3
    <3> QED BY <3>1 DEF Once
  <2> QED BY <1>6, <2>1, <2>2 DEF Alone
<1> QED
  BY <1>12, <1>17, <1>18

(* Calls are made while others may be answered: the calls that are         *)
(* outstanding then, and which of them are so once.                        *)
LEMMA Made ==
  ASSUME LanesHold, NEW taken \in SUBSET busy, NEW calls \in Seq(Calls),
         Serve(taken, waiting \o calls)
  PROVE  /\ LanesHold'
         /\ Outstanding' = taken \cup Range(waiting) \cup Range(calls)
         /\ \A c : Alone(c) /\ c \notin Range(calls) => Alone(c)'
         /\ \A c : calls = <<c>> /\ c \notin Outstanding => Alone(c)'
<1>1. taken \in SUBSET Calls /\ waiting \in Seq(Calls)
  BY DEF LanesHold
<1>2. Cardinality(taken) <= MAX_LANES
  <2>1. IsFiniteSet(busy)
    BY CallsFinite, FS_Subset DEF LanesHold
  <2>2. Cardinality(taken) <= Cardinality(busy) /\ Cardinality(taken) \in Nat
        /\ Cardinality(busy) \in Nat
    BY <2>1, FS_Subset, FS_CardinalityType
  <2> QED BY <2>2, CapsAssumption DEF LanesHold
<1>3. PICK queue : queue = waiting \o calls
  OBVIOUS
<1>4. queue \in Seq(Calls) /\ Range(queue) = Range(waiting) \cup Range(calls)
  BY <1>1, <1>3, RangeOfConcat
<1>5. Serve(taken, queue)
  BY <1>3
<1>6. /\ LanesHold' /\ Outstanding' = taken \cup Range(queue)
      /\ \A c : (c \in taken => c \notin Range(queue)) /\ Once(queue, c) => Alone(c)'
  BY <1>1, <1>2, <1>4, <1>5, Served
<1>7. /\ Len(queue) = Len(waiting) + Len(calls)
      /\ \A i \in 1 .. Len(queue) :
           queue[i] = IF i <= Len(waiting) THEN waiting[i] ELSE calls[i - Len(waiting)]
  BY <1>1, <1>3
<1>8. ASSUME NEW c, Alone(c), c \notin Range(calls) PROVE Alone(c)'
  <2>1. ASSUME NEW i \in 1 .. Len(queue), queue[i] = c
        PROVE  i \in 1 .. Len(waiting) /\ waiting[i] = c
    <3>1. CASE i <= Len(waiting)
      BY <1>7, <2>1, <3>1
    <3>2. CASE i > Len(waiting)
      <4>1. i - Len(waiting) \in 1 .. Len(calls) /\ calls[i - Len(waiting)] = c
        BY <1>1, <1>7, <2>1, <3>2
      <4> QED BY <1>8, <4>1, RangeIs
    <3> QED BY <1>1, <3>1, <3>2
  <2>2. Once(queue, c)
    BY <1>8, <2>1 DEF Once, Alone
  <2>3. c \in taken => c \notin Range(queue)
    BY <1>4, <1>8 DEF Alone
  <2> QED BY <1>6, <2>2, <2>3
<1>9. ASSUME NEW c, calls = <<c>>, c \notin Outstanding PROVE Alone(c)'
  <2>1. \A i \in 1 .. Len(waiting) : waiting[i] # c
    BY <1>1, <1>9, RangeIs DEF Outstanding
  <2>2. Len(calls) = 1
    BY <1>9
  <2>3. Once(queue, c)
    <3>1. ASSUME NEW i \in 1 .. Len(queue), queue[i] = c PROVE i = Len(waiting) + 1
      BY <1>1, <1>7, <2>1, <2>2, <3>1
    <3> QED BY <1>1, <3>1 DEF Once
  <2>4. c \notin taken
    BY <1>9 DEF Outstanding
  <2> QED BY <1>6, <2>3, <2>4
<1> QED
  BY <1>4, <1>6, <1>8, <1>9

-----------------------------------------------------------------------------
(***************************************************************************)
(* What each action does to the calls that are outstanding: some may be    *)
(* answered, and only calls of `made' are new.                             *)
(***************************************************************************)
Gains(made) ==
  /\ LanesHold'
  /\ Outstanding' \subseteq Outstanding \cup made
  /\ \A c : Alone(c) /\ c \notin made => Alone(c)'

(* The calls that neither write stdin nor close anything.                  *)
Neutral == {c \in Calls : c[1] \in {"spawn", "reap", "read", "late read"}}

LEMMA CallsOf ==
  ASSUME NEW p \in Procs
  PROVE  /\ Call("spawn", p) \in Neutral /\ Call("reap", p) \in Neutral
         /\ Call("write", p) \in Calls /\ Call("kill", p) \in Calls
         /\ \A fd \in Outputs : ReadCall(p, fd) \in Neutral /\ LateRead(p, fd) \in Neutral
         /\ \A fd \in Fds : CloseCall(p, fd) \in Calls
BY DEF Call, ReadCall, LateRead, CloseCall, Calls, Neutral

(* Calls of different kinds or processes are different.                    *)
LEMMA CallsApart ==
  ASSUME NEW p \in Procs, NEW q \in Procs
  PROVE  /\ Call("write", p) \notin Neutral /\ Call("kill", p) \notin Neutral
         /\ \A fd \in Fds : CloseCall(p, fd) \notin Neutral
         /\ Call("write", p) # Call("kill", q)
         /\ \A fd \in Fds : CloseCall(p, fd) # Call("write", q) /\ CloseCall(p, fd) # Call("kill", q)
         /\ Call("write", p) = Call("write", q) => p = q
         /\ Call("kill", p) = Call("kill", q) => p = q
         /\ \A fd, fe \in Fds : CloseCall(p, fd) = CloseCall(q, fe) => p = q /\ fd = fe
BY DEF Call, CloseCall, Neutral

LEMMA TripleForm ==
  ASSUME NEW K, NEW P, NEW F, NEW c \in K \X P \X F
  PROVE  c = <<c[1], c[2], c[3]>> /\ c[1] \in K /\ c[3] \in F
OBVIOUS

LEMMA CallForm ==
  ASSUME NEW c \in Calls
  PROVE  /\ c = <<c[1], c[2], c[3]>>
         /\ c[1] \in {"reap", "write"} => c[3] = "-"
         /\ c[1] = "read" => c[3] \in Outputs
<1>1. CASE c \in {"spawn", "reap", "write", "kill"} \X Procs \X {"-"}
  BY <1>1
<1>2. CASE c \in {"read", "late read"} \X Procs \X Outputs
  <2>1. c = <<c[1], c[2], c[3]>> /\ c[1] \in {"read", "late read"} /\ c[3] \in Outputs
    <3>1. PICK K : K = {"read", "late read"}
      OBVIOUS
    <3>2. c \in K \X Procs \X Outputs
      BY <1>2, <3>1, Zenon
    <3>3. c = <<c[1], c[2], c[3]>> /\ c[1] \in K /\ c[3] \in Outputs
      BY <3>2, TripleForm
    <3> QED BY <3>1, <3>3, Zenon
  <2>2. c[1] \notin {"reap", "write"}
    BY <2>1
  <2> QED BY <2>1, <2>2, Zenon
<1>3. CASE c \in {"close"} \X Procs \X Fds
  BY <1>3
<1> QED
  BY <1>1, <1>2, <1>3 DEF Calls

LEMMA OneCall ==
  ASSUME NEW c \in Calls
  PROVE  <<c>> \in Seq(Calls) /\ Range(<<c>>) = {c}
BY DEF Range

LEMMA NoCall == <<>> \in Seq(Calls) /\ Range(<<>>) = {}
BY DEF Range

LEMMA MakeGains ==
  ASSUME LanesHold, NEW calls \in Seq(Calls), NEW made, Range(calls) \subseteq made, Make(calls)
  PROVE  Gains(made)
<1>1. Serve(busy, waiting \o calls) /\ busy \in SUBSET busy
  BY DEF Make
<1>2. /\ LanesHold' /\ Outstanding' = busy \cup Range(waiting) \cup Range(calls)
      /\ \A c : Alone(c) /\ c \notin Range(calls) => Alone(c)'
  BY <1>1, Made
<1> QED
  BY <1>2 DEF Gains, Outstanding

LEMMA AnswerGains ==
  ASSUME LanesHold, NEW c, NEW calls \in Seq(Calls), NEW made, Range(calls) \subseteq made,
         Answer(c, calls)
  PROVE  /\ Gains(made) /\ c \in Outstanding
         /\ Alone(c) /\ c \notin made => c \notin Outstanding'
<1>1. Serve(busy \ {c}, waiting \o calls) /\ busy \ {c} \in SUBSET busy /\ c \in busy
  BY DEF Answer
<1>2. /\ LanesHold' /\ Outstanding' = (busy \ {c}) \cup Range(waiting) \cup Range(calls)
      /\ \A d : Alone(d) /\ d \notin Range(calls) => Alone(d)'
  BY <1>1, Made
<1>3. Gains(made) /\ c \in Outstanding
  BY <1>1, <1>2 DEF Gains, Outstanding
<1>4. Alone(c) /\ c \notin made => c \notin Outstanding'
  BY <1>1, <1>2 DEF Alone
<1> QED
  BY <1>3, <1>4

LEMMA StillGains ==
  ASSUME LanesHold, UNCHANGED laneVars
  PROVE  Gains({})
BY DEF Gains, LanesHold, Outstanding, Alone, laneVars

(* The calls that are made together.                                       *)
LEMMA SpawnSeq ==
  ASSUME NEW Q \in SUBSET Procs, IsFiniteSet(Q)
  PROVE  /\ SetToSeq({Call("spawn", q) : q \in Q}) \in Seq(Calls)
         /\ Range(SetToSeq({Call("spawn", q) : q \in Q})) \subseteq Neutral
<1>1. PICK S : S = {Call("spawn", q) : q \in Q}
  OBVIOUS
<1>2. S \subseteq Neutral /\ Neutral \subseteq Calls
  BY <1>1, CallsOf DEF Neutral
<1>3. IsFiniteSet(S)
  BY <1>2, CallsFinite, FS_Subset
<1>4. SetToSeq(S) \in Seq(S) /\ Range(SetToSeq(S)) \subseteq S
  BY <1>3, SetToSeqIs
<1>5. SetToSeq(S) \in Seq(Calls)
  BY <1>2, <1>4
<1> QED
  BY <1>1, <1>2, <1>4, <1>5

LEMMA FirstSeq ==
  ASSUME NEW p \in Procs
  PROVE  LET calls == <<Call("reap", p)>> \o SetToSeq({ReadCall(p, fd) : fd \in Outputs})
         IN  calls \in Seq(Calls) /\ Range(calls) \subseteq Neutral
<1>1. PICK S : S = {ReadCall(p, fd) : fd \in Outputs}
  OBVIOUS
<1>2. S \subseteq Neutral /\ Neutral \subseteq Calls
  BY <1>1, CallsOf DEF Neutral
<1>3. IsFiniteSet(S)
  BY <1>2, CallsFinite, FS_Subset
<1>4. SetToSeq(S) \in Seq(S) /\ Range(SetToSeq(S)) \subseteq S
  BY <1>3, SetToSeqIs
<1>5. SetToSeq(S) \in Seq(Calls)
  BY <1>2, <1>4
<1>6. <<Call("reap", p)>> \in Seq(Calls) /\ Range(<<Call("reap", p)>>) = {Call("reap", p)}
  BY <1>2, CallsOf, OneCall
<1>7. PICK first : first = <<Call("reap", p)>>
  OBVIOUS
<1>8. PICK others : others = SetToSeq(S)
  OBVIOUS
<1>9. /\ first \in Seq(Calls) /\ Range(first) = {Call("reap", p)}
      /\ others \in Seq(Calls) /\ Range(others) \subseteq Neutral
  BY <1>2, <1>4, <1>5, <1>6, <1>7, <1>8
<1>10. first \o others \in Seq(Calls) /\ Range(first \o others) \subseteq Neutral
  BY <1>9, RangeOfConcat, CallsOf
<1> QED
  BY <1>1, <1>7, <1>8, <1>10

LEMMA CloseSeq ==
  ASSUME NEW p \in Procs, NEW fds \in SUBSET Fds
  PROVE  /\ ClosesMade(p, fds) \in Seq(Calls)
         /\ Range(ClosesMade(p, fds)) \subseteq {CloseCall(p, fd) : fd \in fds}
<1>1. PICK S : S = {CloseCall(p, fd) : fd \in {f \in fds : fd_close[p][f] = "open"}}
  OBVIOUS
<1>2. S \subseteq Calls /\ S \subseteq {CloseCall(p, fd) : fd \in fds}
  BY <1>1, CallsOf
<1>3. IsFiniteSet(S)
  BY <1>2, CallsFinite, FS_Subset
<1>4. SetToSeq(S) \in Seq(S) /\ Range(SetToSeq(S)) \subseteq S
  BY <1>3, SetToSeqIs
<1>5. SetToSeq(S) \in Seq(Calls)
  BY <1>2, <1>4
<1> QED
  BY <1>1, <1>2, <1>4, <1>5 DEF ClosesMade

(* What every action makes.                                                *)
LEMMA NeutralSteps ==
  ASSUME Inv, NEW p \in Procs,
         \/ Exec(p) \/ Spawned(p) \/ SpawnFails(p) \/ Reaped(p) \/ Written(p) \/ Killed(p)
         \/ \E fd \in Outputs : ReadData(p, fd) \/ Pull(p, fd) \/ LateReadFails(p, fd)
         \/ \E fd \in Fds : FdClosed(p, fd)
  PROVE  Gains(Neutral)
<1> USE CallsOf DEF Inv
<1>0. Neutral \subseteq Calls
  BY DEF Neutral
<1>1. CASE Exec(p)
  <2>1. PICK calls : calls = <<Call("spawn", p)>>
    OBVIOUS
  <2>2. Call("spawn", p) \in Calls
    BY <1>0
  <2>3. calls \in Seq(Calls) /\ Range(calls) \subseteq Neutral
    BY <2>1, <2>2, OneCall
  <2>4. Make(calls)
    BY <1>1, <2>1 DEF Exec
  <2> QED BY <2>3, <2>4, MakeGains
<1>2. CASE Spawned(p)
  BY <1>2, AnswerGains, FirstSeq DEF Spawned
<1>3. CASE SpawnFails(p) \/ Reaped(p)
  <2>1. Unparked \in SUBSET Procs /\ IsFiniteSet(Unparked)
    BY ProcsAssumption, FS_Subset DEF Unparked, TypeOK
  <2> QED BY <1>3, <2>1, SpawnSeq, AnswerGains DEF SpawnFails, Reaped
<1>4. CASE Written(p) \/ Killed(p) \/ (\E fd \in Fds : FdClosed(p, fd))
        \/ (\E fd \in Outputs : ReadData(p, fd) \/ LateReadFails(p, fd))
  BY <1>4, NoCall, AnswerGains DEF Written, Killed, FdClosed, ReadData, LateReadFails
<1>5. ASSUME NEW fd \in Outputs, Pull(p, fd) PROVE Gains(Neutral)
  <2>1. PICK c \in Neutral : Make(<<c>>)
    BY <1>5 DEF Pull
  <2>2. PICK calls : calls = <<c>>
    OBVIOUS
  <2>3. calls \in Seq(Calls) /\ Range(calls) \subseteq Neutral
    BY <1>0, <2>2, OneCall
  <2>4. Make(calls)
    BY <2>1, <2>2
  <2> QED BY <2>3, <2>4, MakeGains
<1> QED
  BY <1>1, <1>2, <1>3, <1>4, <1>5

LEMMA OneGains ==
  ASSUME LanesHold, NEW c \in Calls, Make(<<c>>)
  PROVE  Gains({c}) /\ (c \notin Outstanding => Alone(c)')
<1>1. PICK calls : calls = <<c>>
  OBVIOUS
<1>2. calls \in Seq(Calls) /\ Range(calls) = {c}
  BY <1>1, OneCall
<1>3. Serve(busy, waiting \o calls) /\ busy \in SUBSET busy
  BY <1>1 DEF Make
<1>4. \A d : calls = <<d>> /\ d \notin Outstanding => Alone(d)'
  BY <1>2, <1>3, Made
<1>5. Make(calls)
  BY <1>1
<1> QED
  BY <1>1, <1>2, <1>4, <1>5, MakeGains

LEMMA CloseSteps ==
  ASSUME Inv, NEW p \in Procs
  PROVE  /\ \A fd \in Outputs : ReadEof(p, fd) \/ Cancel(p, fd) => Gains({CloseCall(p, fd)})
         /\ StdinFlushed(p) => Gains({CloseCall(p, "stdin")})
         /\ CloseAll(p) => Gains({CloseCall(p, fd) : fd \in Fds})
<1> USE DEF Inv
<1>1. ASSUME NEW fd \in Outputs, ReadEof(p, fd) \/ Cancel(p, fd)
      PROVE  Gains({CloseCall(p, fd)})
  <2>1. {fd} \in SUBSET Fds
    BY DEF Fds
  <2>2. /\ ClosesMade(p, {fd}) \in Seq(Calls)
        /\ Range(ClosesMade(p, {fd})) \subseteq {CloseCall(p, fe) : fe \in {fd}}
    BY <2>1, CloseSeq
  <2>3. Range(ClosesMade(p, {fd})) \subseteq {CloseCall(p, fd)}
    BY <2>2
  <2> QED BY <1>1, <2>2, <2>3, MakeGains, AnswerGains DEF ReadEof, Cancel
<1>2. ASSUME StdinFlushed(p) PROVE Gains({CloseCall(p, "stdin")})
  <2>1. {"stdin"} \in SUBSET Fds
    BY DEF Fds
  <2>2. /\ ClosesMade(p, {"stdin"}) \in Seq(Calls)
        /\ Range(ClosesMade(p, {"stdin"})) \subseteq {CloseCall(p, fe) : fe \in {"stdin"}}
    BY <2>1, CloseSeq
  <2>3. Range(ClosesMade(p, {"stdin"})) \subseteq {CloseCall(p, "stdin")}
    BY <2>2
  <2> QED BY <1>2, <2>2, <2>3, MakeGains DEF StdinFlushed
<1>3. ASSUME CloseAll(p) PROVE Gains({CloseCall(p, fd) : fd \in Fds})
  <2>1. Fds \in SUBSET Fds
    OBVIOUS
  <2> QED BY <1>3, <2>1, CloseSeq, MakeGains DEF CloseAll
<1> QED
  BY <1>1, <1>2, <1>3

LEMMA LanesStep == Inv /\ [Next]_vars => LanesHold'
<1> SUFFICES ASSUME Inv, Next \/ UNCHANGED vars PROVE LanesHold'
  BY Zenon
<1>1. CASE UNCHANGED vars
  BY <1>1 DEF Inv, LanesHold, vars, laneVars
<1>2. ASSUME NEW p \in Procs,
        \/ Exec(p) \/ Spawned(p) \/ SpawnFails(p) \/ Reaped(p) \/ Written(p) \/ Killed(p)
        \/ \E fd \in Outputs : ReadData(p, fd) \/ Pull(p, fd) \/ LateReadFails(p, fd)
        \/ \E fd \in Fds : FdClosed(p, fd)
      PROVE LanesHold'
  BY <1>2, NeutralSteps, Zenon DEF Gains
<1>3. ASSUME NEW p \in Procs,
        StdinFlushed(p) \/ CloseAll(p) \/ (\E fd \in Outputs : ReadEof(p, fd) \/ Cancel(p, fd))
      PROVE LanesHold'
  BY <1>3, CloseSteps, Zenon DEF Gains
<1>4. ASSUME NEW p \in Procs, Pump(p) \/ Close(p) PROVE LanesHold'
  <2>1. Call("write", p) \in Calls /\ Call("kill", p) \in Calls
    BY CallsOf
  <2>2. PICK c \in Calls : Make(<<c>>)
    BY <1>4, <2>1 DEF Pump, Close
  <2> QED BY <2>2, OneGains DEF Gains, Inv
<1>5. ASSUME NEW p \in Procs,
        \/ ExecParked(p) \/ Closed(p) \/ Write(p) \/ StdinClose(p) \/ Exit(p) \/ DescendantExits(p)
      PROVE LanesHold'
  BY <1>5 DEF Inv, LanesHold, laneVars, ExecParked, Closed, Write, StdinClose, Exit, DescendantExits
<1> QED
  BY <1>1, <1>2, <1>3, <1>4, <1>5 DEF Next, Answered, HostStep

-----------------------------------------------------------------------------
(***************************************************************************)
(* Types.  A chunk that is written was there to be written.                *)
(***************************************************************************)
LEMMA ReleaseTyped ==
  ASSUME TypeOK, NEW p \in Procs, SlotsCounted, stage[p] \in {"spawning", "running"},
         NEW s \in {"failed", "settled"}, ReleaseSlot(p, s)
  PROVE  /\ processes' \in Nat /\ process_waiters' \in Seq(Procs)
         /\ stage' \in [Procs -> {"idle", "parked", "spawning", "running", "failed", "settled"}]
<1>1. processes \in Nat \ {0}
  <2>1. p \in HasSlot /\ IsFiniteSet(HasSlot)
    BY ProcsAssumption, FS_Subset DEF HasSlot
  <2>2. Cardinality(HasSlot) # 0
    BY <2>1, FS_EmptySet
  <2> QED BY <2>2 DEF TypeOK, SlotsCounted
<1>2. processes' \in Nat
  BY <1>1 DEF ReleaseSlot
<1>3. process_waiters' \in Seq(Procs)
  <2>1. CASE process_waiters = <<>>
    BY <2>1 DEF ReleaseSlot, Unparked
  <2>2. CASE process_waiters # <<>>
    <3>1. process_waiters' = Tail(process_waiters)
      BY <2>2 DEF ReleaseSlot, Unparked
    <3> QED BY <2>2, <3>1 DEF TypeOK
  <2> QED BY <2>1, <2>2
<1>4. stage' \in [Procs -> {"idle", "parked", "spawning", "running", "failed", "settled"}]
  BY DEF ReleaseSlot, TypeOK
<1> QED
  BY <1>2, <1>3, <1>4

LEMMA CloseFdsIs ==
  ASSUME TypeOK, NEW p \in Procs, NEW fds \in SUBSET Fds, CloseFds(p, fds)
  PROVE  /\ fd_close' \in [Procs -> [Fds -> {"open", "closing", "closed"}]]
         /\ \A q \in Procs, fd \in Fds :
              fd_close'[q][fd] = IF q = p /\ fd \in fds /\ fd_close[q][fd] = "open"
                                 THEN "closing" ELSE fd_close[q][fd]
<1>1. PICK now : now = [fd \in Fds |-> IF fd \in fds /\ fd_close[p][fd] = "open"
                                      THEN "closing" ELSE fd_close[p][fd]]
  OBVIOUS
<1>2. now \in [Fds -> {"open", "closing", "closed"}]
  BY <1>1 DEF TypeOK
<1>3. fd_close' = [fd_close EXCEPT ![p] = now]
  BY <1>1 DEF CloseFds
<1> QED
  BY <1>1, <1>2, <1>3 DEF TypeOK

LEMMA TypeStep == Inv /\ [Next]_vars => TypeOK'
<1> SUFFICES ASSUME Inv, Next \/ UNCHANGED vars PROVE TypeOK'
  BY Zenon
<1>1. LanesHold' /\ TypeOK /\ SlotsCounted /\ WritesKnown
  BY LanesStep DEF Inv
<1>2. (busy \in SUBSET Calls)' /\ (waiting \in Seq(Calls))'
  BY <1>1 DEF LanesHold
<1>3. CASE UNCHANGED vars
  BY <1>1, <1>3 DEF TypeOK, vars, clientVars, stdinVars, laneVars, guestVars
<1> USE DEF clientVars, stdinVars, laneVars, guestVars
<1>4. ASSUME NEW p \in Procs, Exec(p) \/ ExecParked(p) PROVE TypeOK'
  <2>1. CASE Exec(p)
    BY <1>1, <1>2, <2>1 DEF TypeOK, Exec
  <2>2. CASE ExecParked(p)
    <3>1. Append(process_waiters, p) \in Seq(Procs)
      BY <1>1 DEF TypeOK
    <3> QED BY <1>1, <1>2, <2>2, <3>1 DEF TypeOK, ExecParked
  <2> QED BY <1>4, <2>1, <2>2
<1>5. ASSUME NEW p \in Procs, Spawned(p) PROVE TypeOK'
  BY <1>1, <1>2, <1>5 DEF TypeOK, Spawned
<1>6. ASSUME NEW p \in Procs, SpawnFails(p) \/ Reaped(p) PROVE TypeOK'
  <2>1. /\ processes' \in Nat /\ process_waiters' \in Seq(Procs)
        /\ stage' \in [Procs -> {"idle", "parked", "spawning", "running", "failed", "settled"}]
    BY <1>1, <1>6, ReleaseTyped DEF SpawnFails, Reaped
  <2> QED BY <1>1, <1>2, <1>6, <2>1 DEF TypeOK, SpawnFails, Reaped
<1>7. ASSUME NEW p \in Procs, NEW fd \in Outputs,
             ReadData(p, fd) \/ Pull(p, fd) \/ LateReadFails(p, fd)
      PROVE TypeOK'
  BY <1>1, <1>2, <1>7 DEF TypeOK, ReadData, Pull, LateReadFails
<1>8. ASSUME NEW p \in Procs, NEW fd \in Outputs, ReadEof(p, fd) \/ Cancel(p, fd) PROVE TypeOK'
  <2>1. {fd} \in SUBSET Fds /\ CloseFds(p, {fd})
    BY <1>8 DEF Fds, ReadEof, Cancel
  <2>2. fd_close' \in [Procs -> [Fds -> {"open", "closing", "closed"}]]
    BY <1>1, <2>1, CloseFdsIs
  <2> QED BY <1>1, <1>2, <1>8, <2>2 DEF TypeOK, ReadEof, Cancel
<1>9. ASSUME NEW p \in Procs, NEW fd \in Fds, FdClosed(p, fd) PROVE TypeOK'
  BY <1>1, <1>2, <1>9 DEF TypeOK, FdClosed
<1>10. ASSUME NEW p \in Procs, Write(p) \/ StdinClose(p) PROVE TypeOK'
  <2>1. CASE Write(p)
    <3>1. unwritten[p] + 1 \in 0 .. MaxWrites
      BY <1>1, <2>1, CapsAssumption DEF TypeOK, Write
    <3> QED BY <1>1, <1>2, <2>1, <3>1 DEF TypeOK, Write
  <2>2. CASE StdinClose(p)
    BY <1>1, <1>2, <2>2 DEF TypeOK, StdinClose
  <2> QED BY <1>10, <2>1, <2>2
<1>11. ASSUME NEW p \in Procs, Pump(p) \/ StdinFlushed(p) \/ CloseAll(p) \/ Closed(p) PROVE TypeOK'
  <2>1. CASE Pump(p) \/ Closed(p)
    BY <1>1, <1>2, <2>1 DEF TypeOK, Pump, Closed
  <2>2. CASE StdinFlushed(p) \/ CloseAll(p)
    <3>1. PICK fds \in SUBSET Fds : CloseFds(p, fds)
      BY <2>2 DEF Fds, StdinFlushed, CloseAll
    <3>2. fd_close' \in [Procs -> [Fds -> {"open", "closing", "closed"}]]
      BY <1>1, <3>1, CloseFdsIs
    <3> QED BY <1>1, <1>2, <2>2, <3>2 DEF TypeOK, StdinFlushed, CloseAll
  <2> QED BY <1>11, <2>1, <2>2
<1>12. ASSUME NEW p \in Procs, Written(p) PROVE TypeOK'
  <2>1. unwritten[p] > 0
    BY <1>1, <1>12 DEF WritesKnown, WriteOf, Written, Answer, Outstanding
  <2>2. unwritten' \in [Procs -> 0 .. MaxWrites]
    BY <1>1, <1>12, <2>1, CapsAssumption DEF TypeOK, Written
  <2> QED BY <1>1, <1>2, <1>12, <2>2 DEF TypeOK, Written
<1>13. ASSUME NEW p \in Procs, Close(p) \/ Killed(p) PROVE TypeOK'
  BY <1>1, <1>2, <1>13 DEF TypeOK, Close, Killed
<1>14. ASSUME NEW p \in Procs, Exit(p) \/ DescendantExits(p) PROVE TypeOK'
  BY <1>1, <1>2, <1>14 DEF TypeOK, Exit, DescendantExits
<1> QED
  BY <1>3, <1>4, <1>5, <1>6, <1>7, <1>8, <1>9, <1>10, <1>11, <1>12, <1>13, <1>14
  DEF Next, Answered, HostStep

-----------------------------------------------------------------------------
(***************************************************************************)
(* The process slots.                                                      *)
(***************************************************************************)
LEMMA SlotsStill ==
  ASSUME SlotsCounted, UNCHANGED clientVars,
         \A p \in Procs : child'[p] = "alive" => child[p] = "alive"
  PROVE  SlotsCounted'
BY DEF SlotsCounted, HasSlot, clientVars

(* A slot that is released goes to the oldest waiter, or is free.          *)
LEMMA ReleaseCounts ==
  ASSUME TypeOK, SlotsCounted, NEW p \in Procs, stage[p] \in {"spawning", "running"},
         child[p] # "alive", NEW s \in {"failed", "settled"}, ReleaseSlot(p, s),
         UNCHANGED child
  PROVE  SlotsCounted'
<1>1. p \in HasSlot /\ IsFiniteSet(HasSlot) /\ Cardinality(HasSlot) \in Nat
  BY ProcsAssumption, FS_Subset, FS_CardinalityType DEF HasSlot
<1>2. /\ IsFiniteSet(HasSlot \ {p})
      /\ Cardinality(HasSlot \ {p}) = Cardinality(HasSlot) - 1
  BY <1>1, FS_RemoveElement
<1>3. CASE process_waiters = <<>>
  <2>1. HasSlot' = HasSlot \ {p}
    BY <1>3 DEF ReleaseSlot, Unparked, HasSlot
  <2>2. processes' = processes - 1 /\ process_waiters' = <<>>
    BY <1>3 DEF ReleaseSlot, Unparked
  <2>3. processes' = Cardinality(HasSlot') /\ processes' <= MAX_PROCESSES
    BY <1>1, <1>2, <2>1, <2>2, CapsAssumption DEF SlotsCounted
  <2>4. \A q \in Procs : child'[q] = "alive" => stage'[q] = "running"
    BY <1>3 DEF SlotsCounted, ReleaseSlot, Unparked
  <2> QED BY <2>2, <2>3, <2>4 DEF SlotsCounted
<1>4. CASE process_waiters # <<>>
  <2>1. PICK q : q = Head(process_waiters)
    OBVIOUS
  <2>2. q \in Procs /\ q = process_waiters[1] /\ 1 \in 1 .. Len(process_waiters)
    BY <1>4, <2>1 DEF TypeOK
  <2>3. stage[q] = "parked" /\ q # p /\ q \notin HasSlot
    BY <2>2 DEF SlotsCounted, HasSlot
  <2>4. /\ processes' = processes /\ process_waiters' = Tail(process_waiters)
        /\ stage' = [r \in Procs |-> IF r = p THEN s ELSE IF r = q THEN "spawning" ELSE stage[r]]
    BY <1>4, <2>1 DEF ReleaseSlot, Unparked
  <2>5. HasSlot' = (HasSlot \ {p}) \cup {q}
    BY <2>2, <2>3, <2>4 DEF HasSlot
  <2>6. Cardinality((HasSlot \ {p}) \cup {q}) = Cardinality(HasSlot \ {p}) + 1
    BY <1>2, <2>3, FS_AddElement
  <2>7. processes' = Cardinality(HasSlot') /\ processes' <= MAX_PROCESSES
    BY <1>1, <1>2, <2>4, <2>5, <2>6 DEF SlotsCounted
  <2>8. /\ Len(process_waiters') = Len(process_waiters) - 1
        /\ \A i \in 1 .. Len(process_waiters') :
             i + 1 \in 1 .. Len(process_waiters) /\ process_waiters'[i] = process_waiters[i + 1]
    BY <1>4, <2>4 DEF TypeOK
  <2>9. \A i \in 1 .. Len(process_waiters') : process_waiters'[i] \in Procs
    <3>1. \A i \in 1 .. Len(process_waiters) : process_waiters[i] \in Procs
      BY DEF TypeOK
    <3> QED BY <2>8, <3>1
  <2>10. ASSUME NEW i \in 1 .. Len(process_waiters')
         PROVE  stage'[process_waiters'[i]] = "parked"
    <3>1. stage[process_waiters'[i]] = "parked"
      BY <2>8 DEF SlotsCounted
    <3>2. process_waiters'[i] # q
      <4>1. i + 1 \in 1 .. Len(process_waiters) /\ i + 1 # 1
        BY <2>8
      <4> QED BY <2>2, <2>8, <4>1 DEF SlotsCounted
    <3> QED BY <2>4, <2>9, <3>1, <3>2
  <2>11. ASSUME NEW i \in 1 .. Len(process_waiters'), NEW j \in 1 .. Len(process_waiters'),
                process_waiters'[i] = process_waiters'[j]
         PROVE  i = j
    <3>1. i + 1 = j + 1
      BY <2>8, <2>11 DEF SlotsCounted
    <3> QED BY <3>1
  <2>12. \A r \in Procs : child'[r] = "alive" => stage'[r] = "running"
    BY <2>3, <2>4 DEF SlotsCounted
  <2> QED BY <2>7, <2>10, <2>11, <2>12 DEF SlotsCounted
<1> QED
  BY <1>3, <1>4

LEMMA SlotsStep == Inv /\ [Next]_vars => SlotsCounted'
<1> SUFFICES ASSUME Inv, Next \/ UNCHANGED vars PROVE SlotsCounted'
  BY Zenon
<1>0. TypeOK /\ SlotsCounted
  BY DEF Inv
<1>1. CASE UNCHANGED vars
  BY <1>0, <1>1, SlotsStill DEF vars, guestVars
<1>2. ASSUME NEW p \in Procs, Exec(p) PROVE SlotsCounted'
  <2>1. p \notin HasSlot /\ IsFiniteSet(HasSlot) /\ Cardinality(HasSlot) \in Nat
    BY <1>2, ProcsAssumption, FS_Subset, FS_CardinalityType DEF HasSlot, Exec
  <2>2. Cardinality(HasSlot \cup {p}) = Cardinality(HasSlot) + 1
    BY <2>1, FS_AddElement
  <2>3. HasSlot' = HasSlot \cup {p}
    BY <1>0, <1>2 DEF Exec, HasSlot, TypeOK
  <2>4. processes' = Cardinality(HasSlot') /\ processes' <= MAX_PROCESSES
    BY <1>0, <1>2, <2>1, <2>2, <2>3, CapsAssumption DEF Exec, SlotsCounted
  <2>5. ASSUME NEW i \in 1 .. Len(process_waiters') PROVE stage'[process_waiters'[i]] = "parked"
    BY <1>0, <1>2 DEF Exec, SlotsCounted, TypeOK
  <2> QED BY <1>0, <1>2, <2>4, <2>5 DEF Exec, SlotsCounted, TypeOK, guestVars
<1>3. ASSUME NEW p \in Procs, ExecParked(p) PROVE SlotsCounted'
  <2>1. HasSlot' = HasSlot
    BY <1>0, <1>3 DEF ExecParked, HasSlot, TypeOK
  <2>2. \A i \in 1 .. Len(process_waiters) :
          stage[process_waiters[i]] = "parked" /\ process_waiters[i] # p
    BY <1>0, <1>3 DEF ExecParked, SlotsCounted
  <2>3. /\ Len(process_waiters') = Len(process_waiters) + 1
        /\ \A i \in 1 .. Len(process_waiters) : process_waiters'[i] = process_waiters[i]
        /\ process_waiters'[Len(process_waiters) + 1] = p
    BY <1>0, <1>3 DEF ExecParked, TypeOK
  <2>4. ASSUME NEW i \in 1 .. Len(process_waiters') PROVE stage'[process_waiters'[i]] = "parked"
    <3>1. CASE i \in 1 .. Len(process_waiters)
      BY <1>0, <1>3, <2>2, <2>3, <3>1 DEF ExecParked, TypeOK
    <3>2. CASE i = Len(process_waiters) + 1
      BY <1>0, <1>3, <2>3, <3>2 DEF ExecParked, TypeOK
    <3> QED BY <1>0, <2>3, <3>1, <3>2 DEF TypeOK
  <2>5. ASSUME NEW i \in 1 .. Len(process_waiters'), NEW j \in 1 .. Len(process_waiters'),
               process_waiters'[i] = process_waiters'[j]
        PROVE  i = j
    <3>1. i \in 1 .. Len(process_waiters) \/ i = Len(process_waiters) + 1
      BY <1>0, <2>3 DEF TypeOK
    <3>2. j \in 1 .. Len(process_waiters) \/ j = Len(process_waiters) + 1
      BY <1>0, <2>3 DEF TypeOK
    <3> QED BY <1>0, <2>2, <2>3, <2>5, <3>1, <3>2 DEF SlotsCounted
  <2>6. processes' = Cardinality(HasSlot') /\ processes' <= MAX_PROCESSES
    BY <1>0, <1>3, <2>1 DEF ExecParked, SlotsCounted
  <2>7. \A q \in Procs : child'[q] = "alive" => stage'[q] = "running"
    BY <1>0, <1>3 DEF ExecParked, SlotsCounted, TypeOK, guestVars
  <2> QED BY <2>4, <2>5, <2>6, <2>7 DEF SlotsCounted
<1>4. ASSUME NEW p \in Procs, Spawned(p) PROVE SlotsCounted'
  <2>1. HasSlot' = HasSlot
    BY <1>0, <1>4 DEF Spawned, HasSlot, TypeOK
  <2>2. ASSUME NEW i \in 1 .. Len(process_waiters') PROVE stage'[process_waiters'[i]] = "parked"
    BY <1>0, <1>4 DEF Spawned, SlotsCounted, TypeOK
  <2>3. \A q \in Procs : child'[q] = "alive" => stage'[q] = "running"
    BY <1>0, <1>4 DEF Spawned, SlotsCounted, TypeOK
  <2> QED BY <1>0, <1>4, <2>1, <2>2, <2>3 DEF Spawned, SlotsCounted
<1>5. ASSUME NEW p \in Procs, SpawnFails(p) \/ Reaped(p) PROVE SlotsCounted'
  BY <1>0, <1>5, ReleaseCounts DEF SpawnFails, Reaped, guestVars, SlotsCounted
<1>6. ASSUME NEW p \in Procs, Killed(p) \/ Exit(p) PROVE SlotsCounted'
  <2>1. \A q \in Procs : child'[q] = "alive" => child[q] = "alive"
    BY <1>0, <1>6 DEF Killed, Exit, TypeOK
  <2> QED BY <1>0, <1>6, <2>1, SlotsStill DEF Killed, Exit
<1>7. ASSUME NEW p \in Procs,
        \/ Written(p) \/ Pump(p) \/ StdinFlushed(p) \/ CloseAll(p) \/ Closed(p)
        \/ Write(p) \/ StdinClose(p) \/ Close(p) \/ DescendantExits(p)
      PROVE SlotsCounted'
  BY <1>0, <1>7, SlotsStill
  DEF Written, Pump, StdinFlushed, CloseAll, Closed, Write, StdinClose, Close, DescendantExits, guestVars
<1>8. ASSUME NEW p \in Procs, NEW fd \in Fds,
        \/ ReadData(p, fd) \/ Pull(p, fd) \/ LateReadFails(p, fd)
        \/ ReadEof(p, fd) \/ Cancel(p, fd) \/ FdClosed(p, fd)
      PROVE SlotsCounted'
  BY <1>0, <1>8, SlotsStill
  DEF ReadData, Pull, LateReadFails, ReadEof, Cancel, FdClosed, guestVars
<1> QED
  BY <1>1, <1>2, <1>3, <1>4, <1>5, <1>6, <1>7, <1>8 DEF Next, Answered, HostStep, Fds

-----------------------------------------------------------------------------
(***************************************************************************)
(* The writes of stdin, and its close.                                     *)
(***************************************************************************)
(* No write is new, and what is not yet written is kept.                   *)
LEMMA WritesStill ==
  ASSUME WritesKnown, NEW made, Gains(made), \A p \in Procs : WriteOf(p) \notin made,
         \A p \in Procs : WriteOf(p) \in Outstanding' /\ unwritten[p] > 0 => unwritten'[p] > 0
  PROVE  WritesKnown'
BY DEF WritesKnown, Gains

LEMMA WritesStep == Inv /\ [Next]_vars => WritesKnown'
<1> SUFFICES ASSUME Inv, Next \/ UNCHANGED vars PROVE WritesKnown'
  BY Zenon
<1>0. TypeOK /\ WritesKnown /\ LanesHold
  BY DEF Inv
<1> USE DEF stdinVars
<1>1. CASE UNCHANGED vars
  BY <1>0, <1>1, StillGains, WritesStill DEF vars, laneVars
<1>2. ASSUME NEW p \in Procs,
        \/ Exec(p) \/ Spawned(p) \/ SpawnFails(p) \/ Reaped(p) \/ Killed(p)
        \/ \E fd \in Outputs : ReadData(p, fd) \/ Pull(p, fd) \/ LateReadFails(p, fd)
        \/ \E fd \in Fds : FdClosed(p, fd)
      PROVE WritesKnown'
  <2>1. Gains(Neutral)
    BY <1>2, NeutralSteps
  <2>2. \A q \in Procs : WriteOf(q) \notin Neutral
    BY CallsApart DEF WriteOf
  <2>3. unwritten' = unwritten
    BY <1>2 DEF Exec, Spawned, SpawnFails, Reaped, Killed, ReadData, Pull, LateReadFails, FdClosed
  <2> QED BY <1>0, <2>1, <2>2, <2>3, WritesStill
<1>3. ASSUME NEW p \in Procs, Written(p) PROVE WritesKnown'
  <2>1. Gains(Neutral)
    BY <1>3, NeutralSteps
  <2>2. \A q \in Procs : WriteOf(q) \notin Neutral /\ (WriteOf(q) = WriteOf(p) => q = p)
    BY CallsApart DEF WriteOf
  <2>3. WriteOf(p) \notin Outstanding'
    <3>1. Alone(WriteOf(p))
      BY <1>0 DEF WritesKnown
    <3>2. Answer(WriteOf(p), <<>>)
      BY <1>3 DEF Written, WriteOf
    <3> QED BY <1>0, <2>2, <3>1, <3>2, NoCall, AnswerGains
  <2>4. \A q \in Procs : q # p => unwritten'[q] = unwritten[q]
    BY <1>0, <1>3 DEF Written, TypeOK
  <2> QED BY <1>0, <2>1, <2>2, <2>3, <2>4, WritesStill
<1>4. ASSUME NEW p \in Procs,
             StdinFlushed(p) \/ CloseAll(p) \/ (\E fd \in Outputs : ReadEof(p, fd) \/ Cancel(p, fd))
      PROVE WritesKnown'
  <2>1. PICK made : Gains(made) /\ made \subseteq {CloseCall(p, fd) : fd \in Fds}
    <3>1. CASE CloseAll(p)
      BY <3>1, CloseSteps
    <3>2. CASE StdinFlushed(p)
      <4>1. Gains({CloseCall(p, "stdin")}) /\ "stdin" \in Fds
        BY <3>2, CloseSteps DEF Fds
      <4> QED BY <4>1
    <3>3. ASSUME NEW fd \in Outputs, ReadEof(p, fd) \/ Cancel(p, fd)
          PROVE  \E made : Gains(made) /\ made \subseteq {CloseCall(p, fe) : fe \in Fds}
      <4>1. Gains({CloseCall(p, fd)}) /\ fd \in Fds
        BY <3>3, CloseSteps DEF Fds
      <4> QED BY <4>1
    <3> QED BY <1>4, <3>1, <3>2, <3>3
  <2>2. \A q \in Procs : WriteOf(q) \notin made
    BY <2>1, CallsApart DEF WriteOf
  <2>3. unwritten' = unwritten
    BY <1>4 DEF StdinFlushed, CloseAll, ReadEof, Cancel
  <2> QED BY <1>0, <2>1, <2>2, <2>3, WritesStill
<1>5. ASSUME NEW p \in Procs, Close(p) PROVE WritesKnown'
  <2>1. Gains({Call("kill", p)})
    BY <1>0, <1>5, CallsOf, OneGains DEF Close
  <2>2. \A q \in Procs : WriteOf(q) \notin {Call("kill", p)}
    BY CallsApart DEF WriteOf
  <2> QED BY <1>0, <1>5, <2>1, <2>2, WritesStill DEF Close
<1>6. ASSUME NEW p \in Procs, Pump(p) PROVE WritesKnown'
  <2>1. WriteOf(p) \in Calls
    BY CallsOf DEF WriteOf
  <2>2. Gains({WriteOf(p)}) /\ Alone(WriteOf(p))'
    BY <1>0, <1>6, <2>1, OneGains DEF Pump, WriteOf
  <2>3. \A q \in Procs : q # p => WriteOf(q) # WriteOf(p)
    BY CallsApart DEF WriteOf
  <2>4. unwritten' = unwritten /\ unwritten[p] > 0
    BY <1>6 DEF Pump, Pumps
  <2> QED BY <1>0, <2>2, <2>3, <2>4 DEF WritesKnown, Gains
<1>7. ASSUME NEW p \in Procs,
        \/ ExecParked(p) \/ Closed(p) \/ Write(p) \/ StdinClose(p) \/ Exit(p) \/ DescendantExits(p)
      PROVE WritesKnown'
  <2>1. Gains({})
    BY <1>0, <1>7, StillGains DEF ExecParked, Closed, Write, StdinClose, Exit, DescendantExits, laneVars
  <2>2. \A q \in Procs : unwritten[q] > 0 => unwritten'[q] > 0
    <3>1. CASE Write(p)
      <4>1. unwritten[p] \in Nat
        BY <1>0, CapsAssumption DEF TypeOK
      <4>2. \A q \in Procs : unwritten'[q] = IF q = p THEN unwritten[p] + 1 ELSE unwritten[q]
        BY <1>0, <3>1 DEF Write, TypeOK
      <4> QED BY <4>1, <4>2
    <3>2. CASE ExecParked(p) \/ Closed(p) \/ StdinClose(p) \/ Exit(p) \/ DescendantExits(p)
      BY <3>2 DEF ExecParked, Closed, StdinClose, Exit, DescendantExits
    <3> QED BY <1>7, <3>1, <3>2
  <2> QED BY <1>0, <2>1, <2>2, WritesStill
<1> QED
  BY <1>1, <1>2, <1>3, <1>4, <1>5, <1>6, <1>7 DEF Next, Answered, HostStep

(* No call that StdinQuiet is about is new.                                *)
LEMMA QuietStill ==
  ASSUME StdinQuiet, NEW made, Gains(made),
         \A p \in Procs : WriteOf(p) \notin made /\ Call("kill", p) \notin made,
         \A p \in Procs, fd \in Fds :
           CloseCall(p, fd) \in made \/ fd_close[p][fd] # "open" => fd_close'[p][fd] # "open",
         \A p \in Procs :
           fd_close'[p]["stdin"] # "open" =>
             \/ fd_close[p]["stdin"] # "open" /\ (~Pumps(p) => ~Pumps(p)')
             \/ ~Pumps(p)' /\ WriteOf(p) \notin Outstanding /\ p \in stdin_closing \cup stdin_stopped,
         \A p \in Procs : closing'[p] # "no" => closing[p] # "no" \/ Call("kill", p) \in Outstanding,
         stdin_closing \subseteq stdin_closing', stdin_stopped \subseteq stdin_stopped'
  PROVE  StdinQuiet'
<1> SUFFICES ASSUME NEW p \in Procs
             PROVE  /\ fd_close'[p]["stdin"] # "open" =>
                         /\ WriteOf(p) \notin Outstanding' /\ ~Pumps(p)'
                         /\ p \in stdin_closing' \cup stdin_stopped'
                    /\ closing'[p] # "no" => p \in stdin_stopped'
                    /\ Call("kill", p) \in Outstanding' => p \in stdin_stopped'
                    /\ \A fd \in Fds : CloseCall(p, fd) \in Outstanding' => fd_close'[p][fd] # "open"
  BY Zenon DEF StdinQuiet, WriteOf, Call, CloseCall
<1>1. fd_close'[p]["stdin"] # "open" =>
        /\ WriteOf(p) \notin Outstanding' /\ ~Pumps(p)'
        /\ p \in stdin_closing' \cup stdin_stopped'
  BY DEF StdinQuiet, Gains
<1>2. closing'[p] # "no" => p \in stdin_stopped'
  BY DEF StdinQuiet
<1>3. Call("kill", p) \in Outstanding' => p \in stdin_stopped'
  BY DEF StdinQuiet, Gains
<1>4. ASSUME NEW fd \in Fds, CloseCall(p, fd) \in Outstanding' PROVE fd_close'[p][fd] # "open"
  BY <1>4 DEF StdinQuiet, Gains
<1> QED
  BY <1>1, <1>2, <1>3, <1>4

LEMMA QuietStep == Inv /\ [Next]_vars => StdinQuiet'
<1> SUFFICES ASSUME Inv, Next \/ UNCHANGED vars PROVE StdinQuiet'
  BY Zenon
<1>0. TypeOK /\ LanesHold /\ StdinQuiet
  BY DEF Inv
<1> USE DEF stdinVars
<1>1. \A p \in Procs : WriteOf(p) \notin Neutral /\ Call("kill", p) \notin Neutral
  BY CallsApart DEF WriteOf
<1>2. \A p \in Procs, fd \in Fds : CloseCall(p, fd) \notin Neutral
  BY CallsApart
<1>3. CASE UNCHANGED vars
  BY <1>0, <1>3, StillGains, QuietStill DEF vars, laneVars, Pumps
<1>4. ASSUME NEW p \in Procs,
        \/ Exec(p) \/ Spawned(p) \/ SpawnFails(p) \/ Reaped(p)
        \/ \E fd \in Outputs : ReadData(p, fd) \/ Pull(p, fd) \/ LateReadFails(p, fd)
      PROVE StdinQuiet'
  <2>1. Gains(Neutral)
    BY <1>4, NeutralSteps
  <2>2. UNCHANGED <<stdinVars, fd_close, closing>>
    BY <1>4 DEF Exec, Spawned, SpawnFails, Reaped, ReadData, Pull, LateReadFails
  <2> QED BY <1>0, <1>1, <1>2, <2>1, <2>2, QuietStill DEF Pumps
<1>5. ASSUME NEW p \in Procs, Written(p) PROVE StdinQuiet'
  <2>1. Gains(Neutral) /\ WriteOf(p) \in Outstanding
    BY <1>5, NeutralSteps DEF Written, Answer, Outstanding, WriteOf
  <2>2. fd_close[p]["stdin"] = "open"
    BY <1>0, <2>1 DEF StdinQuiet
  <2>3. \A q \in Procs : q # p => (Pumps(q)' <=> Pumps(q))
    BY <1>0, <1>5 DEF Written, TypeOK, Pumps
  <2> QED BY <1>0, <1>1, <1>2, <1>5, <2>1, <2>2, <2>3, QuietStill DEF Written
<1>6. ASSUME NEW p \in Procs, Killed(p) PROVE StdinQuiet'
  <2>1. Gains(Neutral) /\ Call("kill", p) \in Outstanding
    BY <1>6, NeutralSteps DEF Killed, Answer, Outstanding
  <2>2. \A q \in Procs : q # p => closing'[q] = closing[q]
    BY <1>0, <1>6 DEF Killed, TypeOK
  <2>3. UNCHANGED <<stdinVars, fd_close>>
    BY <1>6 DEF Killed
  <2> QED BY <1>0, <1>1, <1>2, <2>1, <2>2, <2>3, QuietStill DEF Pumps
<1>7. ASSUME NEW p \in Procs, NEW fd \in Fds, FdClosed(p, fd) PROVE StdinQuiet'
  <2>1. Gains(Neutral) /\ CloseCall(p, fd) \in Outstanding
    BY <1>7, NeutralSteps DEF FdClosed, Answer, Outstanding
  <2>2. fd_close[p][fd] # "open"
    BY <1>0, <2>1 DEF StdinQuiet
  <2>3. \A q \in Procs, fe \in Fds :
          fd_close'[q][fe] = IF q = p /\ fe = fd THEN "closed" ELSE fd_close[q][fe]
    BY <1>0, <1>7 DEF FdClosed, TypeOK
  <2>4. "stdin" \in Fds
    BY DEF Fds
  <2>5. \A q \in Procs, fe \in Fds : fd_close'[q][fe] # "open" <=> fd_close[q][fe] # "open"
    BY <2>2, <2>3
  <2>6. UNCHANGED <<stdinVars, closing>>
    BY <1>7 DEF FdClosed
  <2> QED BY <1>0, <1>1, <1>2, <2>1, <2>4, <2>5, <2>6, QuietStill DEF Pumps
<1>8. ASSUME NEW p \in Procs, NEW fd \in Outputs, ReadEof(p, fd) \/ Cancel(p, fd) PROVE StdinQuiet'
  <2>1. Gains({CloseCall(p, fd)})
    BY <1>8, CloseSteps
  <2>2. fd \in Fds /\ "stdin" \in Fds /\ fd # "stdin" /\ {fd} \in SUBSET Fds
    BY StdinAssumption DEF Fds
  <2>3. \A q \in Procs, fe \in Fds :
          fd_close'[q][fe] = IF q = p /\ fe \in {fd} /\ fd_close[q][fe] = "open"
                             THEN "closing" ELSE fd_close[q][fe]
    BY <1>0, <1>8, <2>2, CloseFdsIs DEF ReadEof, Cancel
  <2>4. \A q \in Procs : WriteOf(q) \notin {CloseCall(p, fd)} /\ Call("kill", q) \notin {CloseCall(p, fd)}
    BY <2>2, CallsApart DEF WriteOf
  <2>5. \A q \in Procs, fe \in Fds :
          CloseCall(q, fe) \in {CloseCall(p, fd)} \/ fd_close[q][fe] # "open" => fd_close'[q][fe] # "open"
    BY <2>2, <2>3, CallsApart
  <2>6. \A q \in Procs : fd_close'[q]["stdin"] = fd_close[q]["stdin"]
    BY <2>2, <2>3
  <2>7. UNCHANGED <<stdinVars, closing>>
    BY <1>8 DEF ReadEof, Cancel
  <2> QED BY <1>0, <2>1, <2>4, <2>5, <2>6, <2>7, QuietStill DEF Pumps
<1>9. ASSUME NEW p \in Procs, StdinFlushed(p) PROVE StdinQuiet'
  <2>1. Gains({CloseCall(p, "stdin")})
    BY <1>9, CloseSteps
  <2>2. "stdin" \in Fds /\ {"stdin"} \in SUBSET Fds
    BY DEF Fds
  <2>3. \A q \in Procs, fe \in Fds :
          fd_close'[q][fe] = IF q = p /\ fe \in {"stdin"} /\ fd_close[q][fe] = "open"
                             THEN "closing" ELSE fd_close[q][fe]
    BY <1>0, <1>9, <2>2, CloseFdsIs DEF StdinFlushed
  <2>4. \A q \in Procs : /\ WriteOf(q) \notin {CloseCall(p, "stdin")}
                         /\ Call("kill", q) \notin {CloseCall(p, "stdin")}
    BY <2>2, CallsApart DEF WriteOf
  <2>5. \A q \in Procs, fe \in Fds :
          CloseCall(q, fe) \in {CloseCall(p, "stdin")} \/ fd_close[q][fe] # "open" => fd_close'[q][fe] # "open"
    BY <2>2, <2>3, CallsApart
  <2>6. UNCHANGED <<stdinVars, closing>>
    BY <1>9 DEF StdinFlushed
  <2>7. ~Pumps(p) /\ WriteOf(p) \notin Outstanding /\ p \in stdin_closing
    BY <1>9 DEF StdinFlushed, TailSettled, WriteOf
  <2>8. \A q \in Procs : Pumps(q)' <=> Pumps(q)
    BY <2>6 DEF Pumps
  <2>9. \A q \in Procs : q # p => fd_close'[q]["stdin"] = fd_close[q]["stdin"]
    BY <2>2, <2>3
  <2> QED BY <1>0, <2>1, <2>4, <2>5, <2>6, <2>7, <2>8, <2>9, QuietStill
<1>10. ASSUME NEW p \in Procs, CloseAll(p) PROVE StdinQuiet'
  <2>0. PICK made : made = {CloseCall(p, fd) : fd \in Fds}
    OBVIOUS
  <2>1. Gains(made)
    BY <1>10, <2>0, CloseSteps
  <2>2. "stdin" \in Fds /\ Fds \in SUBSET Fds
    BY DEF Fds
  <2>3. \A q \in Procs, fe \in Fds :
          fd_close'[q][fe] = IF q = p /\ fe \in Fds /\ fd_close[q][fe] = "open"
                             THEN "closing" ELSE fd_close[q][fe]
    BY <1>0, <1>10, <2>2, CloseFdsIs DEF CloseAll
  <2>4. \A q \in Procs : WriteOf(q) \notin made /\ Call("kill", q) \notin made
    BY <2>0, CallsApart DEF WriteOf
  <2>5. \A q \in Procs, fe \in Fds :
          CloseCall(q, fe) \in made \/ fd_close[q][fe] # "open" => fd_close'[q][fe] # "open"
    BY <2>0, <2>3, CallsApart
  <2>6. UNCHANGED stdinVars /\ closing[p] = "stdin"
    BY <1>10 DEF CloseAll
  <2>7. ~Pumps(p) /\ WriteOf(p) \notin Outstanding /\ p \in stdin_stopped
    BY <1>0, <1>10, <2>6 DEF CloseAll, TailSettled, WriteOf, StdinQuiet
  <2>8. \A q \in Procs : Pumps(q)' <=> Pumps(q)
    BY <2>6 DEF Pumps
  <2>9. \A q \in Procs : q # p => fd_close'[q]["stdin"] = fd_close[q]["stdin"] /\ closing'[q] = closing[q]
    BY <1>0, <1>10, <2>2, <2>3 DEF CloseAll, TypeOK
  <2> QED BY <1>0, <2>1, <2>4, <2>5, <2>6, <2>7, <2>8, <2>9, QuietStill
<1>11. ASSUME NEW p \in Procs, Pump(p) PROVE StdinQuiet'
  <2>1. WriteOf(p) \in Calls
    BY CallsOf DEF WriteOf
  <2>2. Gains({WriteOf(p)})
    BY <1>0, <1>11, <2>1, OneGains DEF Pump, WriteOf
  <2>3. UNCHANGED <<stdinVars, fd_close, closing>> /\ Pumps(p)
    BY <1>11 DEF Pump
  <2>4. fd_close[p]["stdin"] = "open"
    BY <1>0, <2>3 DEF StdinQuiet
  <2>5. \A q \in Procs : /\ q # p => WriteOf(q) # WriteOf(p)
                         /\ Call("kill", q) # WriteOf(p)
                         /\ \A fd \in Fds : CloseCall(q, fd) # WriteOf(p)
    BY CallsApart DEF WriteOf
  <2>6. \A q \in Procs : Pumps(q)' <=> Pumps(q)
    BY <2>3 DEF Pumps
  <2> QED BY <1>0, <2>2, <2>3, <2>4, <2>5, <2>6 DEF StdinQuiet, Gains
<1>12. ASSUME NEW p \in Procs, Close(p) PROVE StdinQuiet'
  <2>1. Gains({Call("kill", p)})
    BY <1>0, <1>12, CallsOf, OneGains DEF Close
  <2>2. /\ stdin_stopped' = stdin_stopped \cup {p} /\ fd_close' = fd_close
        /\ stdin_closing' = stdin_closing
        /\ \A q \in Procs : q # p => closing'[q] = closing[q]
    BY <1>0, <1>12 DEF Close, TypeOK
  <2>3. \A q \in Procs : /\ q # p => Call("kill", q) # Call("kill", p)
                         /\ WriteOf(q) # Call("kill", p)
                         /\ \A fd \in Fds : CloseCall(q, fd) # Call("kill", p)
    BY CallsApart DEF WriteOf
  <2>4. \A q \in Procs : Pumps(q)' => Pumps(q)
    BY <1>12 DEF Pumps, Close
  <2> QED BY <1>0, <2>1, <2>2, <2>3, <2>4 DEF StdinQuiet, Gains
<1>13. ASSUME NEW p \in Procs, Write(p) PROVE StdinQuiet'
  <2>1. Gains({})
    BY <1>0, <1>13, StillGains DEF Write, laneVars
  <2>2. UNCHANGED <<stdin_stopped, stdin_error, stdin_closing, fd_close, closing>>
        /\ p \notin stdin_closing
    BY <1>13 DEF Write
  <2>3. \A q \in Procs : q # p => (Pumps(q)' <=> Pumps(q))
    BY <1>0, <1>13 DEF Write, TypeOK, Pumps
  <2>4. fd_close[p]["stdin"] # "open" => ~Pumps(p)'
    BY <1>0, <2>2 DEF StdinQuiet, Pumps
  <2> QED BY <1>0, <2>1, <2>2, <2>3, <2>4, QuietStill
<1>14. ASSUME NEW p \in Procs,
              ExecParked(p) \/ Closed(p) \/ StdinClose(p) \/ Exit(p) \/ DescendantExits(p)
       PROVE StdinQuiet'
  <2>1. Gains({})
    BY <1>0, <1>14, StillGains DEF ExecParked, Closed, StdinClose, Exit, DescendantExits, laneVars
  <2>2. /\ UNCHANGED <<unwritten, stdin_stopped, stdin_error, fd_close>>
        /\ stdin_closing \subseteq stdin_closing'
        /\ \A q \in Procs : closing'[q] # "no" => closing[q] # "no"
    BY <1>0, <1>14 DEF ExecParked, Closed, StdinClose, Exit, DescendantExits, TypeOK
  <2> QED BY <1>0, <2>1, <2>2, QuietStill DEF Pumps
<1> QED
  BY <1>3, <1>4, <1>5, <1>6, <1>7, <1>8, <1>9, <1>10, <1>11, <1>12, <1>13, <1>14
  DEF Next, Answered, HostStep

-----------------------------------------------------------------------------
LEMMA InvInit == Init => Inv
<1> SUFFICES ASSUME Init PROVE Inv
  OBVIOUS
<1> USE DEF Init
<1>1. TypeOK
  BY CapsAssumption DEF TypeOK
<1>2. LanesHold
  BY FS_EmptySet, CapsAssumption DEF LanesHold
<1>3. SlotsCounted
  <2>1. HasSlot = {}
    BY DEF HasSlot
  <2> QED BY <2>1, FS_EmptySet, CapsAssumption DEF SlotsCounted
<1>4. Outstanding = {}
  BY DEF Outstanding, Range
<1>5. WritesKnown
  BY <1>4 DEF WritesKnown, Alone, Once, Outstanding
<1>6. StdinQuiet
  BY <1>4 DEF StdinQuiet, Fds
<1> QED
  BY <1>1, <1>2, <1>3, <1>5, <1>6 DEF Inv

LEMMA Inductive == Spec => []Inv
<1>1. Inv /\ [Next]_vars => Inv'
  BY LanesStep, TypeStep, SlotsStep, WritesStep, QuietStep DEF Inv
<1> QED
  BY <1>1, InvInit, PTL DEF Spec

(* A stuck call of a process that no descendant outlives is the reap, the  *)
(* stdin write or the read of one output of a process that has a slot.     *)
LEMMA InvBounds == Inv => AttachedTrafficBounded
<1> SUFFICES ASSUME Inv PROVE AttachedTrafficBounded
  OBVIOUS
<1>1. PICK stuck : stuck = UNION {Blocked(p) : p \in Procs \ holders}
  OBVIOUS
<1>2. PICK ways : ways = ({"read"} \X Outputs) \cup {<<"reap", "-">>, <<"write", "-">>}
  OBVIOUS
<1>3. IsFiniteSet(HasSlot) /\ Cardinality(HasSlot) \in Nat
  BY ProcsAssumption, FS_Subset, FS_CardinalityType DEF HasSlot
<1>4. /\ IsFiniteSet(Outputs) /\ Cardinality(Outputs) \in Nat
      /\ IsFiniteSet(ways) /\ Cardinality(ways) \in Nat /\ Cardinality(ways) <= 2 + Cardinality(Outputs)
  <2>1. IsFiniteSet(Outputs) /\ Cardinality(Outputs) \in Nat
    BY ProcsAssumption, FS_CardinalityType
  <2>2. PICK reads : reads = {"read"} \X Outputs
    OBVIOUS
  <2>3. IsFiniteSet(reads) /\ Cardinality(reads) = Cardinality(Outputs)
    <3>1. IsFiniteSet({"read"}) /\ Cardinality({"read"}) = 1
      BY FS_Singleton
    <3>2. IsFiniteSet(reads) /\ Cardinality(reads) = 1 * Cardinality(Outputs)
      BY <2>1, <2>2, <3>1, FS_Product
    <3> QED BY <2>1, <3>2
  <2>4. PICK more : more = reads \cup {<<"reap", "-">>}
    OBVIOUS
  <2>5. IsFiniteSet(more) /\ Cardinality(more) \in Nat /\ Cardinality(more) <= Cardinality(Outputs) + 1
    <3>1. IsFiniteSet(more)
          /\ Cardinality(more) = IF <<"reap", "-">> \in reads THEN Cardinality(reads) ELSE Cardinality(reads) + 1
      BY <2>3, <2>4, FS_AddElement
    <3>2. Cardinality(more) = Cardinality(Outputs) \/ Cardinality(more) = Cardinality(Outputs) + 1
      BY <2>3, <3>1
    <3> QED BY <2>1, <3>1, <3>2
  <2>6. ways = more \cup {<<"write", "-">>}
    BY <1>2, <2>2, <2>4
  <2>7. IsFiniteSet(ways) /\ Cardinality(ways) \in Nat /\ Cardinality(ways) <= Cardinality(more) + 1
    <3>1. IsFiniteSet(ways)
          /\ Cardinality(ways) = IF <<"write", "-">> \in more THEN Cardinality(more) ELSE Cardinality(more) + 1
      BY <2>5, <2>6, FS_AddElement
    <3>2. Cardinality(ways) = Cardinality(more) \/ Cardinality(ways) = Cardinality(more) + 1
      BY <3>1
    <3> QED BY <2>5, <3>1, <3>2
  <2> QED BY <2>1, <2>5, <2>7
<1>5. PICK way : way = [c \in stuck |-> <<c[2], <<c[1], c[3]>>>>]
  OBVIOUS
<1>6. ASSUME NEW c \in stuck
      PROVE  /\ c \in Calls /\ c[2] \in HasSlot
             /\ (c[1] \in {"reap", "write"} /\ c[3] = "-") \/ (c[1] = "read" /\ c[3] \in Outputs)
  <2>1. PICK p \in Procs \ holders : c \in Blocked(p)
    BY <1>1
  <2>2. c \in Calls /\ c[2] = p /\ c[1] \in {"reap", "read", "write"} /\ child[p] = "alive"
    BY <2>1 DEF Blocked, PipesOpen, Inv, LanesHold
  <2>3. p \in HasSlot
    BY <2>2 DEF Inv, SlotsCounted, HasSlot
  <2>4. (c[1] \in {"reap", "write"} /\ c[3] = "-") \/ (c[1] = "read" /\ c[3] \in Outputs)
    <3>1. c \in Calls
      BY <2>2
    <3>2. (c[1] \in {"reap", "write"} => c[3] = "-") /\ (c[1] = "read" => c[3] \in Outputs)
      BY <3>1, CallForm, Zenon
    <3>3. c[1] \in {"reap", "write"} \/ c[1] = "read"
      BY <2>2
    <3> QED BY <3>2, <3>3, Zenon
  <2> QED BY <2>2, <2>3, <2>4
<1>7. way \in [stuck -> HasSlot \X ways]
  <2>1. ASSUME NEW c \in stuck PROVE <<c[2], <<c[1], c[3]>>>> \in HasSlot \X ways
    <3>1. <<c[1], c[3]>> \in ways
      BY <1>2, <1>6
    <3> QED BY <1>6, <3>1
  <2> QED BY <1>5, <2>1
<1>8. ASSUME NEW c \in stuck, NEW d \in stuck, way[c] = way[d] PROVE c = d
  <2>1. c \in Calls /\ d \in Calls
    BY <1>6
  <2>2. c[1] = d[1] /\ c[2] = d[2] /\ c[3] = d[3]
    BY <1>5, <1>8
  <2>3. c = <<c[1], c[2], c[3]>> /\ d = <<d[1], d[2], d[3]>>
    BY <2>1, CallForm
  <2> QED BY <2>2, <2>3
<1>9. way \in Injection(stuck, HasSlot \X ways)
  BY <1>7, <1>8 DEF Injection, IsInjective
<1>10. /\ IsFiniteSet(HasSlot \X ways)
       /\ Cardinality(HasSlot \X ways) = Cardinality(HasSlot) * Cardinality(ways)
  BY <1>3, <1>4, FS_Product
<1>11. Cardinality(stuck) <= Cardinality(HasSlot \X ways) /\ Cardinality(stuck) \in Nat
  BY <1>9, <1>10, FS_Injection, FS_CardinalityType
<1>12. Cardinality(HasSlot) <= MAX_PROCESSES /\ MAX_PROCESSES \in Nat
  BY CapsAssumption DEF Inv, SlotsCounted
<1>13. ASSUME NEW h \in Nat, NEW w \in Nat, NEW m \in Nat, NEW o \in Nat, h <= m, w <= o
       PROVE  h * w <= o * m
  <2>1. h * w <= m * w
    BY <1>13
  <2>2. m * w <= m * o
    BY <1>13
  <2> QED BY <2>1, <2>2
<1>14. Cardinality(HasSlot) * Cardinality(ways) <= (2 + Cardinality(Outputs)) * MAX_PROCESSES
  <2>1. 2 + Cardinality(Outputs) \in Nat
    BY <1>4
  <2> QED BY <1>3, <1>4, <1>12, <1>13, <2>1
<1>15. PICK room : room = (2 + Cardinality(Outputs)) * MAX_PROCESSES
  OBVIOUS
<1>16. room \in Int /\ Cardinality(HasSlot) * Cardinality(ways) \in Int
  BY <1>3, <1>4, <1>12, <1>15
<1>17. Cardinality(stuck) <= room
  BY <1>10, <1>11, <1>14, <1>15, <1>16
<1> QED
  BY <1>1, <1>15, <1>17 DEF AttachedTrafficBounded, LaneShare

-----------------------------------------------------------------------------
(* The process slots, the streams, the fds and the calls of client.ts and  *)
(* process.ts have their types; in particular pump() never writes a chunk  *)
(* twice, so the count of chunks to be written does not fall below zero.   *)
THEOREM ProcessesTyped == Spec => []TypeOK
BY Inductive, PTL DEF Inv

(* Whatever processes are stuck, their calls hold no more lanes than       *)
(* (2 + outputs) for each process slot of exec(), unless a descendant      *)
(* keeps the pipes: the share of the pool that client.ts reckons with.     *)
THEOREM AttachedTrafficIsBounded == Spec => []AttachedTrafficBounded
BY Inductive, InvBounds, PTL

(* Once the close of stdin was called, by stdin.close() or by close(), no  *)
(* write to it is outstanding or will be made.                             *)
THEOREM StdinClosedIsQuiet == Spec => []StdinClosedQuiet
<1>1. Inv => StdinClosedQuiet
  BY DEF Inv, StdinQuiet, StdinClosedQuiet, WriteOf
<1> QED
  BY <1>1, Inductive, PTL
=============================================================================
