--------------------------- MODULE ReportersProofs ---------------------------
(***************************************************************************)
(* The reports for any number of streams, any capacity of the phout        *)
(* channel and any outcomes: each line is true of its stream, and the      *)
(* counters agree with the lines and with each other.                      *)
(***************************************************************************)
EXTENDS Reporters, SequenceTheorems, FiniteSetTheorems, TLAPS

-----------------------------------------------------------------------------
(* The inductive invariant.                                                *)

(* Streams that have a phout object, and those that have a supersimple     *)
(* one: the phout object is handed to the channel first.                   *)
HasPhout(s) == pc[s] \in {"open", "end"}
HasSuper(s) == pc[s] \in {"open", "end", "count"}

(* Objects whose line is still to be written.                              *)
Waits(o) == o \in Range(ch) \/ (writing # 0 /\ o = writing)

(* A phout object is in the pool, with its stream, in the channel or being *)
(* written, and nowhere twice.                                             *)
PhoutOwned ==
  /\ IsInjective(ppool) /\ IsInjective(ch)
  /\ \A o \in PhoutObjects : Waits(o) => o \notin Range(ppool)
  /\ writing \notin Range(ch)
  /\ \A s \in Streams : HasPhout(s) => /\ phout[s] \in PhoutObjects /\ tag[phout[s]] = s
                                       /\ phout[s] \notin Range(ppool) /\ ~ Waits(phout[s])

(* What it was told is what happened to its stream.                        *)
PhoutTrue ==
  /\ \A s \in Streams : HasPhout(s) => seen[phout[s]] = happened[s]
  /\ \A o \in PhoutObjects : Waits(o) => /\ pc[tag[o]] \in {"count", "ended"}
                                         /\ seen[o] = happened[tag[o]] /\ lines[tag[o]] = << >>
  /\ \A o, p \in PhoutObjects : Waits(o) /\ Waits(p) /\ tag[o] = tag[p] => o = p

(* Streams that run have nothing in the file yet.                          *)
NoLineYet ==
  /\ lines = [s \in Streams |-> lines[s]]
  /\ \A s \in Streams : pc[s] \in {"new", "open", "end"} => lines[s] = << >>

Happened ==
  /\ happened \in [Streams -> SUBSET Events]
  /\ \A s \in Streams : /\ pc[s] \in {"new", "open"} => happened[s] = {}
                        /\ ~ Grpc \subseteq happened[s]

SuperOwned ==
  /\ IsInjective(spool)
  /\ \A s \in Streams : HasSuper(s) => super[s] \in SuperObjects /\ super[s] \notin Range(spool)
  /\ \A s, r \in Streams : HasSuper(s) /\ HasSuper(r) /\ super[s] = super[r] => s = r

SuperTrue == \A s \in Streams : HasSuper(s) => (noOk[super[s]] <=> s \in Failed)

(* The counters are what they count, and a report read earlier values.     *)
Counters ==
  /\ ok = Cardinality(Ended(Streams \ Failed)) /\ nook = Cardinality(Ended(Failed))
  /\ req = Cardinality({s \in Streams : pc[s] # "new"})
  /\ lok <= ok /\ lnook <= nook
  /\ printed \in Nat \X Nat /\ ReportConsistent

IInv == /\ TypeOK /\ PhoutOwned /\ PhoutTrue /\ NoLineYet /\ Happened /\ LinesTrue
        /\ SuperOwned /\ SuperTrue /\ Counters

-----------------------------------------------------------------------------
(* Lemmas on stacks and queues.                                            *)

(* Taking the top of a stack in which nothing is twice.                    *)
LEMMA Pop ==
  ASSUME NEW S, NEW s \in Seq(S), s # << >>, IsInjective(s)
  PROVE  /\ Front(s) \in Seq(S) /\ IsInjective(Front(s)) /\ Last(s) \in S
         /\ Last(s) \in Range(s) /\ Range(Front(s)) = Range(s) \ {Last(s)}
<1>1. Len(s) \in Nat \ {0} /\ DOMAIN s = 1 .. Len(s) /\ \A k \in 1 .. Len(s) : s[k] \in S
  BY EmptySeq, LenProperties
<1>2. /\ Front(s) \in Seq(S) /\ Len(Front(s)) = Len(s) - 1
      /\ \A k \in 1 .. Len(s) - 1 : Front(s)[k] = s[k]
  <2>1. \A k \in 1 .. Len(s) - 1 : s[k] \in S
    BY <1>1
  <2>2. /\ SubSeq(s, 1, Len(s) - 1) \in Seq(S)
        /\ Len(SubSeq(s, 1, Len(s) - 1)) = IF 1 <= Len(s) - 1 THEN Len(s) - 1 - 1 + 1 ELSE 0
        /\ \A k \in 1 .. Len(s) - 1 - 1 + 1 : SubSeq(s, 1, Len(s) - 1)[k] = s[1 + k - 1]
    BY <1>1, <2>1, SubSeqProperties
  <2> QED
    BY <1>1, <2>2 DEF Front
<1>3. DOMAIN Front(s) = 1 .. Len(s) - 1
  BY <1>2, LenProperties
<1>4. Last(s) \in S /\ Last(s) \in Range(s) /\ Last(s) = s[Len(s)]
  BY <1>1 DEF Last, Range
<1>5. IsInjective(Front(s))
  BY <1>1, <1>2, <1>3 DEF IsInjective
<1>6. Range(Front(s)) = Range(s) \ {Last(s)}
  <2>1. ASSUME NEW x \in Range(Front(s)) PROVE x \in Range(s) \ {Last(s)}
    BY <1>1, <1>2, <1>3, <1>4 DEF Range, IsInjective
  <2>2. ASSUME NEW x \in Range(s) \ {Last(s)} PROVE x \in Range(Front(s))
    BY <1>1, <1>2, <1>3, <1>4 DEF Range
  <2> QED
    BY <2>1, <2>2
<1> QED
  BY <1>2, <1>4, <1>5, <1>6

(* Putting something new on it.                                            *)
LEMMA Push ==
  ASSUME NEW S, NEW s \in Seq(S), NEW e \in S
  PROVE  /\ Append(s, e) \in Seq(S) /\ Range(Append(s, e)) = Range(s) \cup {e}
         /\ IsInjective(s) /\ e \notin Range(s) => IsInjective(Append(s, e))
<1> DEFINE A == Append(s, e)
<1>1. /\ Len(s) \in Nat /\ DOMAIN s = 1 .. Len(s) /\ A \in Seq(S) /\ Len(A) = Len(s) + 1
      /\ \A k \in 1 .. Len(s) : A[k] = s[k]
      /\ A[Len(s) + 1] = e
  BY AppendProperties, LenProperties
<1>2. DOMAIN A = 1 .. Len(s) + 1
  BY <1>1, LenProperties
<1> HIDE DEF A
<1>3. Range(A) = Range(s) \cup {e}
  BY <1>1, <1>2 DEF Range
<1>4. IsInjective(s) /\ e \notin Range(s) => IsInjective(A)
  BY <1>1, <1>2 DEF Range, IsInjective
<1> QED
  BY <1>1, <1>3, <1>4 DEF A

(* Taking the first of a queue.                                            *)
LEMMA Dequeue ==
  ASSUME NEW S, NEW s \in Seq(S), s # << >>, IsInjective(s)
  PROVE  /\ Tail(s) \in Seq(S) /\ IsInjective(Tail(s)) /\ Head(s) \in S
         /\ Head(s) \in Range(s) /\ Range(Tail(s)) = Range(s) \ {Head(s)}
         /\ Len(Tail(s)) <= Len(s)
<1>1. Len(s) \in Nat \ {0} /\ DOMAIN s = 1 .. Len(s) /\ \A k \in 1 .. Len(s) : s[k] \in S
  BY EmptySeq, LenProperties
<1>2. /\ Tail(s) \in Seq(S) /\ Len(Tail(s)) = Len(s) - 1 /\ Head(s) = s[1]
      /\ \A k \in 1 .. Len(s) - 1 : Tail(s)[k] = s[k + 1]
  BY <1>1, HeadTailProperties
<1>3. DOMAIN Tail(s) = 1 .. Len(s) - 1 /\ Len(Tail(s)) <= Len(s)
  BY <1>1, <1>2, LenProperties
<1>4. Head(s) \in S /\ Head(s) \in Range(s)
  BY <1>1, <1>2 DEF Range
<1>5. IsInjective(Tail(s))
  BY <1>1, <1>2, <1>3 DEF IsInjective
<1>6. Range(Tail(s)) = Range(s) \ {Head(s)}
  <2>1. ASSUME NEW x \in Range(Tail(s)) PROVE x \in Range(s) \ {Head(s)}
    BY <1>1, <1>2, <1>3 DEF Range, IsInjective
  <2>2. ASSUME NEW x \in Range(s) \ {Head(s)} PROVE x \in Range(Tail(s))
    <3>1. PICK k \in 1 .. Len(s) : x = s[k]
      BY <1>1 DEF Range
    <3>2. k # 1
      BY <1>2, <3>1
    <3>3. k - 1 \in 1 .. Len(s) - 1 /\ k - 1 + 1 = k
      BY <1>1, <3>1, <3>2
    <3>4. Tail(s)[k - 1] = s[k]
      BY <1>2, <3>3
    <3> QED
      BY <1>3, <3>1, <3>3, <3>4 DEF Range
  <2> QED
    BY <2>1, <2>2
<1> QED
  BY <1>2, <1>3, <1>4, <1>5, <1>6

-----------------------------------------------------------------------------
(* Facts every step uses.                                                  *)

LEMMA Facts ==
  ASSUME IInv
  PROVE  /\ Len(seen) \in Nat /\ PhoutObjects = 1 .. Len(seen) /\ Len(noOk) \in Nat
         /\ SuperObjects = 1 .. Len(noOk)
         /\ seen \in Seq(SUBSET Events) /\ tag \in Seq(Streams) /\ Len(tag) = Len(seen)
         /\ noOk \in Seq(BOOLEAN) /\ spool \in Seq(1 .. Len(noOk))
         /\ ppool \in Seq(1 .. Len(seen)) /\ ch \in Seq(1 .. Len(seen))
         /\ writing \in {0} \cup 1 .. Len(seen)
         /\ phout \in [Streams -> {0} \cup 1 .. Len(seen)]
         /\ super \in [Streams -> {0} \cup 1 .. Len(noOk)]
         /\ pc \in [Streams -> {"new", "open", "end", "count", "ended"}]
         /\ Range(ppool) \subseteq 1 .. Len(seen) /\ Range(ch) \subseteq 1 .. Len(seen)
         /\ Range(spool) \subseteq 1 .. Len(noOk)
<1>1. /\ Len(seen) \in Nat /\ PhoutObjects = 1 .. Len(seen) /\ Len(noOk) \in Nat
      /\ SuperObjects = 1 .. Len(noOk)
  BY LenProperties DEF IInv, TypeOK, PhoutObjects, SuperObjects
<1>2. /\ seen \in Seq(SUBSET Events) /\ tag \in Seq(Streams) /\ Len(tag) = Len(seen)
      /\ noOk \in Seq(BOOLEAN) /\ spool \in Seq(1 .. Len(noOk))
      /\ ppool \in Seq(1 .. Len(seen)) /\ ch \in Seq(1 .. Len(seen))
      /\ writing \in {0} \cup 1 .. Len(seen)
      /\ phout \in [Streams -> {0} \cup 1 .. Len(seen)]
      /\ super \in [Streams -> {0} \cup 1 .. Len(noOk)]
      /\ pc \in [Streams -> {"new", "open", "end", "count", "ended"}]
  BY <1>1 DEF IInv, TypeOK
<1>3. /\ Range(ppool) \subseteq 1 .. Len(seen) /\ Range(ch) \subseteq 1 .. Len(seen)
      /\ Range(spool) \subseteq 1 .. Len(noOk)
  BY <1>2, RangeOfSeq
<1> QED
  BY <1>1, <1>2, <1>3

(* The stream of an object.                                                *)
LEMMA TagStream ==
  ASSUME IInv, NEW o \in 1 .. Len(seen)
  PROVE  tag[o] \in Streams /\ seen[o] \in SUBSET Events
  BY Facts, ElementOfSeq

(* Acquire of the phout reporter takes an object that nobody has.          *)
LEMMA AcquirePhoutTakes ==
  ASSUME IInv, NEW s \in Streams, Acquire(s)
  PROVE  \E o \in 1 .. Len(seen') :
           /\ phout' = [phout EXCEPT ![s] = o]
           /\ seen' \in Seq(SUBSET Events) /\ tag' \in Seq(Streams) /\ Len(tag') = Len(seen')
           /\ Len(seen) <= Len(seen') /\ Len(seen') \in Nat /\ seen'[o] = {} /\ tag'[o] = s
           /\ \A p \in 1 .. Len(seen) : p # o => seen'[p] = seen[p] /\ tag'[p] = tag[p]
           /\ ppool' \in Seq(1 .. Len(seen')) /\ IsInjective(ppool')
           /\ Range(ppool') = Range(ppool) \ {o}
           /\ o \in Range(ppool) \/ o \notin 1 .. Len(seen)
<1>0. /\ seen \in Seq(SUBSET Events) /\ tag \in Seq(Streams) /\ Len(tag) = Len(seen)
      /\ Len(seen) \in Nat /\ ppool \in Seq(1 .. Len(seen)) /\ IsInjective(ppool)
      /\ Range(ppool) \subseteq 1 .. Len(seen) /\ {} \in SUBSET Events
  BY Facts DEF IInv, PhoutOwned
<1>1. CASE ppool = << >>
  <2>1. /\ phout' = [phout EXCEPT ![s] = Len(seen) + 1] /\ ppool' = ppool
        /\ seen' = Append(seen, {}) /\ tag' = Append(tag, s)
    BY <1>1 DEF Acquire
  <2>2. /\ seen' \in Seq(SUBSET Events) /\ Len(seen') = Len(seen) + 1
        /\ seen'[Len(seen) + 1] = {} /\ \A p \in 1 .. Len(seen) : seen'[p] = seen[p]
    BY <1>0, <2>1, AppendProperties
  <2>3. /\ tag' \in Seq(Streams) /\ Len(tag') = Len(seen) + 1
        /\ tag'[Len(seen) + 1] = s /\ \A p \in 1 .. Len(seen) : tag'[p] = tag[p]
    BY <1>0, <2>1, AppendProperties
  <2>4. /\ Len(seen) + 1 \in 1 .. Len(seen') /\ Len(seen) + 1 \notin 1 .. Len(seen)
        /\ 1 .. Len(seen) \subseteq 1 .. Len(seen') /\ Len(seen) <= Len(seen') /\ Len(seen') \in Nat
    BY <1>0, <2>2
  <2>5. ppool' \in Seq(1 .. Len(seen'))
    BY <1>0, <2>1, <2>4, SeqMonotonic
  <2>6. Range(ppool') = Range(ppool) \ {Len(seen) + 1} /\ IsInjective(ppool')
    BY <1>0, <2>1, <2>4
  <2> QED
    BY <2>1, <2>2, <2>3, <2>4, <2>5, <2>6
<1>2. CASE ppool # << >>
  <2>0. PICK o : o = Last(ppool)
    OBVIOUS
  <2>1. /\ phout' = [phout EXCEPT ![s] = o] /\ ppool' = Front(ppool)
        /\ tag' = [tag EXCEPT ![o] = s] /\ seen' = [seen EXCEPT ![o] = {}]
    BY <1>2, <2>0 DEF Acquire
  <2>2. /\ o \in 1 .. Len(seen) /\ o \in Range(ppool) /\ ppool' \in Seq(1 .. Len(seen))
        /\ IsInjective(ppool') /\ Range(ppool') = Range(ppool) \ {o}
    BY <1>0, <1>2, <2>0, <2>1, Pop
  <2>3. /\ seen' \in Seq(SUBSET Events) /\ Len(seen') = Len(seen)
        /\ \A p \in 1 .. Len(seen) : seen'[p] = IF p = o THEN {} ELSE seen[p]
    BY <1>0, <2>1, <2>2, ExceptSeq
  <2>4. /\ tag' \in Seq(Streams) /\ Len(tag') = Len(seen)
        /\ \A p \in 1 .. Len(seen) : tag'[p] = IF p = o THEN s ELSE tag[p]
    BY <1>0, <2>1, <2>2, ExceptSeq
  <2>5. Len(seen) <= Len(seen') /\ Len(seen') \in Nat /\ 1 .. Len(seen') = 1 .. Len(seen)
    BY <1>0, <2>3
  <2>6. /\ seen'[o] = {} /\ tag'[o] = s
        /\ \A p \in 1 .. Len(seen) : p # o => seen'[p] = seen[p] /\ tag'[p] = tag[p]
    BY <2>2, <2>3, <2>4
  <2>7. o \in 1 .. Len(seen') /\ ppool' \in Seq(1 .. Len(seen')) /\ Len(tag') = Len(seen')
    BY <2>2, <2>3, <2>4, <2>5
  <2>8. phout' = [phout EXCEPT ![s] = o]
    BY <2>1
  <2> QED
    BY <2>2, <2>3, <2>4, <2>5, <2>6, <2>7, <2>8, Zenon
<1> QED
  BY <1>1, <1>2

(* So does Acquire of the supersimple reporter.                            *)
LEMMA AcquireSuperTakes ==
  ASSUME IInv, NEW s \in Streams, AcquireSuper(s)
  PROVE  \E o \in 1 .. Len(noOk') :
           /\ super' = [super EXCEPT ![s] = o]
           /\ noOk' \in Seq(BOOLEAN) /\ Len(noOk) <= Len(noOk') /\ Len(noOk') \in Nat
           /\ noOk'[o] = FALSE
           /\ \A p \in 1 .. Len(noOk) : p # o => noOk'[p] = noOk[p]
           /\ spool' \in Seq(1 .. Len(noOk')) /\ IsInjective(spool')
           /\ Range(spool') = Range(spool) \ {o}
           /\ o \in Range(spool) \/ o \notin 1 .. Len(noOk)
<1>0. /\ noOk \in Seq(BOOLEAN) /\ Len(noOk) \in Nat /\ spool \in Seq(1 .. Len(noOk))
      /\ IsInjective(spool) /\ Range(spool) \subseteq 1 .. Len(noOk) /\ FALSE \in BOOLEAN
  BY Facts DEF IInv, SuperOwned
<1>1. CASE spool = << >>
  <2>1. /\ super' = [super EXCEPT ![s] = Len(noOk) + 1] /\ spool' = spool
        /\ noOk' = Append(noOk, FALSE)
    BY <1>1 DEF AcquireSuper
  <2>2. /\ noOk' \in Seq(BOOLEAN) /\ Len(noOk') = Len(noOk) + 1
        /\ noOk'[Len(noOk) + 1] = FALSE /\ \A p \in 1 .. Len(noOk) : noOk'[p] = noOk[p]
    BY <1>0, <2>1, AppendProperties
  <2>4. /\ Len(noOk) + 1 \in 1 .. Len(noOk') /\ Len(noOk) + 1 \notin 1 .. Len(noOk)
        /\ 1 .. Len(noOk) \subseteq 1 .. Len(noOk') /\ Len(noOk) <= Len(noOk') /\ Len(noOk') \in Nat
    BY <1>0, <2>2
  <2>5. spool' \in Seq(1 .. Len(noOk'))
    BY <1>0, <2>1, <2>4, SeqMonotonic
  <2>6. Range(spool') = Range(spool) \ {Len(noOk) + 1} /\ IsInjective(spool')
    BY <1>0, <2>1, <2>4
  <2> QED
    BY <2>1, <2>2, <2>4, <2>5, <2>6
<1>2. CASE spool # << >>
  <2>0. PICK o : o = Last(spool)
    OBVIOUS
  <2>1. /\ super' = [super EXCEPT ![s] = o] /\ spool' = Front(spool)
        /\ noOk' = [noOk EXCEPT ![o] = FALSE]
    BY <1>2, <2>0 DEF AcquireSuper
  <2>2. /\ o \in 1 .. Len(noOk) /\ o \in Range(spool) /\ spool' \in Seq(1 .. Len(noOk))
        /\ IsInjective(spool') /\ Range(spool') = Range(spool) \ {o}
    BY <1>0, <1>2, <2>0, <2>1, Pop
  <2>3. /\ noOk' \in Seq(BOOLEAN) /\ Len(noOk') = Len(noOk)
        /\ \A p \in 1 .. Len(noOk) : noOk'[p] = IF p = o THEN FALSE ELSE noOk[p]
    <3>1. PICK f : f = FALSE
      OBVIOUS
    <3>2. f \in BOOLEAN /\ noOk' = [noOk EXCEPT ![o] = f]
      BY <2>1, <3>1, Zenon
    <3>3. /\ noOk' \in Seq(BOOLEAN) /\ Len(noOk') = Len(noOk)
          /\ \A p \in 1 .. Len(noOk) : noOk'[p] = IF p = o THEN f ELSE noOk[p]
      BY <1>0, <2>2, <3>2, ExceptSeq
    <3> QED
      BY <3>1, <3>3, Zenon
  <2>5. Len(noOk) <= Len(noOk') /\ Len(noOk') \in Nat /\ 1 .. Len(noOk') = 1 .. Len(noOk)
    BY <1>0, <2>3
  <2>6. /\ noOk'[o] = FALSE /\ \A p \in 1 .. Len(noOk) : p # o => noOk'[p] = noOk[p]
    BY <2>2, <2>3, Zenon
  <2>7. o \in 1 .. Len(noOk') /\ spool' \in Seq(1 .. Len(noOk'))
    BY <2>2, <2>5
  <2>8. super' = [super EXCEPT ![s] = o]
    BY <2>1
  <2> QED
    BY <2>2, <2>3, <2>5, <2>6, <2>7, <2>8, Zenon
<1> QED
  BY <1>1, <1>2

-----------------------------------------------------------------------------
(* The phout objects.                                                      *)

PhoutInv == PhoutOwned /\ PhoutTrue /\ NoLineYet /\ Happened /\ LinesTrue

(* A step that does not concern them, or the end of a stream after its     *)
(* object was handed over.                                                 *)
LEMMA PhoutFrame ==
  ASSUME IInv, UNCHANGED <<phout, phoutVars, happened, lines>>,
         \A r \in Streams : pc'[r] = pc[r] \/ (pc[r] = "count" /\ pc'[r] = "ended")
  PROVE  PhoutInv'
<1>1. UNCHANGED <<phout, seen, tag, ppool, ch, writing, happened, lines>>
  BY DEF phoutVars
<1>2. \A r \in Streams : HasPhout(r)' <=> HasPhout(r)
  BY DEF HasPhout
<1>3. PhoutObjects' = PhoutObjects /\ \A o : Waits(o)' <=> Waits(o)
  BY <1>1 DEF PhoutObjects, Waits
<1>4. PhoutOwned'
  BY <1>1, <1>2, <1>3 DEF IInv, PhoutOwned
<1>5. PhoutTrue'
  <2>1. PhoutTrue /\ \A o \in PhoutObjects : tag[o] \in Streams
    BY TagStream, Facts DEF IInv
  <2> QED
    BY <1>1, <1>2, <1>3, <2>1 DEF PhoutTrue
<1>6. NoLineYet' /\ Happened' /\ LinesTrue'
  BY <1>1 DEF IInv, NoLineYet, Happened, LinesTrue
<1> QED
  BY <1>4, <1>5, <1>6 DEF PhoutInv

LEMMA PhoutAcquire ==
  ASSUME IInv, NEW s \in Streams, Acquire(s)
  PROVE  PhoutInv'
<1>1. PICK o \in 1 .. Len(seen') :
           /\ phout' = [phout EXCEPT ![s] = o]
           /\ Len(seen) <= Len(seen') /\ Len(seen') \in Nat /\ seen'[o] = {} /\ tag'[o] = s
           /\ seen' \in Seq(SUBSET Events)
           /\ \A p \in 1 .. Len(seen) : p # o => seen'[p] = seen[p] /\ tag'[p] = tag[p]
           /\ IsInjective(ppool') /\ Range(ppool') = Range(ppool) \ {o}
           /\ o \in Range(ppool) \/ o \notin 1 .. Len(seen)
  BY AcquirePhoutTakes
<1>2. /\ pc[s] = "new" /\ pc' = [pc EXCEPT ![s] = "open"]
      /\ UNCHANGED <<ch, writing, happened, lines>>
  BY DEF Acquire, Goto
<1>3. /\ PhoutObjects = 1 .. Len(seen) /\ PhoutObjects' = 1 .. Len(seen')
      /\ PhoutObjects \subseteq PhoutObjects' /\ pc \in [Streams -> {"new", "open", "end", "count", "ended"}]
      /\ phout \in [Streams -> {0} \cup 1 .. Len(seen)]
  <2>1. PhoutObjects' = 1 .. Len(seen')
    BY <1>1, LenProperties DEF PhoutObjects
  <2> QED
    BY <1>1, <2>1, Facts
<1>4. \A p : Waits(p)' <=> Waits(p)
  BY <1>2 DEF Waits
<1>5. \A p : Waits(p) => p \in 1 .. Len(seen) /\ p \notin Range(ppool) /\ p # o
  <2>1. \A p : Waits(p) => p \in 1 .. Len(seen)
    BY Facts DEF Waits
  <2>2. \A p \in 1 .. Len(seen) : Waits(p) => p \notin Range(ppool)
    BY <1>3 DEF IInv, PhoutOwned
  <2> QED
    BY <1>1, <2>1, <2>2
<1>6. \A r \in Streams : HasPhout(r)' => \/ r = s /\ phout'[r] = o /\ pc'[r] = "open"
                                         \/ r # s /\ HasPhout(r) /\ phout'[r] = phout[r]
  <2>1. /\ phout' = [phout EXCEPT ![s] = o] /\ pc' = [pc EXCEPT ![s] = "open"]
        /\ DOMAIN phout = Streams /\ DOMAIN pc = Streams
    BY <1>1, <1>2, <1>3
  <2>2. phout'[s] = o /\ pc'[s] = "open"
    BY <2>1
  <2>3. \A r \in Streams : r # s => phout'[r] = phout[r] /\ pc'[r] = pc[r]
    BY <2>1
  <2>4. ASSUME NEW r \in Streams, HasPhout(r)'
        PROVE  \/ r = s /\ phout'[r] = o /\ pc'[r] = "open"
               \/ r # s /\ HasPhout(r) /\ phout'[r] = phout[r]
    <3>1. CASE r = s
      BY <2>2, <3>1
    <3>2. CASE r # s
      <4>1. phout'[r] = phout[r] /\ pc'[r] = pc[r]
        BY <2>3, <3>2
      <4> QED
        BY <2>4, <3>2, <4>1 DEF HasPhout
    <3> QED
      BY <3>1, <3>2
  <2> QED
    BY <2>4 DEF HasPhout
<1>7. \A r \in Streams : HasPhout(r) => /\ phout[r] \in 1 .. Len(seen) /\ phout[r] # o
                                        /\ tag[phout[r]] = r /\ phout[r] \notin Range(ppool)
                                        /\ ~ Waits(phout[r]) /\ seen[phout[r]] = happened[r]
  <2>1. \A r \in Streams : HasPhout(r) => /\ phout[r] \in 1 .. Len(seen)
                                          /\ tag[phout[r]] = r /\ phout[r] \notin Range(ppool)
                                          /\ ~ Waits(phout[r]) /\ seen[phout[r]] = happened[r]
    BY <1>3 DEF IInv, PhoutOwned, PhoutTrue
  <2> QED
    BY <1>1, <2>1
<1>8. PhoutOwned'
  <2>1. IsInjective(ch') /\ writing' \notin Range(ch')
    BY <1>2 DEF IInv, PhoutOwned
  <2>2. \A p \in PhoutObjects' : Waits(p)' => p \notin Range(ppool')
    BY <1>1, <1>4, <1>5
  <2>3. ASSUME NEW r \in Streams, HasPhout(r)'
        PROVE  /\ phout'[r] \in PhoutObjects' /\ tag'[phout'[r]] = r
               /\ phout'[r] \notin Range(ppool') /\ ~ Waits(phout[r])'
    <3>1. CASE r = s
      <4>1. phout'[r] = o /\ ~ Waits(o)'
        BY <1>4, <1>5, <1>6, <2>3, <3>1
      <4>2. ~ Waits(phout[r])'
        BY <4>1 DEF Waits
      <4> QED
        BY <1>1, <1>3, <3>1, <4>1, <4>2
    <3>2. CASE r # s
      <4>1. /\ phout'[r] = phout[r] /\ phout[r] \in 1 .. Len(seen) /\ phout[r] # o
            /\ tag[phout[r]] = r /\ phout[r] \notin Range(ppool) /\ ~ Waits(phout[r])
        BY <1>6, <1>7, <2>3, <3>2
      <4>2. ~ Waits(phout[r])'
        BY <1>2, <4>1 DEF Waits
      <4> QED
        BY <1>1, <1>3, <4>1, <4>2
    <3> QED
      BY <3>1, <3>2
  <2> QED
    BY <1>1, <2>1, <2>2, <2>3 DEF PhoutOwned
<1>9. PhoutTrue'
  <2>1. ASSUME NEW r \in Streams, HasPhout(r)' PROVE seen'[phout'[r]] = happened'[r]
    <3>1. happened[s] = {}
      BY <1>2 DEF IInv, Happened
    <3>2. CASE r = s
      <4>1. phout'[r] = o
        BY <1>6, <2>1, <3>2
      <4> QED
        BY <1>1, <1>2, <3>1, <3>2, <4>1
    <3>3. CASE r # s
      <4>1. HasPhout(r) /\ phout'[r] = phout[r]
        BY <1>6, <2>1, <3>3
      <4>2. phout[r] \in 1 .. Len(seen) /\ phout[r] # o /\ seen[phout[r]] = happened[r]
        BY <1>7, <4>1
      <4>3. seen'[phout[r]] = seen[phout[r]]
        BY <1>1, <4>2
      <4> QED
        BY <1>2, <4>1, <4>2, <4>3
    <3> QED
      BY <3>2, <3>3
  <2>2. ASSUME NEW p \in PhoutObjects', Waits(p)'
        PROVE  /\ pc'[tag'[p]] \in {"count", "ended"}
               /\ seen'[p] = happened'[tag'[p]] /\ lines'[tag'[p]] = << >>
               /\ tag'[p] = tag[p] /\ p \in PhoutObjects /\ Waits(p)
    <3>1. Waits(p) /\ p \in 1 .. Len(seen) /\ p # o
      BY <1>4, <1>5, <2>2
    <3>2. tag'[p] = tag[p] /\ seen'[p] = seen[p] /\ tag[p] \in Streams
      BY <1>1, <3>1, TagStream
    <3>3. /\ pc[tag[p]] \in {"count", "ended"}
          /\ seen[p] = happened[tag[p]] /\ lines[tag[p]] = << >>
      BY <1>3, <3>1 DEF IInv, PhoutTrue
    <3>4. pc'[tag[p]] = pc[tag[p]]
      BY <1>2, <1>3, <3>2, <3>3
    <3> QED
      BY <1>2, <1>3, <3>1, <3>2, <3>3, <3>4
  <2>3. \A p, q \in PhoutObjects : Waits(p) /\ Waits(q) /\ tag[p] = tag[q] => p = q
    BY DEF IInv, PhoutTrue
  <2> QED
    BY <2>1, <2>2, <2>3 DEF PhoutTrue
<1>10. NoLineYet' /\ Happened' /\ LinesTrue'
  BY <1>2, <1>3 DEF IInv, NoLineYet, Happened, LinesTrue
<1> QED
  BY <1>8, <1>9, <1>10 DEF PhoutInv

LEMMA PhoutTell ==
  ASSUME IInv, NEW s \in Streams, NEW told \in Outcomes, Tell(s, told)
  PROVE  PhoutInv'
<1>0. PICK o : o = phout[s]
  OBVIOUS
<1>1. /\ pc[s] = "open" /\ pc' = [pc EXCEPT ![s] = "end"]
      /\ seen' = [seen EXCEPT ![o] = @ \cup told] /\ happened' = [happened EXCEPT ![s] = told]
      /\ UNCHANGED <<phout, tag, ppool, ch, writing, lines>>
  BY <1>0 DEF Tell, Goto
<1>2. /\ PhoutObjects = 1 .. Len(seen) /\ pc \in [Streams -> {"new", "open", "end", "count", "ended"}]
      /\ seen \in Seq(SUBSET Events) /\ happened \in [Streams -> SUBSET Events]
  BY Facts DEF IInv, Happened
<1>3. /\ o \in 1 .. Len(seen) /\ tag[o] = s /\ ~ Waits(o) /\ seen[o] = happened[s] /\ happened[s] = {}
      /\ lines[s] = << >>
  BY <1>0, <1>1, <1>2 DEF IInv, PhoutOwned, PhoutTrue, Happened, HasPhout, NoLineYet
<1>4. told \subseteq Events /\ ~ Grpc \subseteq told
  BY OutcomesAssumption DEF Grpc
<1>5. /\ Len(seen') = Len(seen) /\ seen'[o] = told /\ seen' \in Seq(SUBSET Events)
      /\ \A p \in 1 .. Len(seen) : p # o => seen'[p] = seen[p]
  <2>1. seen' = [seen EXCEPT ![o] = told] /\ told \in SUBSET Events
    BY <1>1, <1>2, <1>3, <1>4, LenProperties
  <2> QED
    BY <1>2, <1>3, <2>1, ExceptSeq
<1>6. PhoutObjects' = PhoutObjects
  BY <1>2, <1>5, LenProperties DEF PhoutObjects
<1>7. (\A p : Waits(p)' <=> Waits(p)) /\ \A r \in Streams : HasPhout(r)' <=> HasPhout(r)
  BY <1>1, <1>2 DEF Waits, HasPhout
<1>8. PhoutOwned'
  BY <1>1, <1>6, <1>7 DEF IInv, PhoutOwned
<1>9. PhoutTrue'
  <2>1. ASSUME NEW r \in Streams, HasPhout(r) PROVE seen'[phout[r]] = happened'[r]
    <3>1. phout[r] \in 1 .. Len(seen) /\ tag[phout[r]] = r /\ seen[phout[r]] = happened[r]
      BY <1>2, <2>1 DEF IInv, PhoutOwned, PhoutTrue
    <3>2. CASE r = s
      BY <1>0, <1>1, <1>2, <1>5, <3>2
    <3>3. CASE r # s
      <4>1. phout[r] # o
        BY <1>3, <3>1, <3>3
      <4> QED
        BY <1>1, <1>2, <1>5, <3>1, <3>3, <4>1
    <3> QED
      BY <3>2, <3>3
  <2>2. ASSUME NEW p \in PhoutObjects, Waits(p)
        PROVE  /\ pc'[tag[p]] \in {"count", "ended"}
               /\ seen'[p] = happened'[tag[p]] /\ lines[tag[p]] = << >>
    <3>1. /\ pc[tag[p]] \in {"count", "ended"}
          /\ seen[p] = happened[tag[p]] /\ lines[tag[p]] = << >>
      BY <2>2 DEF IInv, PhoutTrue
    <3>2. p # o /\ tag[p] # s /\ tag[p] \in Streams /\ p \in 1 .. Len(seen)
      BY <1>1, <1>2, <1>3, <2>2, <3>1, TagStream
    <3> QED
      BY <1>1, <1>2, <1>5, <3>1, <3>2
  <2>3. \A p, q \in PhoutObjects : Waits(p) /\ Waits(q) /\ tag[p] = tag[q] => p = q
    BY DEF IInv, PhoutTrue
  <2> QED
    BY <1>1, <1>6, <1>7, <2>1, <2>2, <2>3 DEF PhoutTrue
<1>10. NoLineYet'
  BY <1>1, <1>2 DEF IInv, NoLineYet
<1>11. Happened'
  BY <1>1, <1>2, <1>4 DEF IInv, Happened
<1>12. LinesTrue'
  <2>1. ASSUME NEW r \in Streams PROVE lines'[r] \in {<< >>, <<Code(happened'[r])>>}
    <3>1. CASE r = s
      BY <1>1, <1>3, <3>1
    <3>2. CASE r # s
      <4>1. happened'[r] = happened[r]
        BY <1>1, <1>2, <3>2
      <4> QED
        BY <1>1, <4>1 DEF IInv, LinesTrue
    <3> QED
      BY <3>1, <3>2
  <2> QED
    BY <2>1 DEF LinesTrue
<1> QED
  BY <1>8, <1>9, <1>10, <1>11, <1>12 DEF PhoutInv

LEMMA PhoutEnd ==
  ASSUME IInv, NEW s \in Streams, EndPhout(s)
  PROVE  PhoutInv'
<1>0. PICK o : o = phout[s]
  OBVIOUS
<1>1. /\ pc[s] = "end" /\ pc' = [pc EXCEPT ![s] = "count"] /\ ch' = Append(ch, o)
      /\ UNCHANGED <<phout, seen, tag, ppool, writing, happened, lines>>
  BY <1>0 DEF EndPhout, Goto
<1>2. /\ PhoutObjects = 1 .. Len(seen) /\ pc \in [Streams -> {"new", "open", "end", "count", "ended"}]
      /\ ch \in Seq(1 .. Len(seen)) /\ PhoutObjects' = PhoutObjects /\ Len(seen) \in Nat
  BY <1>1, Facts DEF PhoutObjects
<1>3. /\ o \in 1 .. Len(seen) /\ tag[o] = s /\ ~ Waits(o) /\ seen[o] = happened[s]
      /\ o \notin Range(ppool) /\ lines[s] = << >> /\ o \notin Range(ch) /\ o # writing /\ o # 0
  <2>1. /\ o \in 1 .. Len(seen) /\ tag[o] = s /\ ~ Waits(o) /\ seen[o] = happened[s]
        /\ o \notin Range(ppool) /\ lines[s] = << >>
    BY <1>0, <1>1, <1>2 DEF IInv, PhoutOwned, PhoutTrue, HasPhout, NoLineYet
  <2> QED
    BY <2>1, <1>2 DEF Waits
<1>4. IsInjective(ch) /\ IsInjective(ppool) /\ writing \notin Range(ch)
  BY DEF IInv, PhoutOwned
<1>5. Range(ch') = Range(ch) \cup {o} /\ IsInjective(ch')
  BY <1>1, <1>2, <1>3, <1>4, Push
<1>6. \A p : Waits(p)' <=> Waits(p) \/ p = o
  BY <1>1, <1>5 DEF Waits
<1>7. \A r \in Streams : HasPhout(r)' <=> HasPhout(r) /\ r # s
  BY <1>1, <1>2 DEF HasPhout
<1>8. PhoutOwned'
  <2>1. \A p \in PhoutObjects : Waits(p)' => p \notin Range(ppool)
    BY <1>3, <1>6 DEF IInv, PhoutOwned
  <2>2. ASSUME NEW r \in Streams, HasPhout(r)'
        PROVE  /\ phout[r] \in PhoutObjects /\ tag[phout[r]] = r
               /\ phout[r] \notin Range(ppool) /\ ~ Waits(phout[r])'
    <3>1. /\ phout[r] \in PhoutObjects /\ tag[phout[r]] = r
          /\ phout[r] \notin Range(ppool) /\ ~ Waits(phout[r]) /\ r # s
      BY <1>7, <2>2 DEF IInv, PhoutOwned
    <3>2. phout[r] # o
      BY <1>3, <3>1
    <3> QED
      BY <1>1, <1>5, <3>1, <3>2 DEF Waits
  <2>3. writing' \notin Range(ch')
    BY <1>1, <1>3, <1>4, <1>5
  <2> QED
    BY <1>1, <1>2, <1>4, <1>5, <2>1, <2>2, <2>3 DEF PhoutOwned
<1>9. PhoutTrue'
  <2>1. \A p \in PhoutObjects : tag[p] \in Streams
    BY <1>2, TagStream
  <2>2. \A r \in Streams : HasPhout(r)' => seen[phout[r]] = happened[r]
    BY <1>7 DEF IInv, PhoutTrue
  <2>3. \A p \in PhoutObjects :
          Waits(p) => /\ pc[tag[p]] \in {"count", "ended"}
                      /\ seen[p] = happened[tag[p]] /\ lines[tag[p]] = << >>
    BY DEF IInv, PhoutTrue
  <2>4. \A p \in PhoutObjects :
          Waits(p)' => /\ pc'[tag[p]] \in {"count", "ended"}
                       /\ seen[p] = happened[tag[p]] /\ lines[tag[p]] = << >>
    BY <1>1, <1>2, <1>3, <1>6, <2>1, <2>3
  <2>5. \A p \in PhoutObjects : Waits(p) => tag[p] # s
    BY <1>1, <2>3
  <2>6. \A p, q \in PhoutObjects : Waits(p)' /\ Waits(q)' /\ tag[p] = tag[q] => p = q
    BY <1>3, <1>6, <2>5 DEF IInv, PhoutTrue
  <2> QED
    BY <1>1, <1>2, <2>2, <2>4, <2>6 DEF PhoutTrue
<1>10. NoLineYet' /\ Happened' /\ LinesTrue'
  BY <1>1, <1>2 DEF IInv, NoLineYet, Happened, LinesTrue
<1> QED
  BY <1>8, <1>9, <1>10 DEF PhoutInv

LEMMA PhoutTake ==
  ASSUME IInv, TakeState
  PROVE  PhoutInv'
<1>1. /\ writing = 0 /\ ch # << >> /\ writing' = Head(ch) /\ ch' = Tail(ch)
      /\ UNCHANGED <<pc, phout, seen, tag, ppool, happened, lines>>
  BY DEF TakeState
<1>2. ch \in Seq(1 .. Len(seen)) /\ IsInjective(ch) /\ 0 \notin 1 .. Len(seen)
  BY Facts DEF IInv, PhoutOwned
<1>3. /\ IsInjective(ch') /\ writing' \in Range(ch) /\ Range(ch') = Range(ch) \ {writing'}
      /\ writing' # 0
  BY <1>1, <1>2, Dequeue
<1>4. \A p : Waits(p)' <=> Waits(p)
  BY <1>1, <1>3 DEF Waits
<1>5. PhoutObjects' = PhoutObjects /\ \A r \in Streams : HasPhout(r)' <=> HasPhout(r)
  BY <1>1 DEF PhoutObjects, HasPhout
<1>6. PhoutOwned'
  BY <1>1, <1>3, <1>4, <1>5 DEF IInv, PhoutOwned
<1>7. PhoutTrue'
  BY <1>1, <1>4, <1>5 DEF IInv, PhoutTrue
<1>8. NoLineYet' /\ Happened' /\ LinesTrue'
  BY <1>1 DEF IInv, NoLineYet, Happened, LinesTrue
<1> QED
  BY <1>6, <1>7, <1>8 DEF PhoutInv

LEMMA PhoutWrite ==
  ASSUME IInv, WriteLine
  PROVE  PhoutInv'
<1>0. PICK o, t : o = writing /\ t = tag[writing]
  OBVIOUS
<1>1. /\ o # 0 /\ lines' = [lines EXCEPT ![t] = Append(@, Code(seen[o]))]
      /\ ppool' = Append(ppool, o) /\ writing' = 0
      /\ UNCHANGED <<pc, phout, seen, tag, ch, happened>>
  BY <1>0 DEF WriteLine
<1>2. /\ o \in 1 .. Len(seen) /\ PhoutObjects = 1 .. Len(seen) /\ ppool \in Seq(1 .. Len(seen))
      /\ PhoutObjects' = PhoutObjects /\ 0 \notin Range(ch) /\ 0 \notin 1 .. Len(seen)
  <2>1. Range(ch) \subseteq 1 .. Len(seen)
    BY Facts
  <2> QED
    BY <1>0, <1>1, <2>1, Facts DEF PhoutObjects
<1>3. Waits(o) /\ o \notin Range(ch) /\ o \notin Range(ppool) /\ IsInjective(ppool) /\ IsInjective(ch)
  BY <1>0, <1>1, <1>2 DEF Waits, IInv, PhoutOwned
<1>4. /\ t \in Streams /\ t = tag[o] /\ pc[t] \in {"count", "ended"}
      /\ seen[o] = happened[t] /\ lines[t] = << >>
  BY <1>0, <1>2, <1>3, TagStream DEF IInv, PhoutTrue
<1>5. IsInjective(ppool') /\ Range(ppool') = Range(ppool) \cup {o}
  BY <1>1, <1>2, <1>3, Push
<1>6. \A p : Waits(p)' <=> Waits(p) /\ p # o
  BY <1>0, <1>1, <1>3 DEF Waits
<1>7. \A r \in Streams : HasPhout(r)' <=> HasPhout(r)
  BY <1>1 DEF HasPhout
<1>8. PhoutOwned'
  <2>1. \A r \in Streams : HasPhout(r) => /\ phout[r] \in PhoutObjects /\ tag[phout[r]] = r
                                          /\ phout[r] \notin Range(ppool) /\ ~ Waits(phout[r])
    BY DEF IInv, PhoutOwned
  <2>2. ASSUME NEW r \in Streams, HasPhout(r)
        PROVE  phout[r] \notin Range(ppool') /\ ~ Waits(phout[r])'
    <3>1. phout[r] # o /\ phout[r] \notin Range(ppool) /\ ~ Waits(phout[r])
      BY <1>3, <2>1, <2>2
    <3>2. phout[r] \notin Range(ppool')
      BY <1>5, <3>1
    <3>3. ~ Waits(phout[r])'
      BY <1>1, <3>1 DEF Waits
    <3> QED
      BY <3>2, <3>3
  <2>3. \A p \in PhoutObjects : Waits(p)' => p \notin Range(ppool')
    BY <1>5, <1>6 DEF IInv, PhoutOwned
  <2>4. writing' \notin Range(ch')
    BY <1>1, <1>2
  <2> QED
    BY <1>1, <1>2, <1>3, <1>5, <1>7, <2>1, <2>2, <2>3, <2>4 DEF PhoutOwned
<1>9. \A r \in Streams : r # t => lines'[r] = lines[r]
  BY <1>1 DEF IInv, NoLineYet
<1>10. lines'[t] = <<Code(happened[t])>> /\ lines' = [r \in Streams |-> lines'[r]]
  <2>1. lines = [r \in Streams |-> lines[r]]
    BY DEF IInv, NoLineYet
  <2>2. lines'[t] = Append(lines[t], Code(seen[o]))
    BY <1>1, <1>4, <2>1
  <2>3. lines' = [r \in Streams |-> lines'[r]]
    BY <1>1, <2>1
  <2>4. Append(<< >>, Code(seen[o])) = <<Code(seen[o])>>
    OBVIOUS
  <2> QED
    BY <1>4, <2>2, <2>3, <2>4
<1>11. PhoutTrue'
  <2>1. \A p \in PhoutObjects : tag[p] \in Streams
    BY <1>2, TagStream
  <2>2. /\ \A p \in PhoutObjects :
              Waits(p) => /\ pc[tag[p]] \in {"count", "ended"}
                          /\ seen[p] = happened[tag[p]] /\ lines[tag[p]] = << >>
        /\ \A p, q \in PhoutObjects : Waits(p) /\ Waits(q) /\ tag[p] = tag[q] => p = q
        /\ \A r \in Streams : HasPhout(r) => seen[phout[r]] = happened[r]
    BY DEF IInv, PhoutTrue
  <2>3. \A p \in PhoutObjects : Waits(p)' => lines'[tag[p]] = << >>
    <3>1. \A p \in PhoutObjects : Waits(p)' => tag[p] # t
      BY <1>2, <1>3, <1>4, <1>6, <2>2
    <3> QED
      BY <1>6, <1>9, <2>1, <2>2, <3>1
  <2> QED
    BY <1>1, <1>2, <1>6, <1>7, <2>2, <2>3 DEF PhoutTrue
<1>12. NoLineYet'
  <2>1. ASSUME NEW r \in Streams, pc[r] \in {"new", "open", "end"} PROVE lines'[r] = << >>
    <3>1. r # t
      BY <1>4, <2>1
    <3> QED
      BY <1>9, <2>1, <3>1 DEF IInv, NoLineYet
  <2> QED
    BY <1>1, <1>10, <2>1 DEF NoLineYet
<1>13. Happened'
  BY <1>1 DEF IInv, Happened
<1>14. LinesTrue'
  <2>1. ASSUME NEW r \in Streams PROVE lines'[r] \in {<< >>, <<Code(happened[r])>>}
    <3>1. CASE r = t
      BY <1>10, <3>1
    <3>2. CASE r # t
      BY <1>9, <3>2 DEF IInv, LinesTrue
    <3> QED
      BY <3>1, <3>2
  <2> QED
    BY <1>1, <2>1 DEF LinesTrue
<1> QED
  BY <1>8, <1>11, <1>12, <1>13, <1>14 DEF PhoutInv

(* An object whose write failed is nowhere any more.                       *)
LEMMA PhoutFails ==
  ASSUME IInv, WriteFails
  PROVE  PhoutInv'
<1>1. /\ writing' = 0 /\ UNCHANGED <<pc, phout, seen, tag, ppool, ch, happened, lines>>
  BY DEF WriteFails
<1>2. 0 \notin Range(ch)
  BY Facts
<1>3. \A p : Waits(p)' => Waits(p)
  BY <1>1 DEF Waits
<1>4. PhoutObjects' = PhoutObjects /\ \A r \in Streams : HasPhout(r)' <=> HasPhout(r)
  BY <1>1 DEF PhoutObjects, HasPhout
<1>5. \A r \in Streams : Waits(phout[r])' => Waits(phout[r])
  BY <1>1 DEF Waits
<1>6. PhoutOwned'
  BY <1>1, <1>2, <1>3, <1>4, <1>5 DEF IInv, PhoutOwned
<1>7. PhoutTrue'
  BY <1>1, <1>3, <1>4 DEF IInv, PhoutTrue
<1>8. NoLineYet' /\ Happened' /\ LinesTrue'
  BY <1>1 DEF IInv, NoLineYet, Happened, LinesTrue
<1> QED
  BY <1>6, <1>7, <1>8 DEF PhoutInv

LEMMA PhoutStep ==
  ASSUME IInv, [Next]_vars
  PROVE  PhoutInv'
<1>0. pc \in [Streams -> {"new", "open", "end", "count", "ended"}]
  BY Facts
<1>1. CASE PhoutRun
  <2>1. CASE PhoutReturns
    BY <2>1, PhoutFrame DEF PhoutReturns
  <2> QED
    BY <1>1, <2>1, PhoutTake, PhoutWrite, PhoutFails DEF PhoutRun
<1>2. CASE SuperRun
  BY <1>2, PhoutFrame DEF SuperRun
<1>3. CASE Close
  BY <1>3, PhoutFrame DEF Close
<1>4. ASSUME NEW s \in Streams, Stream(s) PROVE PhoutInv'
  <2>1. CASE Count(s)
    <3>1. /\ UNCHANGED <<phout, phoutVars, happened, lines>>
          /\ pc[s] = "count" /\ pc' = [pc EXCEPT ![s] = "ended"]
      BY <2>1 DEF Count, Goto
    <3> QED
      BY <1>0, <3>1, PhoutFrame
  <2> QED
    BY <1>4, <2>1, PhoutAcquire, PhoutTell, PhoutEnd DEF Stream
<1>5. CASE UNCHANGED vars
  BY <1>5, PhoutFrame DEF vars
<1> QED
  BY <1>1, <1>2, <1>3, <1>4, <1>5 DEF Next

-----------------------------------------------------------------------------
(* The supersimple objects.                                                *)

SuperInv == SuperOwned /\ SuperTrue

LEMMA SuperFrame ==
  ASSUME IInv, UNCHANGED <<super, noOk, spool, happened>>,
         \A r \in Streams : pc'[r] = pc[r] \/ (pc[r] = "end" /\ pc'[r] = "count")
  PROVE  SuperInv'
<1>1. SuperObjects' = SuperObjects /\ Failed' = Failed
  BY DEF SuperObjects, Failed
<1>2. \A r \in Streams : HasSuper(r)' <=> HasSuper(r)
  BY DEF HasSuper
<1>3. SuperOwned'
  BY <1>1, <1>2 DEF IInv, SuperOwned
<1>4. SuperTrue'
  <2>1. ASSUME NEW r \in Streams, HasSuper(r)' PROVE (noOk[super[r]] <=> r \in Failed)'
    <3>1. noOk[super[r]] <=> r \in Failed
      BY <1>2, <2>1 DEF IInv, SuperTrue
    <3>2. noOk' = noOk /\ super' = super
      OBVIOUS
    <3> QED
      BY <1>1, <3>1, <3>2, Zenon
  <2> QED
    BY <2>1, Zenon DEF SuperTrue
<1> QED
  BY <1>3, <1>4 DEF SuperInv

LEMMA SuperAcquire ==
  ASSUME IInv, NEW s \in Streams, Acquire(s)
  PROVE  SuperInv'
<1>0. AcquireSuper(s)
  BY DEF Acquire
<1>1. PICK o \in 1 .. Len(noOk') :
           /\ super' = [super EXCEPT ![s] = o]
           /\ noOk' \in Seq(BOOLEAN) /\ Len(noOk) <= Len(noOk') /\ Len(noOk') \in Nat
           /\ noOk'[o] = FALSE
           /\ \A p \in 1 .. Len(noOk) : p # o => noOk'[p] = noOk[p]
           /\ spool' \in Seq(1 .. Len(noOk')) /\ IsInjective(spool')
           /\ Range(spool') = Range(spool) \ {o}
           /\ o \in Range(spool) \/ o \notin 1 .. Len(noOk)
  BY <1>0, AcquireSuperTakes, Zenon
<1>2. /\ pc[s] = "new" /\ pc' = [pc EXCEPT ![s] = "open"] /\ happened' = happened
  BY DEF Acquire, Goto
<1>3. /\ SuperObjects = 1 .. Len(noOk) /\ 1 .. Len(noOk) \subseteq 1 .. Len(noOk')
      /\ DOMAIN pc = Streams /\ DOMAIN super = Streams
  <2>1. Len(noOk) <= Len(noOk') /\ Len(noOk') \in Nat /\ Len(noOk) \in Nat
    BY <1>1, Facts, Zenon
  <2>2. 1 .. Len(noOk) \subseteq 1 .. Len(noOk')
    BY <2>1
  <2> QED
    BY <2>2, Facts
<1>4. SuperObjects' = 1 .. Len(noOk')
  <2>1. noOk' \in Seq(BOOLEAN)
    BY <1>1, Zenon
  <2> QED
    BY <2>1, LenProperties DEF SuperObjects
<1>5. super'[s] = o /\ \A r \in Streams : r # s => super'[r] = super[r] /\ pc'[r] = pc[r]
  <2>1. super' = [super EXCEPT ![s] = o]
    BY <1>1, Zenon
  <2> QED
    BY <1>2, <1>3, <2>1
<1>6. \A r \in Streams : r # s => (HasSuper(r)' <=> HasSuper(r))
  BY <1>5 DEF HasSuper
<1>7. \A r \in Streams : HasSuper(r) => /\ super[r] \in 1 .. Len(noOk) /\ super[r] # o
                                        /\ super[r] \notin Range(spool)
  <2>1. o \in Range(spool) \/ o \notin 1 .. Len(noOk)
    BY <1>1, Zenon
  <2> QED
    BY <1>3, <2>1 DEF IInv, SuperOwned
<1>8. SuperOwned'
  <2>1. IsInjective(spool') /\ Range(spool') = Range(spool) \ {o} /\ o \in 1 .. Len(noOk')
    BY <1>1, Zenon
  <2>2. ASSUME NEW r \in Streams, HasSuper(r)'
        PROVE  super'[r] \in SuperObjects' /\ super'[r] \notin Range(spool')
    BY <1>3, <1>4, <1>5, <1>6, <1>7, <2>1, <2>2
  <2>3. \A r, q \in Streams : HasSuper(r) /\ HasSuper(q) /\ super[r] = super[q] => r = q
    BY DEF IInv, SuperOwned
  <2>4. ASSUME NEW r \in Streams, NEW q \in Streams, HasSuper(r)', HasSuper(q)', super'[r] = super'[q]
        PROVE  r = q
    BY <1>5, <1>6, <1>7, <2>3, <2>4
  <2> QED
    BY <2>1, <2>2, <2>4 DEF SuperOwned
<1>9. SuperTrue'
  <2>1. Failed' = Failed /\ s \notin Failed
    BY <1>2 DEF Failed, IInv, Happened
  <2>2. ASSUME NEW r \in Streams, HasSuper(r)' PROVE (noOk'[super'[r]] <=> r \in Failed')
    <3>1. CASE r = s
      <4>1. super'[r] = o /\ r \notin Failed'
        BY <1>5, <2>1, <3>1
      <4>2. ~ noOk'[super'[r]]
        BY <1>1, <4>1, Zenon
      <4> QED
        BY <4>1, <4>2, Zenon
    <3>2. CASE r # s
      <4>1. noOk[super[r]] <=> r \in Failed
        BY <1>6, <2>2, <3>2 DEF IInv, SuperTrue
      <4>2. super'[r] = super[r] /\ super[r] \in 1 .. Len(noOk) /\ super[r] # o
        BY <1>5, <1>6, <1>7, <2>2, <3>2, Zenon
      <4>3. noOk'[super[r]] = noOk[super[r]]
        BY <1>1, <4>2, Zenon
      <4> QED
        BY <2>1, <4>1, <4>2, <4>3, Zenon
    <3> QED
      BY <3>1, <3>2
  <2> QED
    BY <2>2, Zenon DEF SuperTrue
<1> QED
  BY <1>8, <1>9 DEF SuperInv

LEMMA SuperTell ==
  ASSUME IInv, NEW s \in Streams, NEW told \in Outcomes, Tell(s, told)
  PROVE  SuperInv'
<1>0. PICK o, b : o = super[s] /\ b = (told \ {"status", "grpc_0"} # {})
  OBVIOUS
<1>1. /\ pc[s] = "open" /\ pc' = [pc EXCEPT ![s] = "end"]
      /\ noOk' = [noOk EXCEPT ![o] = @ \/ b] /\ happened' = [happened EXCEPT ![s] = told]
      /\ super' = super /\ spool' = spool
  BY <1>0, Zenon DEF Tell, Goto
<1>2. /\ SuperObjects = 1 .. Len(noOk) /\ DOMAIN pc = Streams /\ DOMAIN happened = Streams
      /\ noOk \in Seq(BOOLEAN) /\ DOMAIN noOk = 1 .. Len(noOk)
  BY Facts DEF IInv, Happened, SuperObjects
<1>3. \A r \in Streams : HasSuper(r)' <=> HasSuper(r)
  BY <1>1, <1>2 DEF HasSuper
<1>4. o \in 1 .. Len(noOk) /\ HasSuper(s) /\ s \notin Failed
  BY <1>0, <1>1, <1>2 DEF HasSuper, IInv, SuperOwned, Happened, Failed
<1>5. ~ noOk[o]
  BY <1>0, <1>4, Zenon DEF IInv, SuperTrue
<1>6. PICK c \in BOOLEAN : c = (noOk[o] \/ b)
  OBVIOUS
<1>7. /\ noOk' \in Seq(BOOLEAN) /\ Len(noOk') = Len(noOk) /\ (noOk'[o] <=> b)
      /\ \A p \in 1 .. Len(noOk) : p # o => noOk'[p] = noOk[p]
  <2>1. noOk' = [noOk EXCEPT ![o] = c]
    BY <1>1, <1>2, <1>4, <1>6, Zenon
  <2>2. /\ noOk' \in Seq(BOOLEAN) /\ Len(noOk') = Len(noOk)
        /\ \A p \in 1 .. Len(noOk) : noOk'[p] = IF p = o THEN c ELSE noOk[p]
    BY <1>2, <1>4, <2>1, ExceptSeq
  <2>3. noOk'[o] = c /\ \A p \in 1 .. Len(noOk) : p # o => noOk'[p] = noOk[p]
    BY <1>4, <2>2, Zenon
  <2>4. c <=> b
    BY <1>5, <1>6, Zenon
  <2> QED
    BY <2>2, <2>3, <2>4, Zenon
<1>8. SuperObjects' = SuperObjects
  BY <1>2, <1>7, LenProperties DEF SuperObjects
<1>9. SuperOwned'
  BY <1>1, <1>3, <1>8 DEF IInv, SuperOwned
<1>10. (s \in Failed' <=> b) /\ \A r \in Streams : r # s => (r \in Failed' <=> r \in Failed)
  <2>1. \A r \in Streams : happened'[r] = IF r = s THEN told ELSE happened[r]
    BY <1>1, <1>2
  <2>2. s \in Failed' <=> told \ {"status", "grpc_0"} # {}
    BY <2>1 DEF Failed
  <2>3. \A r \in Streams : r # s => (r \in Failed' <=> r \in Failed)
    BY <2>1 DEF Failed
  <2> QED
    BY <1>0, <2>2, <2>3, Zenon
<1>11. SuperTrue'
  <2>1. ASSUME NEW r \in Streams, HasSuper(r)' PROVE (noOk'[super'[r]] <=> r \in Failed')
    <3>1. CASE r = s
      <4>1. super'[r] = o /\ (r \in Failed' <=> b)
        BY <1>0, <1>1, <1>10, <3>1, Zenon
      <4>2. noOk'[o] <=> b
        BY <1>7, Zenon
      <4> QED
        BY <4>1, <4>2, Zenon
    <3>2. CASE r # s
      <4>1. (noOk[super[r]] <=> r \in Failed) /\ super[r] \in 1 .. Len(noOk) /\ super[r] # o
        <5>1. HasSuper(r)
          BY <1>3, <2>1, Zenon
        <5>2. noOk[super[r]] <=> r \in Failed
          BY <5>1 DEF IInv, SuperTrue
        <5>3. super[r] \in 1 .. Len(noOk) /\ super[r] # o
          BY <1>0, <1>2, <1>4, <3>2, <5>1 DEF IInv, SuperOwned
        <5> QED
          BY <5>2, <5>3, Zenon
      <4>2. noOk'[super[r]] = noOk[super[r]]
        BY <1>7, <4>1, Zenon
      <4>3. (r \in Failed' <=> r \in Failed) /\ super'[r] = super[r]
        BY <1>1, <1>10, <3>2, Zenon
      <4> QED
        BY <4>1, <4>2, <4>3, Zenon
    <3> QED
      BY <3>1, <3>2
  <2> QED
    BY <2>1, Zenon DEF SuperTrue
<1> QED
  BY <1>9, <1>11 DEF SuperInv

LEMMA SuperCount ==
  ASSUME IInv, NEW s \in Streams, Count(s)
  PROVE  SuperInv'
<1>0. PICK o : o = super[s]
  OBVIOUS
<1>1. /\ pc[s] = "count" /\ pc' = [pc EXCEPT ![s] = "ended"] /\ spool' = Append(spool, o)
      /\ super' = super /\ noOk' = noOk /\ happened' = happened
  BY <1>0 DEF Count, Goto
<1>2. /\ SuperObjects = 1 .. Len(noOk) /\ DOMAIN pc = Streams /\ SuperObjects' = SuperObjects
      /\ spool \in Seq(1 .. Len(noOk)) /\ Failed' = Failed
  BY <1>1, Facts DEF SuperObjects, Failed
<1>3. \A r \in Streams : HasSuper(r)' <=> HasSuper(r) /\ r # s
  BY <1>1, <1>2 DEF HasSuper
<1>4. /\ o \in 1 .. Len(noOk) /\ o \notin Range(spool) /\ HasSuper(s) /\ IsInjective(spool)
  BY <1>0, <1>1, <1>2 DEF HasSuper, IInv, SuperOwned
<1>5. IsInjective(spool') /\ Range(spool') = Range(spool) \cup {o}
  BY <1>1, <1>2, <1>4, Push
<1>6. SuperOwned'
  <2>1. /\ \A r \in Streams : HasSuper(r) => super[r] \in SuperObjects /\ super[r] \notin Range(spool)
        /\ \A r, q \in Streams : HasSuper(r) /\ HasSuper(q) /\ super[r] = super[q] => r = q
    BY DEF IInv, SuperOwned
  <2>2. \A r \in Streams : HasSuper(r)' => super[r] \in SuperObjects /\ super[r] \notin Range(spool')
    BY <1>0, <1>3, <1>4, <1>5, <2>1
  <2> QED
    BY <1>1, <1>2, <1>3, <1>5, <2>1, <2>2 DEF SuperOwned
<1>7. SuperTrue'
  <2>1. ASSUME NEW r \in Streams, HasSuper(r)' PROVE (noOk'[super'[r]] <=> r \in Failed')
    <3>1. noOk[super[r]] <=> r \in Failed
      BY <1>3, <2>1 DEF IInv, SuperTrue
    <3> QED
      BY <1>1, <1>2, <3>1, Zenon
  <2> QED
    BY <2>1, Zenon DEF SuperTrue
<1> QED
  BY <1>6, <1>7 DEF SuperInv

LEMMA SuperStep ==
  ASSUME IInv, [Next]_vars
  PROVE  SuperInv'
<1>0. pc \in [Streams -> {"new", "open", "end", "count", "ended"}]
  BY Facts
<1>1. CASE PhoutRun
  BY <1>1, SuperFrame DEF PhoutRun, TakeState, WriteLine, WriteFails, PhoutReturns, superVars
<1>2. CASE SuperRun
  BY <1>2, SuperFrame DEF SuperRun, superVars
<1>3. CASE Close
  BY <1>3, SuperFrame DEF Close, superVars
<1>4. ASSUME NEW s \in Streams, Stream(s) PROVE SuperInv'
  <2>1. CASE EndPhout(s)
    <3>1. /\ UNCHANGED <<super, noOk, spool, happened>>
          /\ pc[s] = "end" /\ pc' = [pc EXCEPT ![s] = "count"]
      BY <2>1 DEF EndPhout, Goto, superVars
    <3> QED
      BY <1>0, <3>1, SuperFrame
  <2> QED
    BY <1>4, <2>1, SuperAcquire, SuperTell, SuperCount DEF Stream
<1>5. CASE UNCHANGED vars
  BY <1>5, SuperFrame DEF vars, superVars
<1> QED
  BY <1>1, <1>2, <1>3, <1>4, <1>5 DEF Next


-----------------------------------------------------------------------------
(* The counters.                                                           *)

(* The streams are finitely many, and so is any set of them.               *)
LEMMA StreamsFinite ==
  ASSUME NEW S \in SUBSET Streams
  PROVE  IsFiniteSet(S) /\ Cardinality(S) \in Nat
<1>1. IsFiniteSet(Streams)
  BY BoundsAssumption, FS_Interval DEF Streams
<1> QED
  BY <1>1, FS_Subset, FS_CardinalityType

(* Streams that have started.                                              *)
Started == {s \in Streams : pc[s] # "new"}

(* A step after which the same streams have started, ended and failed.     *)
LEMMA CountersFrame ==
  ASSUME IInv, UNCHANGED <<ok, nook, req, lok, lnook, printed>>,
         Started' = Started, Ended(Streams \ Failed)' = Ended(Streams \ Failed),
         Ended(Failed)' = Ended(Failed)
  PROVE  Counters'
<1>1. /\ ok' = Cardinality(Ended(Streams \ Failed)') /\ nook' = Cardinality(Ended(Failed)')
      /\ req' = Cardinality(Started')
  BY DEF IInv, Counters, Started
<1>2. lok' <= ok' /\ lnook' <= nook' /\ printed' \in Nat \X Nat /\ ReportConsistent'
  BY DEF IInv, Counters, ReportConsistent
<1> QED
  BY <1>1, <1>2 DEF Counters, Started

LEMMA CountersAcquire ==
  ASSUME IInv, NEW s \in Streams, Acquire(s)
  PROVE  Counters'
<1>1. /\ pc[s] = "new" /\ pc' = [pc EXCEPT ![s] = "open"] /\ req' = req + 1
      /\ UNCHANGED <<ok, nook, lok, lnook, printed, happened>>
  BY DEF Acquire, AcquireSuper, Goto, reportVars
<1>2. pc \in [Streams -> {"new", "open", "end", "count", "ended"}]
  BY Facts
<1>3. Started' = Started \cup {s} /\ s \notin Started /\ Started \in SUBSET Streams
  BY <1>1, <1>2 DEF Started
<1>4. Cardinality(Started') = Cardinality(Started) + 1
  BY <1>3, StreamsFinite, FS_AddElement
<1>5. Failed' = Failed
  BY <1>1 DEF Failed
<1>6. \A r \in Streams : pc'[r] = "ended" <=> pc[r] = "ended"
  BY <1>1, <1>2
<1>7. Ended(Streams \ Failed)' = Ended(Streams \ Failed) /\ Ended(Failed)' = Ended(Failed)
  <2>1. Failed \subseteq Streams
    BY DEF Failed
  <2> QED
    BY <1>5, <1>6, <2>1 DEF Ended
<1>8. req' = Cardinality(Started')
  BY <1>1, <1>4 DEF IInv, Counters, Started
<1>9. ok' = Cardinality(Ended(Streams \ Failed)') /\ nook' = Cardinality(Ended(Failed)')
  BY <1>1, <1>7 DEF IInv, Counters
<1>10. lok' <= ok' /\ lnook' <= nook' /\ printed' \in Nat \X Nat /\ ReportConsistent'
  BY <1>1 DEF IInv, Counters, ReportConsistent
<1> QED
  BY <1>8, <1>9, <1>10 DEF Counters, Started

LEMMA CountersTell ==
  ASSUME IInv, NEW s \in Streams, NEW told \in Outcomes, Tell(s, told)
  PROVE  Counters'
<1>1. /\ pc[s] = "open" /\ pc' = [pc EXCEPT ![s] = "end"] /\ happened' = [happened EXCEPT ![s] = told]
      /\ UNCHANGED <<ok, nook, req, lok, lnook, printed>>
  BY DEF Tell, Goto, reportVars
<1>2. pc \in [Streams -> {"new", "open", "end", "count", "ended"}] /\ happened \in [Streams -> SUBSET Events]
  BY Facts DEF IInv, Happened
<1>3. Started' = Started
  BY <1>1, <1>2 DEF Started
<1>4. \A r \in Streams : /\ pc'[r] = "ended" <=> pc[r] = "ended"
                         /\ pc[r] = "ended" => (r \in Failed' <=> r \in Failed)
  BY <1>1, <1>2 DEF Failed
<1>5. Failed \subseteq Streams /\ Failed' \subseteq Streams
  BY DEF Failed
<1>6. Ended(Streams \ Failed)' = Ended(Streams \ Failed) /\ Ended(Failed)' = Ended(Failed)
  BY <1>4, <1>5 DEF Ended
<1> QED
  BY <1>1, <1>3, <1>6, CountersFrame

LEMMA CountersCount ==
  ASSUME IInv, NEW s \in Streams, Count(s)
  PROVE  Counters'
<1>1. /\ pc[s] = "count" /\ pc' = [pc EXCEPT ![s] = "ended"]
      /\ UNCHANGED <<req, lok, lnook, printed, happened>>
  BY DEF Count, Goto, reportVars
<1>2. /\ pc \in [Streams -> {"new", "open", "end", "count", "ended"}]
      /\ {ok, nook, lok, lnook} \subseteq Nat
  BY Facts DEF IInv, TypeOK
<1>3. Started' = Started /\ Failed' = Failed /\ Failed \subseteq Streams
  BY <1>1, <1>2 DEF Started, Failed
<1>4. \A r \in Streams : pc'[r] = "ended" <=> (pc[r] = "ended" \/ r = s)
  BY <1>1, <1>2
<1>5. /\ Ended(Streams \ Failed) \in SUBSET Streams /\ Ended(Failed) \in SUBSET Streams
      /\ s \notin Ended(Streams \ Failed) /\ s \notin Ended(Failed)
  BY <1>1, <1>3 DEF Ended
<1>6. req' = Cardinality(Started') /\ printed' \in Nat \X Nat /\ ReportConsistent'
  BY <1>1, <1>3 DEF IInv, Counters, Started, ReportConsistent
<1>7. /\ ok = Cardinality(Ended(Streams \ Failed)) /\ nook = Cardinality(Ended(Failed))
      /\ lok <= ok /\ lnook <= nook
  BY DEF IInv, Counters
<1>8. CASE s \in Failed
  <2>1. nook' = nook + 1 /\ ok' = ok
    <3>1. noOk[super[s]]
      BY <1>1, <1>8 DEF IInv, SuperTrue, HasSuper
    <3> QED
      BY <3>1 DEF Count
  <2>2. Ended(Streams \ Failed)' = Ended(Streams \ Failed) /\ Ended(Failed)' = Ended(Failed) \cup {s}
    BY <1>3, <1>4, <1>8 DEF Ended
  <2>3. Cardinality(Ended(Failed)') = Cardinality(Ended(Failed)) + 1
    BY <1>5, <2>2, StreamsFinite, FS_AddElement
  <2>4. /\ ok' = Cardinality(Ended(Streams \ Failed)') /\ nook' = Cardinality(Ended(Failed)')
    BY <1>7, <2>1, <2>2, <2>3
  <2>5. lok' <= ok' /\ lnook' <= nook'
    BY <1>1, <1>2, <1>7, <2>1
  <2> QED
    BY <1>6, <2>4, <2>5 DEF Counters, Started
<1>9. CASE s \notin Failed
  <2>1. ok' = ok + 1 /\ nook' = nook
    <3>1. ~ noOk[super[s]]
      BY <1>1, <1>9 DEF IInv, SuperTrue, HasSuper
    <3> QED
      BY <3>1 DEF Count
  <2>2. Ended(Streams \ Failed)' = Ended(Streams \ Failed) \cup {s} /\ Ended(Failed)' = Ended(Failed)
    BY <1>3, <1>4, <1>9 DEF Ended
  <2>3. Cardinality(Ended(Streams \ Failed)') = Cardinality(Ended(Streams \ Failed)) + 1
    BY <1>5, <2>2, StreamsFinite, FS_AddElement
  <2>4. /\ ok' = Cardinality(Ended(Streams \ Failed)') /\ nook' = Cardinality(Ended(Failed)')
    BY <1>7, <2>1, <2>2, <2>3
  <2>5. lok' <= ok' /\ lnook' <= nook'
    BY <1>1, <1>2, <1>7, <2>1
  <2> QED
    BY <1>6, <2>4, <2>5 DEF Counters, Started
<1> QED
  BY <1>8, <1>9

(* What has ended is the sum of the two counters, and it has started.      *)
LEMMA EndedSum ==
  ASSUME IInv
  PROVE  ok + nook = Cardinality(Ended(Streams)) /\ ok + nook <= req
<1> DEFINE A == Ended(Streams \ Failed)
           B == Ended(Failed)
<1>1. /\ A \in SUBSET Streams /\ B \in SUBSET Streams /\ Ended(Streams) = A \cup B /\ A \cap B = {}
      /\ Ended(Streams) \subseteq Started /\ Started \in SUBSET Streams /\ A \cup B \in SUBSET Streams
  BY DEF Ended, Failed, Started
<1>2. ok = Cardinality(A) /\ nook = Cardinality(B) /\ req = Cardinality(Started)
  BY DEF IInv, Counters, Started
<1> HIDE DEF A, B
<1>3. IsFiniteSet(A) /\ IsFiniteSet(B) /\ Cardinality(A) \in Nat /\ Cardinality(B) \in Nat
  BY <1>1, StreamsFinite
<1>4. Cardinality(A \cup B) = Cardinality(A) + Cardinality(B) - Cardinality(A \cap B)
  BY <1>3, FS_Union
<1>5. Cardinality(A \cap B) = 0
  BY <1>1, FS_EmptySet
<1>6. Cardinality(A \cup B) = Cardinality(A) + Cardinality(B)
  BY <1>3, <1>4, <1>5
<1>7. Cardinality(Ended(Streams)) <= Cardinality(Started)
  BY <1>1, StreamsFinite, FS_Subset
<1> QED
  BY <1>1, <1>2, <1>6, <1>7

LEMMA CountersReport ==
  ASSUME IInv, SuperRun
  PROVE  Counters'
<1>1. UNCHANGED <<pc, happened, ok, nook, req>>
  BY DEF SuperRun, superVars
<1>2. Started' = Started /\ Failed' = Failed
  BY <1>1 DEF Started, Failed
<1>3. Ended(Streams \ Failed)' = Ended(Streams \ Failed) /\ Ended(Failed)' = Ended(Failed)
  BY <1>1, <1>2 DEF Ended
<1>4. /\ ok' = Cardinality(Ended(Streams \ Failed)') /\ nook' = Cardinality(Ended(Failed)')
      /\ req' = Cardinality(Started')
  BY <1>1, <1>2, <1>3 DEF IInv, Counters, Started
<1>5. /\ {ok, nook, req, lok, lnook} \subseteq Nat /\ lok <= ok /\ lnook <= nook
      /\ printed \in Nat \X Nat /\ ReportConsistent
  BY DEF IInv, TypeOK, Counters
<1>6. lok' <= ok' /\ lnook' <= nook'
  <2>1. (lok' = lok \/ lok' = ok) /\ (lnook' = lnook \/ lnook' = nook)
    BY DEF SuperRun, LoadCounters
  <2> QED
    BY <1>1, <1>5, <2>1
<1>7. printed' \in Nat \X Nat /\ ReportConsistent'
  <2>1. CASE printed' = printed
    BY <1>5, <2>1 DEF ReportConsistent
  <2>2. CASE printed' = <<lok + lnook, req>>
    <3>1. ok + nook <= req
      BY EndedSum
    <3>2. lok + lnook \in Nat /\ req \in Nat /\ lok + lnook <= req
      BY <1>5, <3>1
    <3> QED
      BY <2>2, <3>2 DEF ReportConsistent
  <2> QED
    BY <2>1, <2>2 DEF SuperRun, LoadCounters
<1> QED
  BY <1>4, <1>6, <1>7 DEF Counters, Started

LEMMA CountersStep ==
  ASSUME IInv, [Next]_vars
  PROVE  Counters'
<1>0. pc \in [Streams -> {"new", "open", "end", "count", "ended"}]
  BY Facts
<1>a. ASSUME UNCHANGED <<ok, nook, req, lok, lnook, printed, happened>>,
             \A r \in Streams : /\ pc'[r] = "new" <=> pc[r] = "new"
                                /\ pc'[r] = "ended" <=> pc[r] = "ended"
      PROVE  Counters'
  <2>1. Started' = Started /\ Failed' = Failed /\ Failed \subseteq Streams
    BY <1>a DEF Started, Failed
  <2>2. Ended(Streams \ Failed)' = Ended(Streams \ Failed) /\ Ended(Failed)' = Ended(Failed)
    BY <1>a, <2>1 DEF Ended
  <2> QED
    BY <1>a, <2>1, <2>2, CountersFrame
<1>1. CASE PhoutRun
  BY <1>1, <1>a DEF PhoutRun, TakeState, WriteLine, WriteFails, PhoutReturns, superVars, reportVars
<1>2. CASE SuperRun
  BY <1>2, CountersReport
<1>3. CASE Close
  BY <1>3, <1>a DEF Close, superVars, reportVars
<1>4. ASSUME NEW s \in Streams, Stream(s) PROVE Counters'
  <2>1. CASE EndPhout(s)
    <3>1. /\ UNCHANGED <<ok, nook, req, lok, lnook, printed, happened>>
          /\ pc[s] = "end" /\ pc' = [pc EXCEPT ![s] = "count"]
      BY <2>1 DEF EndPhout, Goto, superVars, reportVars
    <3>2. \A r \in Streams : /\ pc'[r] = "new" <=> pc[r] = "new"
                             /\ pc'[r] = "ended" <=> pc[r] = "ended"
      BY <1>0, <3>1
    <3> QED
      BY <1>a, <3>1, <3>2
  <2> QED
    BY <1>4, <2>1, CountersAcquire, CountersTell, CountersCount DEF Stream
<1>5. CASE UNCHANGED vars
  BY <1>5, <1>a DEF vars, superVars, reportVars
<1> QED
  BY <1>1, <1>2, <1>3, <1>4, <1>5 DEF Next


-----------------------------------------------------------------------------
(* Types.                                                                  *)

PCs == {"new", "open", "end", "count", "ended"}

(* A step that does not make an object.                                    *)
LEMMA TypeFrame ==
  ASSUME IInv, UNCHANGED <<phout, super, tag>>, pc' \in [Streams -> PCs],
         seen' \in Seq(SUBSET Events), Len(seen') = Len(seen),
         noOk' \in Seq(BOOLEAN), Len(noOk') = Len(noOk),
         spool' \in Seq(1 .. Len(noOk)), ppool' \in Seq(1 .. Len(seen)),
         ch' \in Seq(1 .. Len(seen)), Len(ch') <= PhoutCap, writing' \in {0} \cup 1 .. Len(seen),
         closed' \in BOOLEAN, final' \in BOOLEAN, prun' \in {"run", "done", "failed"},
         srun' \in {"run", "nook", "req", "done"},
         {ok', nook', req', lok', lnook', reports'} \subseteq Nat
  PROVE  TypeOK'
<1>1. PhoutObjects' = 1 .. Len(seen) /\ SuperObjects' = 1 .. Len(noOk)
  BY LenProperties DEF PhoutObjects, SuperObjects
<1>2. /\ phout' \in [Streams -> {0} \cup 1 .. Len(seen)]
      /\ super' \in [Streams -> {0} \cup 1 .. Len(noOk)]
      /\ tag' \in Seq(Streams) /\ Len(tag') = Len(seen)
  BY Facts
<1>3. {closed', final'} \subseteq BOOLEAN
  OBVIOUS
<1> QED
  BY <1>1, <1>2, <1>3, Zenon DEF TypeOK, PCs

LEMMA TypeNow ==
  ASSUME IInv
  PROVE  /\ pc \in [Streams -> PCs] /\ seen \in Seq(SUBSET Events) /\ noOk \in Seq(BOOLEAN)
         /\ spool \in Seq(1 .. Len(noOk)) /\ ppool \in Seq(1 .. Len(seen))
         /\ ch \in Seq(1 .. Len(seen)) /\ Len(ch) <= PhoutCap /\ writing \in {0} \cup 1 .. Len(seen)
         /\ closed \in BOOLEAN /\ final \in BOOLEAN /\ prun \in {"run", "done", "failed"}
         /\ srun \in {"run", "nook", "req", "done"}
         /\ {ok, nook, req, lok, lnook, reports} \subseteq Nat /\ Len(ch) \in Nat
<1>1. {closed, final} \subseteq BOOLEAN
  BY DEF IInv, TypeOK
<1>2. closed \in BOOLEAN /\ final \in BOOLEAN
  BY <1>1, Zenon
<1>3. Len(ch) \in Nat
  BY Facts, LenProperties
<1>4. /\ Len(ch) <= PhoutCap /\ prun \in {"run", "done", "failed"} /\ srun \in {"run", "nook", "req", "done"}
      /\ {ok, nook, req, lok, lnook, reports} \subseteq Nat
  BY DEF IInv, TypeOK
<1> QED
  BY <1>2, <1>3, <1>4, Facts, Zenon DEF PCs

LEMMA TypeAcquire ==
  ASSUME IInv, NEW s \in Streams, Acquire(s)
  PROVE  TypeOK'
<1>1. AcquireSuper(s)
  BY DEF Acquire
<1>2. PICK o \in 1 .. Len(seen') :
           /\ phout' = [phout EXCEPT ![s] = o]
           /\ seen' \in Seq(SUBSET Events) /\ tag' \in Seq(Streams) /\ Len(tag') = Len(seen')
           /\ Len(seen) <= Len(seen') /\ Len(seen') \in Nat /\ ppool' \in Seq(1 .. Len(seen'))
  BY AcquirePhoutTakes, Zenon
<1>3. PICK p \in 1 .. Len(noOk') :
           /\ super' = [super EXCEPT ![s] = p]
           /\ noOk' \in Seq(BOOLEAN) /\ Len(noOk) <= Len(noOk') /\ Len(noOk') \in Nat
           /\ spool' \in Seq(1 .. Len(noOk'))
  BY <1>1, AcquireSuperTakes, Zenon
<1>4. /\ pc' = [pc EXCEPT ![s] = "open"] /\ req' = req + 1
      /\ UNCHANGED <<ch, writing, ok, nook, closed, prun, srun, lok, lnook, reports, final>>
  BY DEF Acquire, AcquireSuper, Goto, reportVars
<1>5. PhoutObjects' = 1 .. Len(seen') /\ SuperObjects' = 1 .. Len(noOk')
  BY <1>2, <1>3, LenProperties DEF PhoutObjects, SuperObjects
<1>6. 1 .. Len(seen) \subseteq 1 .. Len(seen') /\ 1 .. Len(noOk) \subseteq 1 .. Len(noOk')
  <2>1. Len(seen) \in Nat /\ Len(noOk) \in Nat
    BY Facts
  <2>2. Len(seen) <= Len(seen') /\ Len(seen') \in Nat /\ Len(noOk) <= Len(noOk') /\ Len(noOk') \in Nat
    BY <1>2, <1>3, Zenon
  <2> QED
    BY <2>1, <2>2
<1>7. phout' \in [Streams -> {0} \cup 1 .. Len(seen')] /\ super' \in [Streams -> {0} \cup 1 .. Len(noOk')]
  <2>1. phout \in [Streams -> {0} \cup 1 .. Len(seen)] /\ super \in [Streams -> {0} \cup 1 .. Len(noOk)]
    BY Facts
  <2>2. phout' = [phout EXCEPT ![s] = o] /\ super' = [super EXCEPT ![s] = p]
    BY <1>2, <1>3, Zenon
  <2> QED
    BY <1>6, <2>1, <2>2
<1>8. /\ pc' \in [Streams -> PCs] /\ {ok', nook', req', lok', lnook', reports'} \subseteq Nat
      /\ prun' \in {"run", "done", "failed"} /\ srun' \in {"run", "nook", "req", "done"} /\ Len(ch') <= PhoutCap
  BY <1>4, TypeNow DEF PCs
<1>9. ch' \in Seq(1 .. Len(seen')) /\ writing' \in {0} \cup 1 .. Len(seen')
  BY <1>4, <1>6, TypeNow, SeqMonotonic
<1>10. closed' \in BOOLEAN /\ final' \in BOOLEAN
  BY <1>4, TypeNow, Zenon
<1>11. {closed', final'} \subseteq BOOLEAN
  BY <1>10, Zenon
<1> QED
  BY <1>2, <1>3, <1>5, <1>7, <1>8, <1>9, <1>11, Zenon DEF TypeOK, PCs

LEMMA TypeTell ==
  ASSUME IInv, NEW s \in Streams, NEW told \in Outcomes, Tell(s, told)
  PROVE  TypeOK'
<1>1. PICK o, p, b, c : /\ o = phout[s] /\ p = super[s] /\ b \in BOOLEAN
                        /\ b = (noOk[super[s]] \/ told \ {"status", "grpc_0"} # {})
                        /\ c = seen[phout[s]] \cup told
  <2>1. \E b \in BOOLEAN : b = (noOk[super[s]] \/ told \ {"status", "grpc_0"} # {})
    OBVIOUS
  <2> QED
    BY <2>1, Zenon
<1>2. /\ pc[s] = "open" /\ pc' = [pc EXCEPT ![s] = "end"]
      /\ UNCHANGED <<phout, super, tag, ppool, ch, writing, spool, ok, nook, req, closed, prun,
                     srun, lok, lnook, reports, final>>
  BY DEF Tell, Goto, reportVars
<1>3. o \in 1 .. Len(seen) /\ p \in 1 .. Len(noOk) /\ seen \in Seq(SUBSET Events)
      /\ noOk \in Seq(BOOLEAN) /\ DOMAIN seen = 1 .. Len(seen) /\ DOMAIN noOk = 1 .. Len(noOk)
  <2>1. HasPhout(s) /\ HasSuper(s)
    BY <1>2 DEF HasPhout, HasSuper
  <2> QED
    BY <1>1, <2>1, Facts DEF IInv, PhoutOwned, SuperOwned, PhoutObjects, SuperObjects
<1>4. seen' = [seen EXCEPT ![o] = c]
  BY <1>1, <1>3, Zenon DEF Tell
<1>5. noOk' = [noOk EXCEPT ![p] = b]
  BY <1>1, <1>3, Zenon DEF Tell
<1>6. c \in SUBSET Events
  BY <1>1, <1>3, TagStream, OutcomesAssumption
<1>7. seen' \in Seq(SUBSET Events) /\ Len(seen') = Len(seen)
  BY <1>3, <1>4, <1>6, ExceptSeq
<1>8. noOk' \in Seq(BOOLEAN) /\ Len(noOk') = Len(noOk)
  <2>1. b \in BOOLEAN
    BY <1>1, Zenon
  <2> QED
    BY <1>3, <1>5, <2>1, ExceptSeq
<1>9. pc' \in [Streams -> PCs]
  BY <1>2, TypeNow DEF PCs
<1>10. /\ UNCHANGED <<phout, super, tag>> /\ spool' \in Seq(1 .. Len(noOk)) /\ ppool' \in Seq(1 .. Len(seen))
       /\ ch' \in Seq(1 .. Len(seen)) /\ Len(ch') <= PhoutCap /\ writing' \in {0} \cup 1 .. Len(seen)
       /\ closed' \in BOOLEAN /\ final' \in BOOLEAN /\ prun' \in {"run", "done", "failed"}
       /\ srun' \in {"run", "nook", "req", "done"}
       /\ {ok', nook', req', lok', lnook', reports'} \subseteq Nat
  BY <1>2, TypeNow, Zenon
<1> QED
  BY <1>7, <1>8, <1>9, <1>10, TypeFrame, Zenon

LEMMA TypeEnd ==
  ASSUME IInv, NEW s \in Streams, EndPhout(s) \/ Count(s)
  PROVE  TypeOK'
<1>1. /\ pc' \in [Streams -> PCs] /\ pc[s] \in {"end", "count"}
      /\ UNCHANGED <<phout, super, seen, noOk, tag, ppool, writing, closed, prun, srun, final>>
      /\ UNCHANGED <<req, lok, lnook, reports>>
  BY TypeNow DEF EndPhout, Count, Goto, PCs, superVars, phoutVars, reportVars
<1>2. ch' \in Seq(1 .. Len(seen)) /\ Len(ch') <= PhoutCap
  <2>1. CASE EndPhout(s)
    <3>1. phout[s] \in 1 .. Len(seen) /\ ch \in Seq(1 .. Len(seen))
      BY <2>1, Facts DEF EndPhout, HasPhout, IInv, PhoutOwned
    <3>2. ch' = Append(ch, phout[s]) /\ Len(ch) < PhoutCap
      BY <2>1 DEF EndPhout
    <3>3. ch' \in Seq(1 .. Len(seen)) /\ Len(ch') = Len(ch) + 1 /\ Len(ch) \in Nat
      BY <3>1, <3>2, AppendProperties, LenProperties
    <3> QED
      BY <3>2, <3>3, BoundsAssumption
  <2>2. CASE Count(s)
    BY <2>2, TypeNow DEF Count, phoutVars
  <2> QED
    BY <2>1, <2>2
<1>3. spool' \in Seq(1 .. Len(noOk)) /\ ok' \in Nat /\ nook' \in Nat
  <2>1. CASE EndPhout(s)
    BY <2>1, TypeNow DEF EndPhout, superVars
  <2>2. CASE Count(s)
    <3>1. super[s] \in 1 .. Len(noOk) /\ spool \in Seq(1 .. Len(noOk)) /\ spool' = Append(spool, super[s])
      BY <2>2, Facts DEF Count, HasSuper, IInv, SuperOwned
    <3>2. (ok' = ok \/ ok' = ok + 1) /\ (nook' = nook \/ nook' = nook + 1)
      BY <2>2 DEF Count
    <3> QED
      BY <3>1, <3>2, TypeNow, AppendProperties
  <2> QED
    BY <2>1, <2>2
<1>4. /\ seen' \in Seq(SUBSET Events) /\ Len(seen') = Len(seen)
      /\ noOk' \in Seq(BOOLEAN) /\ Len(noOk') = Len(noOk)
      /\ UNCHANGED <<phout, super, tag>> /\ ppool' \in Seq(1 .. Len(seen))
      /\ writing' \in {0} \cup 1 .. Len(seen)
      /\ closed' \in BOOLEAN /\ final' \in BOOLEAN /\ prun' \in {"run", "done", "failed"}
      /\ srun' \in {"run", "nook", "req", "done"}
  BY <1>1, TypeNow, Zenon
<1>5. {ok', nook', req', lok', lnook', reports'} \subseteq Nat
  BY <1>1, <1>3, TypeNow
<1> QED
  BY <1>1, <1>2, <1>3, <1>4, <1>5, TypeFrame, Zenon

LEMMA TypePhout ==
  ASSUME IInv, PhoutRun
  PROVE  TypeOK'
<1>1. /\ UNCHANGED <<pc, phout, super, seen, tag, noOk, spool, ok, nook, req, closed, srun, lok, lnook,
                     reports, final>>
  BY DEF PhoutRun, TakeState, WriteLine, WriteFails, PhoutReturns, superVars, phoutVars, reportVars
<1>2. /\ ppool' \in Seq(1 .. Len(seen)) /\ ch' \in Seq(1 .. Len(seen)) /\ Len(ch') <= PhoutCap
      /\ writing' \in {0} \cup 1 .. Len(seen) /\ prun' \in {"run", "done", "failed"}
  <2>1. CASE TakeState
    <3>1. ch # << >> /\ writing' = Head(ch) /\ ch' = Tail(ch) /\ ppool' = ppool /\ prun' = prun
      BY <2>1 DEF TakeState
    <3>2. ch' \in Seq(1 .. Len(seen)) /\ writing' \in 1 .. Len(seen) /\ Len(ch') <= Len(ch)
      BY <3>1, Facts, Dequeue DEF IInv, PhoutOwned
    <3>3. Len(ch') \in Nat
      BY <3>2, LenProperties
    <3>4. Len(ch') <= PhoutCap
      <4>1. Len(ch) \in Nat /\ Len(ch) <= PhoutCap /\ PhoutCap \in Nat
        BY TypeNow, BoundsAssumption
      <4> QED
        BY <3>2, <3>3, <4>1
    <3> QED
      BY <3>1, <3>2, <3>4, TypeNow, Zenon
  <2>2. CASE WriteLine
    <3>1. /\ writing # 0 /\ ppool' = Append(ppool, writing) /\ writing' = 0 /\ ch' = ch /\ prun' = prun
      BY <2>2 DEF WriteLine
    <3> QED
      BY <3>1, TypeNow, AppendProperties
  <2>3. CASE PhoutReturns
    BY <2>3, TypeNow DEF PhoutReturns, phoutVars
  <2>4. CASE WriteFails
    BY <2>4, TypeNow DEF WriteFails
  <2> QED
    BY <2>1, <2>2, <2>3, <2>4 DEF PhoutRun
<1>3. /\ pc' \in [Streams -> PCs] /\ seen' \in Seq(SUBSET Events) /\ Len(seen') = Len(seen)
      /\ noOk' \in Seq(BOOLEAN) /\ Len(noOk') = Len(noOk) /\ spool' \in Seq(1 .. Len(noOk))
      /\ UNCHANGED <<phout, super, tag>>
      /\ closed' \in BOOLEAN /\ final' \in BOOLEAN /\ srun' \in {"run", "nook", "req", "done"}
      /\ {ok', nook', req', lok', lnook', reports'} \subseteq Nat
  BY <1>1, TypeNow, Zenon
<1> QED
  BY <1>2, <1>3, TypeFrame, Zenon

LEMMA TypeReport ==
  ASSUME IInv, SuperRun \/ Close \/ UNCHANGED vars
  PROVE  TypeOK'
<1>1. UNCHANGED <<pc, phout, super, seen, tag, ppool, ch, writing, noOk, spool, ok, nook, req, prun>>
  BY DEF SuperRun, Close, vars, superVars, phoutVars
<1>2. /\ closed' = closed \/ closed' = TRUE
      /\ final' = final \/ final' = TRUE
  BY Zenon DEF SuperRun, LoadCounters, StartReport, Close, vars, reportVars
<1>3. closed' \in BOOLEAN /\ final' \in BOOLEAN
  BY <1>2, TypeNow, Zenon
<1>4. /\ srun' \in {"run", "nook", "req", "done"}
      /\ lok' \in {lok, ok} /\ lnook' \in {lnook, nook} /\ reports' \in {reports, reports + 1}
  <2>1. CASE SuperRun
    BY <2>1 DEF SuperRun, LoadCounters, StartReport
  <2>2. CASE Close \/ UNCHANGED vars
    BY <2>2, TypeNow DEF Close, vars, reportVars
  <2> QED
    BY <2>1, <2>2
<1>5. {ok', nook', req', lok', lnook', reports'} \subseteq Nat
  BY <1>1, <1>4, TypeNow
<1>6. /\ pc' \in [Streams -> PCs] /\ seen' \in Seq(SUBSET Events) /\ Len(seen') = Len(seen)
      /\ noOk' \in Seq(BOOLEAN) /\ Len(noOk') = Len(noOk) /\ spool' \in Seq(1 .. Len(noOk))
      /\ UNCHANGED <<phout, super, tag>> /\ ppool' \in Seq(1 .. Len(seen))
      /\ ch' \in Seq(1 .. Len(seen)) /\ Len(ch') <= PhoutCap /\ writing' \in {0} \cup 1 .. Len(seen)
      /\ prun' \in {"run", "done", "failed"}
  BY <1>1, TypeNow, Zenon
<1> QED
  BY <1>3, <1>4, <1>5, <1>6, TypeFrame, Zenon

LEMMA TypeStep ==
  ASSUME IInv, [Next]_vars
  PROVE  TypeOK'
<1>1. ASSUME NEW s \in Streams, Stream(s) PROVE TypeOK'
  BY <1>1, TypeAcquire, TypeTell, TypeEnd DEF Stream
<1> QED
  BY <1>1, TypePhout, TypeReport DEF Next

-----------------------------------------------------------------------------
(* The invariant, and the theorems.                                        *)

LEMMA InitIInv == Init => IInv
<1> SUFFICES ASSUME Init PROVE IInv
  OBVIOUS
<1>1. TypeOK
  <2>1. /\ seen = << >> /\ tag = << >> /\ noOk = << >> /\ ppool = << >> /\ spool = << >> /\ ch = << >>
        /\ writing = 0 /\ pc = [s \in Streams |-> "new"]
        /\ phout = [s \in Streams |-> 0] /\ super = [s \in Streams |-> 0] /\ prun = "run" /\ srun = "run"
        /\ {ok, nook, req, lok, lnook, reports} \subseteq Nat
    BY DEF Init
  <2>2. {closed, final} \subseteq BOOLEAN
    BY Zenon DEF Init
  <2>3. /\ seen \in Seq(SUBSET Events) /\ tag \in Seq(Streams) /\ noOk \in Seq(BOOLEAN)
        /\ ppool \in Seq(PhoutObjects) /\ spool \in Seq(SuperObjects) /\ ch \in Seq(PhoutObjects)
        /\ Len(tag) = Len(seen) /\ Len(ch) = 0
    BY <2>1, EmptySeq
  <2>4. Len(ch) <= PhoutCap
    BY <2>3, BoundsAssumption
  <2>5. /\ pc \in [Streams -> {"new", "open", "end", "count", "ended"}]
        /\ phout \in [Streams -> {0} \cup PhoutObjects] /\ super \in [Streams -> {0} \cup SuperObjects]
        /\ writing \in {0} \cup PhoutObjects
        /\ prun \in {"run", "done", "failed"} /\ srun \in {"run", "nook", "req", "done"}
    BY <2>1
  <2> QED
    BY <2>1, <2>2, <2>3, <2>4, <2>5, Zenon DEF TypeOK
<1>2. PhoutOwned /\ PhoutTrue
  <2>1. /\ ppool = << >> /\ ch = << >> /\ writing = 0 /\ \A s \in Streams : ~ HasPhout(s)
    BY DEF Init, HasPhout
  <2>2. \A e : e \notin Range(<< >>)
    BY DEF Range
  <2>3. IsInjective(<< >>)
    BY DEF IsInjective
  <2>4. \A o : ~ Waits(o)
    BY <2>1, <2>2 DEF Waits
  <2> QED
    BY <2>1, <2>2, <2>3, <2>4 DEF PhoutOwned, PhoutTrue
<1>3. NoLineYet /\ Happened /\ LinesTrue
  BY DEF Init, NoLineYet, Happened, LinesTrue, Grpc
<1>4. SuperOwned /\ SuperTrue
  <2>1. spool = << >> /\ \A s \in Streams : ~ HasSuper(s)
    BY DEF Init, HasSuper
  <2>2. IsInjective(<< >>)
    BY DEF IsInjective
  <2> QED
    BY <2>1, <2>2 DEF SuperOwned, SuperTrue
<1>5. Counters
  <2>1. Ended(Streams \ Failed) = {} /\ Ended(Failed) = {} /\ {s \in Streams : pc[s] # "new"} = {}
    BY DEF Init, Ended, Failed
  <2>2. ok = 0 /\ nook = 0 /\ req = 0 /\ lok = 0 /\ lnook = 0 /\ printed = <<0, 0>>
    BY DEF Init
  <2> QED
    BY <2>1, <2>2, FS_EmptySet DEF Counters, ReportConsistent
<1> QED
  BY <1>1, <1>2, <1>3, <1>4, <1>5 DEF IInv

LEMMA StepIInv == IInv /\ [Next]_vars => IInv'
  BY TypeStep, PhoutStep, SuperStep, CountersStep DEF IInv, PhoutInv, SuperInv

LEMMA Invariance == Spec => []IInv
  BY InitIInv, StepIInv, PTL DEF Spec

(* A line of the phout file says what happened to its own stream, and no   *)
(* stream has two lines, for any number of streams, any outcomes and any   *)
(* capacity of the channel between the streams and the writer.             *)
THEOREM LinesSafe == Spec => []LinesTrue
<1>1. IInv => LinesTrue
  BY DEF IInv
<1> QED
  BY <1>1, Invariance, PTL

(* A stream whose line says grpc_0 has not failed.                         *)
LEMMA GoodNotFailed ==
  ASSUME IInv
  PROVE  Good \cap Failed = {}
<1> SUFFICES ASSUME NEW s \in Streams, Code(happened[s]) = "grpc_0", NEW e \in happened[s],
                    e \notin {"status", "grpc_0"}
             PROVE  FALSE
  BY DEF Good, Failed
<1> DEFINE told == happened[s]
<1>1. told \in SUBSET Events /\ ~ Grpc \subseteq told
  BY DEF IInv, Happened
<1> HIDE DEF told
<1>2. told \cap {"client_error", "rst", "goaway"} = {}
  <2>1. CASE "client_error" \in told
    BY <2>1 DEF Code, told
  <2>2. CASE "client_error" \notin told /\ "rst" \in told
    BY <2>2 DEF Code, told
  <2>3. CASE told \cap {"client_error", "rst"} = {} /\ "goaway" \in told
    BY <2>3 DEF Code, told
  <2> QED
    BY <2>1, <2>2, <2>3
<1>3. e = "grpc_err"
  BY <1>1, <1>2 DEF Events, told
<1>4. "grpc_0" \notin told /\ "grpc_err" \in told
  BY <1>1, <1>3 DEF Grpc, told
<1>5. (CHOOSE x \in Grpc : x \in told) = "grpc_err"
  BY <1>4 DEF Grpc
<1>6. Code(told) \in {"grpc_err", "http2_1"}
  BY <1>2, <1>5 DEF Code
<1> QED
  BY <1>6 DEF told

(* The counters of the supersimple reporter and the codes of the phout     *)
(* lines agree at every moment, and no report has more streams ended than  *)
(* started, however the reads of the counters fall among their updates.    *)
THEOREM ReportsSafe == Spec => []Inv
<1>1. ASSUME IInv PROVE Inv
  <2>1. TypeOK /\ ReportConsistent /\ Cardinality(Ended(Failed)) = nook
    BY <1>1 DEF IInv, Counters
  <2>2. ok + nook = Cardinality(Ended(Streams))
    BY <1>1, EndedSum
  <2>3. Cardinality(Ended(Good)) <= ok
    <3>1. Ended(Good) \subseteq Ended(Streams \ Failed) /\ Ended(Streams \ Failed) \in SUBSET Streams
      BY <1>1, GoodNotFailed DEF Ended, Good
    <3> QED
      BY <1>1, <3>1, StreamsFinite, FS_Subset DEF IInv, Counters
  <2> QED
    BY <2>1, <2>2, <2>3 DEF Inv, ReportsAgree
<1> QED
  BY <1>1, Invariance, PTL
=============================================================================
