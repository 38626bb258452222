-------------------------- MODULE ModelLoaderProofs --------------------------
(***************************************************************************)
(* Proofs about ModelLoader, for every set of well-formed files and every   *)
(* number of calls of load() and unload(): first about the resources, which *)
(* need nothing of what the parser reads; then that the parser reads what   *)
(* the file has, and that the model tells it.                               *)
(***************************************************************************)
EXTENDS ModelLoader, SequenceTheorems, DataLemmas

-----------------------------------------------------------------------------
\* The inductive invariant.

\* The steps of a call of load(), and those of them that hold a new mapping.
Holding == {"metadata", "tensors", "install"}
Calling == {"stat", "magic", "map"} \cup Holding

\* The region of the model, if there is one.
OfModel == {instance.map} \ {0}

\* Mappings are numbered by their calls.
CountInv ==
  /\ pc \in Calling \cup {"idle", "crashed", "garbage"}
  /\ loads \in Nat
  /\ maps \subseteq 1..loads
  /\ instance.map \in 0..loads
  /\ pc \in Calling => instance.map < loads

\* The model has its region, and load() does not touch the model before the
\* end.
ModelInv ==
  /\ OfModel \subseteq maps
  /\ instance # NoModel => instance.map # 0
  /\ pc \in Calling => instance = before
  /\ pc \in Holding => loads \in maps

\* What else is mapped belongs to the call that is under way, unless an earlier
\* one has ended with an exception.
ResourceInv ==
  /\ pc = "idle" => ~fd
  /\ ~thrown /\ pc \in (Calling \ Holding) \cup {"idle"} => maps = OfModel
  /\ ~thrown /\ pc \in Holding => maps = OfModel \cup {loads}

IInv == CountInv /\ ModelInv /\ ResourceInv

-----------------------------------------------------------------------------
\* Nothing is loaded and nothing is mapped at the start.
LEMMA InitIInv == Init => IInv
<1> SUFFICES ASSUME Init PROVE IInv
  OBVIOUS
<1>1. instance = NoModel /\ instance.map = 0 /\ maps = {} /\ OfModel = {} /\ loads = 0
      /\ pc = "idle" /\ ~fd
  BY DEF Init, NoModel, OfModel
<1>2. CountInv
  BY <1>1 DEF CountInv, Calling, Holding
<1>3. ModelInv /\ ResourceInv
  BY <1>1 DEF ModelInv, ResourceInv, Calling, Holding
<1> QED BY <1>2, <1>3 DEF IInv

\* Every step of load(), unload() and the calls of the model keeps the
\* invariant.
LEMMA StepIInv == IInv /\ [Next]_vars => IInv'
<1> SUFFICES ASSUME IInv, [Next]_vars PROVE IInv'
  OBVIOUS
<1>0. CountInv /\ ModelInv /\ ResourceInv
  BY DEF IInv
<1> USE DEF CountInv, ModelInv, ResourceInv, OfModel, Calling, Holding, IInv, parser, outcome, model
<1>1. CASE Load
  <2>1. /\ pc = "idle" /\ loads' = loads + 1
        /\ before' = instance /\ instance' = instance /\ maps' = maps
    BY <1>1 DEF Load, WhileLoading
  <2>2. CASE pc' = "stat" /\ UNCHANGED thrown
    BY <1>0, <2>1, <2>2
  <2>3. Leave("false") => pc' = "idle" /\ ~fd' /\ (thrown => thrown')
    BY DEF Leave
  <2>4. CASE Leave("false")
    BY <1>0, <2>1, <2>3, <2>4
  <2> QED BY <1>1, <2>2, <2>4 DEF Load
<1>2. CASE Stat \/ CheckMagic
  <2>1. /\ pc \in {"stat", "magic"}
        /\ UNCHANGED <<maps, instance, loads, before>>
    BY <1>2 DEF Stat, CheckMagic
  <2>2. \/ pc' \in {"magic", "map"} /\ UNCHANGED <<fd, thrown>>
        \/ pc' = "idle" /\ ~fd' /\ (thrown => thrown')
    BY <1>2 DEF Stat, CheckMagic, GoOn, Leave
  <2> QED BY <1>0, <2>1, <2>2
<1>3. CASE Map
  <2>1. pc = "map" /\ UNCHANGED <<fd, thrown, instance, loads, before>>
    BY <1>3 DEF Map, GoOn
  <2>2. \/ maps' = maps \cup {loads} /\ pc' = "metadata"
        \/ UNCHANGED maps /\ pc' = "crashed"
    BY <1>3 DEF Map, GoOn
  <2>3. loads \in 1..loads
    BY <1>0, <2>1
  <2> QED BY <1>0, <2>1, <2>2, <2>3
<1>4. CASE ParseMetadata \/ MetadataEnd \/ ParseTensorInfo
  <2>1. pc \in {"metadata", "tensors"} /\ UNCHANGED <<fd, thrown, instance, loads, before, maps>>
    BY <1>4 DEF ParseMetadata, MetadataEnd, ParseTensorInfo
  <2>2. pc' \in {"metadata", "tensors", "garbage"}
    BY <1>4 DEF ParseMetadata, MetadataEnd, ParseTensorInfo
  <2> QED BY <1>0, <2>1, <2>2
<1>5. CASE SetTensorBasePtr
  <2>1. pc = "tensors" /\ UNCHANGED <<maps, instance, loads, before>>
    BY <1>5 DEF SetTensorBasePtr, SetMappedMemory
  <2>2. \/ pc' = "idle" /\ ~fd' /\ thrown'
        \/ pc' = "install" /\ UNCHANGED <<fd, thrown>>
    BY <1>5 DEF SetTensorBasePtr, Leave, GoOn
  <2> QED BY <1>0, <2>1, <2>2
<1>6. CASE Install
  <2>1. CASE CanCreateTensors
    <3>1. /\ pc = "install" /\ pc' = "idle" /\ ~fd' /\ (thrown => thrown')
          /\ maps' = maps \ {instance.map}
          /\ UNCHANGED loads
      BY <1>6, <2>1 DEF Install, Leave, MapsAfterReplace
    <3>2. instance'.map = loads
      BY <1>6, <2>1 DEF Install
    <3>3. loads # 0 /\ instance.map # loads /\ loads \in maps /\ loads \in Nat
      BY <1>0, <3>1
    <3>4. ~thrown => maps = ({instance.map} \ {0}) \cup {loads}
      BY <1>0, <3>1
    <3>5. maps' \subseteq 1..loads /\ loads \in maps'
      BY <1>0, <3>1, <3>3
    <3>6. ~thrown => maps' = {loads}
      <4>1. ASSUME ~thrown PROVE maps \ {instance.map} = {loads}
        <5>1. maps = ({instance.map} \ {0}) \cup {loads}
          BY <3>4, <4>1
        <5> QED BY <3>3, <5>1
      <4> QED BY <3>1, <4>1
    <3>7. loads \in 0..loads
      BY <3>3
    <3> QED BY <3>1, <3>2, <3>3, <3>5, <3>6, <3>7
  <2>2. CASE ~CanCreateTensors
    <3>1. pc' = "crashed" /\ UNCHANGED <<maps, fd, thrown, instance, loads, before>>
      BY <1>6, <2>2 DEF Install, GoOn
    <3> QED BY <1>0, <3>1
  <2> QED BY <2>1, <2>2
<1>7. CASE Unload
  <2>1. /\ pc = "idle" /\ maps' = maps \ {instance.map}
        /\ UNCHANGED <<pc, fd, thrown, loads>>
    BY <1>7 DEF Unload, MapsAfterReplace
  <2>2. instance' = NoModel /\ instance'.map = 0
    BY <1>7 DEF Unload, NoModel
  <2>3. ~thrown => maps' = {}
    BY <1>0, <2>1
  <2>4. maps' \subseteq 1..loads
    BY <1>0, <2>1
  <2>5. 0 \in 0..loads /\ {0} \ {0} = {}
    BY <1>0
  <2> QED BY <1>0, <2>1, <2>2, <2>3, <2>4, <2>5
<1>8. CASE CallAccessor \/ Predict
  <2>1. pc = "idle" /\ UNCHANGED <<maps, fd, thrown, instance, loads, before>>
    BY <1>8 DEF CallAccessor, Predict
  <2>2. pc' \in {"idle", "crashed"}
    BY <1>8, <2>1 DEF CallAccessor, Predict
  <2> QED BY <1>0, <2>1, <2>2
<1>9. CASE UNCHANGED vars
  <2>1. UNCHANGED <<pc, maps, fd, thrown, instance, loads, before>>
    BY <1>9 DEF vars
  <2> QED BY <1>0, <2>1
<1> QED BY <1>1, <1>2, <1>3, <1>4, <1>5, <1>6, <1>7, <1>8, <1>9 DEF Next

\* What is mapped at each point of load(), and for whom.
THEOREM Invariant == Spec => []IInv
BY InitIInv, StepIInv, PTL DEF Spec

\* The tensors of the model always point into a file that is still mapped,
\* whatever calls of load() fail or throw and whichever model is replaced.
THEOREM TensorsMapped == Spec => []NoDanglingTensors
<1>1. IInv => NoDanglingTensors
  BY DEF IInv, ModelInv, OfModel, NoDanglingTensors
<1> QED BY <1>1, Invariant, PTL

\* As long as no call of load() has ended with an exception, nothing but the
\* model's own file stays mapped between the calls, and no descriptor open.
THEOREM CleanupCorrect == Spec => []CleanupOnReturn
<1>1. IInv => CleanupOnReturn
  BY DEF IInv, ResourceInv, OfModel, CleanupOnReturn, Released
<1> QED BY <1>1, Invariant, PTL

\* A load() that returns false or throws leaves the model that was there.
THEOREM FailureKeepsModel == Spec => FailedLoadKeepsModel
<1> DEFINE Kept == (pc # "idle" \/ loads' # loads) /\ pc' = "idle" /\ result' # "loaded"
                     => instance' = before'
<1>1. IInv /\ [Next]_vars => [Kept]_vars
  <2> SUFFICES ASSUME IInv, Next, pc # "idle" \/ loads' # loads, pc' = "idle", result' # "loaded"
               PROVE  instance' = before'
    OBVIOUS
  <2>0. pc \in Calling => instance = before
    BY DEF IInv, ModelInv
  <2>1. CASE Load
    BY <2>1 DEF Load, WhileLoading
  <2>2. CASE Stat \/ CheckMagic \/ Map \/ SetTensorBasePtr
    BY <2>0, <2>2 DEF Stat, CheckMagic, Map, SetTensorBasePtr, GoOn, model, Calling, Holding
  <2>3. CASE ParseMetadata \/ MetadataEnd \/ ParseTensorInfo
    BY <2>0, <2>3 DEF ParseMetadata, MetadataEnd, ParseTensorInfo, model, Calling, Holding
  <2>4. CASE Install
    BY <2>4 DEF Install, Leave, GoOn
  <2>5. CASE Unload \/ CallAccessor \/ Predict
    BY <2>5 DEF Unload, CallAccessor, Predict
  <2> QED BY <2>1, <2>2, <2>3, <2>4, <2>5 DEF Next
<1> QED BY <1>1, Invariant, PTL DEF Spec, FailedLoadKeepsModel

-----------------------------------------------------------------------------
\* Fields on the tape.

\* What fields hold, and fields.
Nums == Int \cup STRING \cup (Int \X STRING) \cup Types
Kinds == Types \cup {"length", "bytes", "dtype", "n_dims", "dim", "ggml_type", "offset", "header"}
AField == [kind : Kinds, width : Nat, num : Nums]

\* A read at offset p finds this field.
Finds(tape, p, x) == Fits(tape, p, x.kind) /\ At(tape, p, x.kind) = x.num

\* The fields of s lie on the tape one after the other, at c[0] = p up to q.
LaidAt(c, tape, p, s, q) ==
  /\ c \in [0..Len(s) -> Nat] /\ c[0] = p /\ c[Len(s)] = q
  /\ \A j \in 1..Len(s) : c[j] = c[j - 1] + s[j].width /\ Finds(tape, c[j - 1], s[j])
Laid(tape, p, s, q) == \E c : LaidAt(c, tape, p, s, q)

\* One field.
LEMMA LaidOne ==
  ASSUME NEW tape, NEW x \in AField, NEW p \in Nat, NEW q \in Nat, Laid(tape, p, <<x>>, q)
  PROVE  q = p + x.width /\ Finds(tape, p, x)
<1> DEFINE s == <<x>>
<1>1. Len(s) = 1 /\ s[1] = x
  OBVIOUS
<1> HIDE DEF s
<1>2. PICK c : LaidAt(c, tape, p, s, q)
  BY DEF Laid, s
<1>3. c[0] = p /\ c[1] = q /\ 1 \in 1..Len(s) /\ 1 - 1 = 0
  BY <1>1, <1>2 DEF LaidAt
<1>4. c[1] = c[1 - 1] + s[1].width /\ Finds(tape, c[1 - 1], s[1])
  BY <1>2, <1>3 DEF LaidAt
<1> QED BY <1>1, <1>3, <1>4

\* What lies there can be cut where two sequences meet.
LEMMA LaidSplit ==
  ASSUME NEW tape, NEW s \in Seq(AField), NEW u \in Seq(AField), NEW p \in Nat, NEW r \in Nat,
         Laid(tape, p, s \o u, r)
  PROVE  \E q \in Nat : Laid(tape, p, s, q) /\ Laid(tape, q, u, r)
<1> DEFINE m == Len(s)
           k == Len(u)
           x == s \o u
<1>1. m \in Nat /\ k \in Nat
  OBVIOUS
<1>2. Len(x) = m + k /\ (\A j \in 1..m : x[j] = s[j]) /\ (\A j \in 1..k : x[m + j] = u[j])
  OBVIOUS
<1> HIDE DEF m, k, x
<1>3. PICK c : LaidAt(c, tape, p, x, r)
  BY DEF Laid, x
<1>4. /\ c \in [0..(m + k) -> Nat] /\ c[0] = p /\ c[m + k] = r
      /\ \A j \in 1..(m + k) : c[j] = c[j - 1] + x[j].width /\ Finds(tape, c[j - 1], x[j])
  BY <1>2, <1>3 DEF LaidAt
<1> DEFINE q == c[m]
           d == [j \in 0..m |-> c[j]]
           e == [j \in 0..k |-> c[m + j]]
<1>5. q \in Nat
  <2>1. m \in 0..(m + k)
    BY <1>1
  <2> QED BY <1>4, <2>1
<1>6. LaidAt(d, tape, p, s, q)
  <2>1. \A j \in 0..m : d[j] = c[j] /\ c[j] \in Nat
    BY <1>1, <1>4
  <2>2. d \in [0..m -> Nat]
    BY <2>1
  <2> HIDE DEF d
  <2>3. 0 \in 0..m /\ m \in 0..m /\ \A j \in 1..m : j \in 0..m /\ j - 1 \in 0..m /\ j \in 1..(m + k)
    BY <1>1
  <2>4. d[0] = p /\ d[m] = q
    BY <1>4, <2>1, <2>3
  <2>5. \A j \in 1..m : d[j] = d[j - 1] + s[j].width /\ Finds(tape, d[j - 1], s[j])
    BY <1>2, <1>4, <2>1, <2>3
  <2> QED BY <2>2, <2>4, <2>5 DEF LaidAt, m
<1>7. LaidAt(e, tape, q, u, r)
  <2>1. \A j \in 0..k : e[j] = c[m + j] /\ c[m + j] \in Nat
    BY <1>1, <1>4
  <2>2. e \in [0..k -> Nat]
    BY <2>1
  <2> HIDE DEF e
  <2>3. 0 \in 0..k /\ k \in 0..k /\ m + 0 = m
    BY <1>1
  <2>4. e[0] = q /\ e[k] = r
    BY <1>4, <2>1, <2>3
  <2>5. ASSUME NEW j \in 1..k PROVE e[j] = e[j - 1] + u[j].width /\ Finds(tape, e[j - 1], u[j])
    <3>1. j \in 0..k /\ j - 1 \in 0..k /\ m + j \in 1..(m + k) /\ (m + j) - 1 = m + (j - 1)
      BY <1>1
    <3>2. e[j] = c[m + j] /\ e[j - 1] = c[(m + j) - 1] /\ u[j] = x[m + j]
      BY <1>2, <2>1, <3>1
    <3> QED BY <1>4, <3>1, <3>2
  <2> QED BY <2>2, <2>4, <2>5 DEF LaidAt, k
<1> QED BY <1>5, <1>6, <1>7 DEF Laid

\* f holds the beginnings of what FlattenSeq makes of ss.
Flattens(f, S, ss) ==
  /\ f \in [1..Len(ss) -> Seq(S)]
  /\ f[1] = ss[1]
  /\ \A i \in 2..Len(ss) : f[i] = f[i - 1] \o ss[i]

\* FlattenSeq, step by step.
LEMMA FlattenSteps ==
  ASSUME NEW S, NEW ss \in Seq(Seq(S)), Len(ss) # 0
  PROVE  \E f : Flattens(f, S, ss) /\ FlattenSeq(ss) = f[Len(ss)]
<1> DEFINE n == Len(ss)
           E(g, i) == IF i = 1 THEN ss[i] ELSE g[i - 1] \o ss[i]
           G(g) == [i \in 1..n |-> E(g, i)]
           f == CHOOSE f : f = G(f)
           F == [j \in 1..n |-> [w \in Seq(S) |-> w \o ss[j]]]
<1>1. n \in Nat /\ n >= 1 /\ \A j \in 1..n : ss[j] \in Seq(S)
  OBVIOUS
<1>2. FlattenSeq(ss) = f[n]
  BY DEF FlattenSeq
<1> HIDE DEF n
<1>3. \A j \in 1..n : \A w \in Seq(S) : F[j][w] = w \o ss[j]
  OBVIOUS
<1>4. F \in [1..n -> [Seq(S) -> Seq(S)]]
  <2>1. \A j \in 1..n : \A w \in Seq(S) : w \o ss[j] \in Seq(S)
    BY <1>1
  <2> QED BY <2>1
<1> HIDE DEF F
<1>5. PICK c : Obeys(c, Seq(S), <<>>, n, F)
  <2> DEFINE e == <<>>
  <2>1. e \in Seq(S)
    OBVIOUS
  <2> HIDE DEF e
  <2>2. IsRule(Seq(S), e, n, F)
    BY <1>1, <1>4, <2>1 DEF IsRule
  <2>3. \E c : Obeys(c, Seq(S), e, n, F)
    BY <2>2, RecursiveFunction
  <2> QED BY <2>3 DEF e
<1>6. c \in [0..n -> Seq(S)] /\ c[0] = <<>> /\ \A j \in 1..n : c[j] = F[j][c[j - 1]]
  BY <1>5 DEF Obeys
<1>7. \A j \in 1..n : c[j] = c[j - 1] \o ss[j] /\ c[j] \in Seq(S)
  <2> SUFFICES ASSUME NEW j \in 1..n PROVE c[j] = c[j - 1] \o ss[j] /\ c[j] \in Seq(S)
    OBVIOUS
  <2>1. j - 1 \in 0..n /\ j \in 0..n
    BY <1>1
  <2> QED BY <1>3, <1>6, <2>1
<1>8. c[1] = ss[1]
  <2>1. 1 \in 1..n /\ 1 - 1 = 0
    BY <1>1
  <2>2. c[1] = <<>> \o ss[1]
    BY <1>6, <1>7, <2>1
  <2>3. \A w \in Seq(S) : <<>> \o w = w
    OBVIOUS
  <2> QED BY <1>1, <2>1, <2>2, <2>3
<1> DEFINE h == [i \in 1..n |-> c[i]]
<1>9. h = G(h)
  <2>1. ASSUME NEW i \in 1..n PROVE h[i] = E(h, i)
    <3>1. CASE i = 1
      BY <1>8, <3>1
    <3>2. CASE i # 1
      <4>1. i - 1 \in 1..n
        BY <1>1, <3>2
      <4>2. h[i - 1] = c[i - 1] /\ h[i] = c[i]
        BY <4>1
      <4> HIDE DEF h
      <4> QED BY <1>7, <3>2, <4>2
    <3> QED BY <3>1, <3>2
  <2> HIDE DEF E
  <2>2. h = [i \in 1..n |-> h[i]]
    OBVIOUS
  <2> HIDE DEF h
  <2> QED BY <2>1, <2>2
<1>10. f = G(f)
  <2> HIDE DEF G, h
  <2> QED BY <1>9
<1> HIDE DEF f, h
<1>11. \A i \in 1..n : f[i] = E(f, i)
  BY <1>10
<1>12. f[1] = ss[1] /\ \A i \in 2..n : f[i] = f[i - 1] \o ss[i]
  <2>1. 1 \in 1..n /\ \A i \in 2..n : i \in 1..n /\ i # 1
    BY <1>1
  <2> QED BY <1>11, <2>1
<1> DEFINE T == {j \in Nat : j + 1 <= n => f[j + 1] \in Seq(S)}
<1>13. 0 \in T
  <2>1. 1 \in 1..n /\ 0 + 1 = 1
    BY <1>1
  <2> QED BY <1>1, <1>12, <2>1
<1>14. ASSUME NEW j \in Nat, j \in T PROVE j + 1 \in T
  <2> SUFFICES ASSUME (j + 1) + 1 <= n PROVE f[(j + 1) + 1] \in Seq(S)
    OBVIOUS
  <2>1. (j + 1) + 1 \in 2..n /\ ((j + 1) + 1) - 1 = j + 1 /\ j + 1 <= n /\ (j + 1) + 1 \in 1..n
    BY <1>1
  <2>2. f[j + 1] \in Seq(S) /\ ss[(j + 1) + 1] \in Seq(S)
    BY <1>1, <1>14, <2>1
  <2>3. PICK i : i = (j + 1) + 1
    OBVIOUS
  <2>4. f[i] = f[j + 1] \o ss[i]
    BY <1>12, <2>1, <2>3
  <2>5. f[j + 1] \o ss[i] \in Seq(S)
    BY <2>2, <2>3
  <2> QED BY <2>3, <2>4, <2>5
<1>15. f \in [1..n -> Seq(S)]
  <2>1. Nat \subseteq T
    <3> HIDE DEF T
    <3> QED BY <1>13, <1>14, NatSetInduction
  <2>2. ASSUME NEW i \in 1..n PROVE f[i] \in Seq(S)
    <3>1. i - 1 \in Nat /\ (i - 1) + 1 = i /\ i <= n
      BY <1>1
    <3>2. (i - 1) + 1 <= n => f[(i - 1) + 1] \in Seq(S)
      BY <2>1, <3>1
    <3> QED BY <3>1, <3>2
  <2>3. f = [i \in 1..n |-> f[i]]
    BY <1>10
  <2> QED BY <2>2, <2>3
<1>16. Flattens(f, S, ss)
  BY <1>12, <1>15 DEF Flattens, n
<1> QED BY <1>2, <1>16 DEF n

\* c cuts the tape where the sequences of ss meet.
LaidApart(c, tape, p, ss, q) ==
  /\ c \in [0..Len(ss) -> Nat] /\ c[0] = p /\ c[Len(ss)] = q
  /\ \A j \in 1..Len(ss) : Laid(tape, c[j - 1], ss[j], c[j])

\* Nothing takes no place.
LEMMA LaidNone ==
  ASSUME NEW tape, NEW p, NEW q, NEW s, Len(s) = 0, Laid(tape, p, s, q)
  PROVE  p = q
<1>1. PICK c : LaidAt(c, tape, p, s, q)
  BY DEF Laid
<1> QED BY <1>1 DEF LaidAt

\* What was flattened can be cut where its sequences meet.
LEMMA LaidFlatten ==
  ASSUME NEW tape, NEW ss \in Seq(Seq(AField)), NEW p \in Nat, NEW r \in Nat,
         Laid(tape, p, FlattenSeq(ss), r)
  PROVE  \E c : LaidApart(c, tape, p, ss, r)
<1> DEFINE n == Len(ss)
<1>1. n \in Nat
  OBVIOUS
<1>2. CASE n = 0
  <2>1. FlattenSeq(ss) = ss
    BY <1>2 DEF FlattenSeq
  <2>2. p = r
    BY <1>2, <2>1, LaidNone
  <2> DEFINE c == [j \in 0..0 |-> p]
  <2>3. c \in [0..n -> Nat] /\ c[0] = p /\ c[n] = r
    BY <1>2, <2>2
  <2> HIDE DEF c
  <2>4. \A j \in 1..n : FALSE
    BY <1>2
  <2>5. LaidApart(c, tape, p, ss, r)
    BY <2>3, <2>4 DEF LaidApart
  <2> QED BY <2>5
<1>3. CASE n # 0
  <2>1. PICK f : Flattens(f, AField, ss) /\ FlattenSeq(ss) = f[n]
    BY <1>3, FlattenSteps
  <2>2. f \in [1..n -> Seq(AField)] /\ f[1] = ss[1] /\ \A i \in 2..n : f[i] = f[i - 1] \o ss[i]
    BY <2>1 DEF Flattens
  <2>3. \A j \in 1..n : ss[j] \in Seq(AField)
    OBVIOUS
  <2> HIDE DEF n
  <2> DEFINE Cut(c, i, q) == /\ c \in [0..i -> Nat] /\ c[0] = p /\ c[i] = q
                             /\ \A j \in 1..i : Laid(tape, c[j - 1], ss[j], c[j])
             T == {i \in Nat : i + 1 <= n =>
                     \A q \in Nat : Laid(tape, p, f[i + 1], q) => \E c : Cut(c, i + 1, q)}
  <2>4. 0 \in T
    <3> SUFFICES ASSUME NEW q \in Nat, Laid(tape, p, f[1], q) PROVE \E c : Cut(c, 1, q)
      <4>1. 0 + 1 = 1
        OBVIOUS
      <4> HIDE DEF Cut
      <4> QED BY <4>1
    <3> DEFINE c == [j \in 0..1 |-> IF j = 0 THEN p ELSE q]
    <3>1. c \in [0..1 -> Nat] /\ c[0] = p /\ c[1] = q
      OBVIOUS
    <3> HIDE DEF c
    <3>2. \A j \in 1..1 : j = 1 /\ j - 1 = 0
      OBVIOUS
    <3>3. Cut(c, 1, q)
      BY <2>2, <3>1, <3>2
    <3> QED BY <3>3
  <2>5. ASSUME NEW i \in Nat, i \in T PROVE i + 1 \in T
    <3> SUFFICES ASSUME (i + 1) + 1 <= n, NEW q \in Nat, Laid(tape, p, f[(i + 1) + 1], q)
                 PROVE  \E c : Cut(c, (i + 1) + 1, q)
      <4> HIDE DEF Cut
      <4> QED OBVIOUS
    <3>1. PICK k : k = (i + 1) + 1
      OBVIOUS
    <3>2. k \in 2..n /\ k - 1 = i + 1 /\ k \in 1..n /\ k - 1 \in 1..n /\ i + 1 <= n /\ k \in Nat /\ k - 1 \in Nat
      BY <1>1, <3>1
    <3>3. f[k] = f[k - 1] \o ss[k] /\ f[k - 1] \in Seq(AField) /\ ss[k] \in Seq(AField)
      BY <2>2, <2>3, <3>2
    <3>4. PICK m \in Nat : Laid(tape, p, f[k - 1], m) /\ Laid(tape, m, ss[k], q)
      <4>1. Laid(tape, p, f[k - 1] \o ss[k], q)
        BY <3>1, <3>3
      <4> QED BY <3>3, <4>1, LaidSplit
    <3>5. PICK c : Cut(c, k - 1, m)
      <4>1. \A x \in Nat : Laid(tape, p, f[i + 1], x) => \E c : Cut(c, i + 1, x)
        <5> HIDE DEF Cut
        <5> QED BY <2>5, <3>2
      <4> HIDE DEF Cut
      <4> QED BY <3>2, <3>4, <4>1
    <3> DEFINE d == [j \in 0..k |-> IF j = k THEN q ELSE c[j]]
    <3>6. \A j \in 0..(k - 1) : d[j] = c[j] /\ c[j] \in Nat
      BY <3>2, <3>5
    <3>7. d[k] = q
      BY <3>2
    <3>8. d \in [0..k -> Nat]
      <4>1. ASSUME NEW j \in 0..k PROVE d[j] \in Nat
        <5>1. j = k \/ j \in 0..(k - 1)
          BY <3>2
        <5> HIDE DEF d
        <5> QED BY <3>6, <3>7, <5>1
      <4> QED BY <4>1
    <3> HIDE DEF d
    <3>9. d[0] = p
      BY <3>2, <3>5, <3>6
    <3>10. ASSUME NEW j \in 1..k PROVE Laid(tape, d[j - 1], ss[j], d[j])
      <4>1. CASE j = k
        <5>1. k - 1 \in 0..(k - 1)
          BY <3>2
        <5>2. d[k - 1] = m
          BY <3>5, <3>6, <5>1
        <5> QED BY <3>4, <3>7, <4>1, <5>2
      <4>2. CASE j # k
        <5>1. j \in 1..(k - 1) /\ j \in 0..(k - 1) /\ j - 1 \in 0..(k - 1)
          BY <3>2, <4>2
        <5>2. Laid(tape, c[j - 1], ss[j], c[j])
          BY <3>5, <5>1
        <5> QED BY <3>6, <5>1, <5>2
      <4> QED BY <4>1, <4>2
    <3>11. Cut(d, k, q)
      BY <3>7, <3>8, <3>9, <3>10
    <3> QED
      <4> HIDE DEF Cut
      <4> QED BY <3>1, <3>11
  <2>6. \E c : Cut(c, n, r)
    <3>1. n - 1 \in Nat /\ (n - 1) + 1 = n /\ n <= n
      BY <1>1, <1>3
    <3>2. n - 1 \in T
      <4> HIDE DEF T
      <4> QED BY <2>4, <2>5, <3>1, NatSetInduction
    <3>3. \A q \in Nat : Laid(tape, p, f[n], q) => \E c : Cut(c, n, q)
      <4> HIDE DEF Cut
      <4> QED BY <3>1, <3>2
    <3> HIDE DEF Cut
    <3> QED BY <2>1, <3>3
  <2> QED BY <2>6 DEF LaidApart, n
<1> QED BY <1>2, <1>3

\* Only the bytes of an empty string have no width, and the bytes of a string
\* follow its length: no two fields of a kind begin at the same place.
Proper(s) ==
  \A j \in 1..Len(s) :
    /\ s[j].width = 0 => s[j].kind = "bytes"
    /\ s[j].kind = "bytes" => j > 1 /\ s[j - 1].kind = "length"

\* It is kept when sequences are put together.
LEMMA ProperConcat ==
  ASSUME NEW s \in Seq(AField), NEW u \in Seq(AField), Proper(s), Proper(u)
  PROVE  Proper(s \o u)
<1> DEFINE m == Len(s)
           k == Len(u)
           x == s \o u
<1>1. m \in Nat /\ k \in Nat
  OBVIOUS
<1>2. Len(x) = m + k /\ (\A j \in 1..m : x[j] = s[j]) /\ (\A j \in 1..k : x[m + j] = u[j])
  OBVIOUS
<1> HIDE DEF x
<1> SUFFICES ASSUME NEW j \in 1..(m + k)
             PROVE  /\ x[j].width = 0 => x[j].kind = "bytes"
                    /\ x[j].kind = "bytes" => j > 1 /\ x[j - 1].kind = "length"
  BY <1>2 DEF Proper, x
<1>3. CASE j <= m
  <2>1. j \in 1..m /\ (j > 1 => j - 1 \in 1..m)
    BY <1>1, <1>3
  <2>2. x[j] = s[j] /\ (j > 1 => x[j - 1] = s[j - 1])
    BY <1>2, <2>1
  <2> QED BY <2>1, <2>2 DEF Proper
<1>4. CASE j > m
  <2>1. PICK i : i = j - m
    OBVIOUS
  <2>2. i \in 1..k /\ j = m + i /\ (i > 1 => i - 1 \in 1..k /\ m + (i - 1) = j - 1 /\ j > 1)
    BY <1>1, <1>4, <2>1
  <2>3. x[j] = u[i] /\ (i > 1 => x[j - 1] = u[i - 1])
    BY <1>2, <2>2
  <2>4. /\ u[i].width = 0 => u[i].kind = "bytes"
        /\ u[i].kind = "bytes" => i > 1 /\ u[i - 1].kind = "length"
    BY <2>2 DEF Proper
  <2> QED BY <2>2, <2>3, <2>4
<1> QED BY <1>1, <1>3, <1>4

\* And when they are flattened.
LEMMA ProperFlatten ==
  ASSUME NEW ss \in Seq(Seq(AField)), \A j \in 1..Len(ss) : Proper(ss[j])
  PROVE  FlattenSeq(ss) \in Seq(AField) /\ Proper(FlattenSeq(ss))
<1> DEFINE n == Len(ss)
<1>1. n \in Nat
  OBVIOUS
<1>2. CASE n = 0
  <2>1. FlattenSeq(ss) = ss /\ ss = <<>> /\ Len(ss) = 0
    BY <1>2 DEF FlattenSeq
  <2>2. \A j \in 1..0 : FALSE
    OBVIOUS
  <2>3. ss \in Seq(AField)
    BY <2>1
  <2> QED BY <2>1, <2>2, <2>3 DEF Proper
<1>3. CASE n # 0
  <2>1. PICK f : Flattens(f, AField, ss) /\ FlattenSeq(ss) = f[n]
    BY <1>3, FlattenSteps
  <2>2. f \in [1..n -> Seq(AField)] /\ f[1] = ss[1] /\ \A i \in 2..n : f[i] = f[i - 1] \o ss[i]
    BY <2>1 DEF Flattens
  <2>3. \A j \in 1..n : ss[j] \in Seq(AField) /\ Proper(ss[j])
    OBVIOUS
  <2> HIDE DEF n
  <2> DEFINE T == {i \in Nat : i + 1 <= n => Proper(f[i + 1])}
  <2>4. 0 \in T
    <3>1. 1 \in 1..n /\ 0 + 1 = 1
      BY <1>1, <1>3
    <3> QED BY <2>2, <2>3, <3>1
  <2>5. ASSUME NEW i \in Nat, i \in T PROVE i + 1 \in T
    <3> SUFFICES ASSUME (i + 1) + 1 <= n PROVE Proper(f[(i + 1) + 1])
      OBVIOUS
    <3>1. PICK k : k = (i + 1) + 1
      OBVIOUS
    <3>2. k \in 2..n /\ k - 1 = i + 1 /\ k \in 1..n /\ k - 1 \in 1..n /\ i + 1 <= n
      BY <1>1, <3>1
    <3>3. f[k] = f[k - 1] \o ss[k] /\ f[k - 1] \in Seq(AField) /\ ss[k] \in Seq(AField)
      BY <2>2, <2>3, <3>2
    <3>4. Proper(f[k - 1]) /\ Proper(ss[k])
      BY <2>3, <2>5, <3>2
    <3>5. Proper(f[k - 1] \o ss[k])
      BY <3>3, <3>4, ProperConcat
    <3> QED BY <3>1, <3>3, <3>5
  <2>6. n - 1 \in Nat /\ (n - 1) + 1 = n /\ n \in 1..n
    BY <1>1, <1>3
  <2>7. n - 1 \in T
    <3> HIDE DEF T
    <3> QED BY <2>4, <2>5, <2>6, NatSetInduction
  <2>8. Proper(f[n])
    BY <2>6, <2>7
  <2>9. f[n] \in Seq(AField)
    BY <2>2, <2>6
  <2> QED BY <2>1, <2>8, <2>9
<1> QED BY <1>2, <1>3

\* b holds the offsets of the fields, and of the end.
Begins(b, s) ==
  /\ b \in [1..(Len(s) + 1) -> Nat] /\ b[1] = 0
  /\ \A j \in 1..Len(s) : b[j + 1] = b[j] + s[j].width

\* The offsets of the tape.
LEMMA TapeBegins ==
  ASSUME NEW f, Fields(f) \in Seq(AField)
  PROVE  \E b : /\ Begins(b, Fields(f)) /\ Tape(f).end = b[Len(Fields(f)) + 1]
                /\ Tape(f).at = [at \in {<<b[j], Fields(f)[j].kind>> : j \in 1..Len(Fields(f))} |->
                     Fields(f)[CHOOSE j \in 1..Len(Fields(f)) : <<b[j], Fields(f)[j].kind>> = at].num]
<1> DEFINE s == Fields(f)
           n == Len(s)
           G(g) == [j \in 1..(n + 1) |-> IF j = 1 THEN 0 ELSE g[j - 1] + s[j - 1].width]
           b == CHOOSE b : b = G(b)
           F == [j \in 1..n |-> [w \in Nat |-> w + s[j].width]]
<1>1. n \in Nat /\ \A j \in 1..n : s[j] \in AField
  OBVIOUS
<1>2. \A j \in 1..n : s[j].width \in Nat
  BY <1>1 DEF AField
<1>3. /\ Tape(f).end = b[n + 1]
      /\ Tape(f).at = [at \in {<<b[j], s[j].kind>> : j \in 1..n} |->
                         s[CHOOSE j \in 1..n : <<b[j], s[j].kind>> = at].num]
  BY DEF Tape
<1> HIDE DEF s, n
<1>4. \A j \in 1..n : \A w \in Nat : F[j][w] = w + s[j].width
  OBVIOUS
<1>5. F \in [1..n -> [Nat -> Nat]]
  BY <1>2
<1> HIDE DEF F
<1>6. PICK c : Obeys(c, Nat, 0, n, F)
  BY <1>1, <1>5, RecursiveFunction DEF IsRule
<1>7. c \in [0..n -> Nat] /\ c[0] = 0 /\ \A j \in 1..n : c[j] = F[j][c[j - 1]]
  BY <1>6 DEF Obeys
<1>8. \A j \in 1..n : c[j] = c[j - 1] + s[j].width
  <2> SUFFICES ASSUME NEW j \in 1..n PROVE c[j] = c[j - 1] + s[j].width
    OBVIOUS
  <2>1. j - 1 \in 0..n
    BY <1>1
  <2> QED BY <1>4, <1>7, <2>1
<1> DEFINE h == [j \in 1..(n + 1) |-> c[j - 1]]
<1>9. h = G(h)
  <2>1. ASSUME NEW j \in 1..(n + 1) PROVE h[j] = IF j = 1 THEN 0 ELSE h[j - 1] + s[j - 1].width
    <3>1. CASE j = 1
      <4>1. j - 1 = 0
        BY <3>1
      <4> QED BY <1>7, <3>1, <4>1
    <3>2. CASE j # 1
      <4>1. j - 1 \in 1..n /\ j - 1 \in 1..(n + 1)
        BY <1>1, <3>2
      <4>2. h[j - 1] = c[(j - 1) - 1] /\ h[j] = c[j - 1]
        BY <4>1
      <4> HIDE DEF h
      <4> QED BY <1>8, <3>2, <4>1, <4>2
    <3> QED BY <3>1, <3>2
  <2>2. h = [j \in 1..(n + 1) |-> h[j]]
    OBVIOUS
  <2> HIDE DEF h
  <2> QED BY <2>1, <2>2
<1>10. b = G(b)
  <2> HIDE DEF G, h
  <2> QED BY <1>9
<1> HIDE DEF b, h
<1>11. PICK a : a = b
  OBVIOUS
<1>12. a = [j \in 1..(n + 1) |-> IF j = 1 THEN 0 ELSE a[j - 1] + s[j - 1].width]
  BY <1>10, <1>11
<1>13. a[1] = 0
  <2>1. 1 \in 1..(n + 1)
    BY <1>1
  <2> QED BY <1>12, <2>1
<1>14. ASSUME NEW j \in 1..n PROVE a[j + 1] = a[j] + s[j].width
  <2>1. PICK i : i = j + 1
    OBVIOUS
  <2>2. i \in 1..(n + 1) /\ i # 1 /\ i - 1 = j
    BY <1>1, <2>1
  <2> QED BY <1>12, <2>1, <2>2
<1> DEFINE T == {j \in Nat : j <= n => a[j + 1] \in Nat}
<1>15. 0 \in T
  BY <1>13
<1>16. ASSUME NEW j \in Nat, j \in T PROVE j + 1 \in T
  <2> SUFFICES ASSUME j + 1 <= n PROVE a[(j + 1) + 1] \in Nat
    OBVIOUS
  <2>1. j + 1 \in 1..n /\ j <= n
    BY <1>1
  <2> QED BY <1>2, <1>14, <1>16, <2>1
<1>17. a \in [1..(n + 1) -> Nat]
  <2>1. Nat \subseteq T
    <3> HIDE DEF T
    <3> QED BY <1>15, <1>16, NatSetInduction
  <2>2. ASSUME NEW i \in 1..(n + 1) PROVE a[i] \in Nat
    <3>1. i - 1 \in Nat /\ (i - 1) + 1 = i /\ i - 1 <= n
      BY <1>1
    <3>2. i - 1 <= n => a[(i - 1) + 1] \in Nat
      BY <2>1, <3>1
    <3> QED BY <3>1, <3>2
  <2>3. a = [j \in 1..(n + 1) |-> a[j]]
    BY <1>12
  <2> QED BY <2>2, <2>3
<1>18. Begins(b, s)
  BY <1>11, <1>13, <1>14, <1>17 DEF Begins, n
<1> QED BY <1>3, <1>18 DEF s, n

\* No two fields of a kind begin at the same place.
LEMMA BeginsApart ==
  ASSUME NEW s \in Seq(AField), Proper(s), NEW b, Begins(b, s),
         NEW i \in 1..Len(s), NEW j \in 1..Len(s), b[i] = b[j], s[i].kind = s[j].kind
  PROVE  i = j
<1> DEFINE n == Len(s)
<1>1. n \in Nat /\ \A k \in 1..n : s[k].width \in Nat
  <2>1. n \in Nat /\ \A k \in 1..n : s[k] \in AField
    OBVIOUS
  <2> QED BY <2>1 DEF AField
<1>2. b \in [1..(n + 1) -> Nat] /\ \A k \in 1..n : b[k + 1] = b[k] + s[k].width
  BY DEF Begins
<1>3. \A k \in 1..n : /\ s[k].width = 0 => s[k].kind = "bytes"
                      /\ s[k].kind = "bytes" => k > 1 /\ s[k - 1].kind = "length"
  BY DEF Proper
<1>4. i \in 1..n /\ j \in 1..n
  OBVIOUS
<1> HIDE DEF n
<1> DEFINE T == {d \in Nat : \A k \in 1..(n + 1) : k + d <= n + 1 => b[k] <= b[k + d]}
<1>5. 0 \in T
  <2>1. \A k \in 1..(n + 1) : b[k] \in Nat /\ k + 0 = k
    BY <1>1, <1>2
  <2> QED BY <2>1
<1>6. ASSUME NEW d \in Nat, d \in T PROVE d + 1 \in T
  <2> SUFFICES ASSUME NEW k \in 1..(n + 1), k + (d + 1) <= n + 1 PROVE b[k] <= b[k + (d + 1)]
    OBVIOUS
  <2>1. PICK m : m = k + d
    OBVIOUS
  <2>2. m \in 1..n /\ m + 1 = k + (d + 1) /\ k + d <= n + 1 /\ m \in 1..(n + 1) /\ m + 1 \in 1..(n + 1)
    BY <1>1, <2>1
  <2>3. b[k] <= b[m]
    BY <1>6, <2>1, <2>2
  <2>4. b[m + 1] = b[m] + s[m].width /\ s[m].width \in Nat /\ b[m] \in Nat /\ b[k] \in Nat
    BY <1>1, <1>2, <2>2
  <2>5. b[k] <= b[m + 1]
    BY <2>3, <2>4
  <2> QED BY <2>2, <2>5
<1>7. ASSUME NEW x \in 1..(n + 1), NEW y \in 1..(n + 1), x <= y PROVE b[x] <= b[y]
  <2>1. Nat \subseteq T
    <3> HIDE DEF T
    <3> QED BY <1>5, <1>6, NatSetInduction
  <2>2. y - x \in Nat /\ x + (y - x) = y /\ x + (y - x) <= n + 1
    BY <1>1, <1>7
  <2>3. y - x \in T
    BY <2>1, <2>2
  <2>4. b[x] <= b[x + (y - x)]
    BY <2>2, <2>3
  <2> QED BY <2>2, <2>4
<1>8. ASSUME NEW x \in 1..n, NEW y \in 1..n, x < y, b[x] = b[y], s[x].kind = s[y].kind PROVE FALSE
  <2>1. x + 1 \in 1..(n + 1) /\ y \in 1..(n + 1) /\ x + 1 <= y /\ y - 1 \in 1..n /\ x <= y - 1
        /\ x \in 1..(n + 1) /\ y - 1 \in 1..(n + 1) /\ (y - 1) + 1 = y
    BY <1>1, <1>8
  <2>2. b[x + 1] = b[x] + s[x].width /\ b[y] = b[y - 1] + s[y - 1].width
    BY <1>2, <2>1
  <2>3. b[x] \in Nat /\ b[y] \in Nat /\ b[y - 1] \in Nat /\ s[x].width \in Nat /\ s[y - 1].width \in Nat
    BY <1>1, <1>2, <2>1
  <2>4. b[x + 1] <= b[y] /\ b[x] <= b[y - 1]
    BY <1>7, <2>1
  <2>5. s[x].width = 0 /\ s[y - 1].width = 0
    <3>1. \A u, w \in Nat : u + w <= u => w = 0
      OBVIOUS
    <3>2. b[x] + s[x].width <= b[x] /\ b[y - 1] + s[y - 1].width <= b[y - 1]
      BY <1>8, <2>2, <2>4
    <3> QED BY <2>3, <3>1, <3>2
  <2>6. s[x].kind = "bytes" /\ s[y - 1].kind = "bytes"
    BY <1>3, <2>1, <2>5
  <2>7. s[y - 1].kind = "length"
    BY <1>3, <1>8, <2>6
  <2> QED BY <2>6, <2>7
<1>9. ~(i < j) /\ ~(j < i)
  BY <1>4, <1>8
<1> QED BY <1>1, <1>4, <1>9

\* The fields of a file lie on its tape.
LEMMA TapeLaid ==
  ASSUME NEW f, Fields(f) \in Seq(AField), Proper(Fields(f))
  PROVE  Tape(f).end \in Nat /\ Laid(Tape(f), 0, Fields(f), Tape(f).end)
<1> DEFINE s == Fields(f)
           n == Len(s)
           tape == Tape(f)
<1>1. n \in Nat
  OBVIOUS
<1>2. PICK b : /\ Begins(b, s) /\ tape.end = b[n + 1]
               /\ tape.at = [at \in {<<b[j], s[j].kind>> : j \in 1..n} |->
                                s[CHOOSE j \in 1..n : <<b[j], s[j].kind>> = at].num]
  BY TapeBegins
<1>3. b \in [1..(n + 1) -> Nat] /\ b[1] = 0 /\ \A k \in 1..n : b[k + 1] = b[k] + s[k].width
  BY <1>2 DEF Begins
<1>4. ASSUME NEW j \in 1..n PROVE Finds(tape, b[j], s[j])
  <2> DEFINE at == <<b[j], s[j].kind>>
             i == CHOOSE i \in 1..n : <<b[i], s[i].kind>> = at
  <2>1. i \in 1..n /\ <<b[i], s[i].kind>> = at
    OBVIOUS
  <2>2. i = j
    <3> HIDE DEF i
    <3>1. b[i] = b[j] /\ s[i].kind = s[j].kind
      BY <2>1
    <3> QED BY <1>2, <2>1, <3>1, BeginsApart
  <2>3. at \in DOMAIN tape.at
    BY <1>2
  <2>4. tape.at[at] = s[i].num
    BY <1>2
  <2> QED BY <2>2, <2>3, <2>4 DEF Finds, Fits, At
<1> HIDE DEF s, n, tape
<1> DEFINE c == [k \in 0..n |-> b[k + 1]]
<1>5. \A k \in 0..n : c[k] = b[k + 1] /\ c[k] \in Nat
  BY <1>1, <1>3
<1>6. c \in [0..n -> Nat]
  BY <1>5
<1> HIDE DEF c
<1>7. c[0] = 0 /\ c[n] = tape.end
  <2>1. 0 \in 0..n /\ n \in 0..n /\ 0 + 1 = 1
    BY <1>1
  <2> QED BY <1>2, <1>3, <1>5, <2>1
<1>8. ASSUME NEW j \in 1..n PROVE c[j] = c[j - 1] + s[j].width /\ Finds(tape, c[j - 1], s[j])
  <2>1. j \in 0..n /\ j - 1 \in 0..n /\ (j - 1) + 1 = j
    BY <1>1
  <2>2. c[j] = b[j + 1] /\ c[j - 1] = b[j]
    BY <1>5, <2>1
  <2> QED BY <1>3, <1>4, <2>2
<1>9. LaidAt(c, tape, 0, s, tape.end)
  BY <1>6, <1>7, <1>8 DEF LaidAt, n
<1>10. tape.end \in Nat
  BY <1>1, <1>5, <1>7
<1> QED BY <1>9, <1>10 DEF Laid, s, tape

-----------------------------------------------------------------------------
\* The fields of the format.

\* A field of the format is one.
LEMMA FieldType ==
  ASSUME NEW kind \in Kinds, NEW width \in Nat, NEW num \in Nums
  PROVE  /\ Field(kind, width, num) \in AField
         /\ Field(kind, width, num).kind = kind /\ Field(kind, width, num).width = width
         /\ Field(kind, width, num).num = num
BY DEF Field, AField

\* The kinds that the format has for itself.
LEMMA KindsAre ==
  \A kind \in {"length", "bytes", "dtype", "n_dims", "dim", "ggml_type", "offset", "header"} : kind \in Kinds
BY DEF Kinds

\* Texts are strings, or the names of tensors.
Texts == {STRING, Int \X STRING}

\* The two fields of a string.
LEMMA StringFieldsType ==
  ASSUME NEW T \in Texts, NEW x \in Strings(T)
  PROVE  StringFields(x) \in Seq(AField) /\ Proper(StringFields(x))
<1> DEFINE a == Field("length", 8, x.len)
           b == Field("bytes", x.len, x.text)
<1>1. x.len \in Nat /\ x.text \in T
  BY DEF Strings
<1>2. x.len \in Nums /\ x.text \in Nums
  BY <1>1 DEF Nums, Texts
<1>3. a \in AField /\ a.kind = "length" /\ a.width = 8
  BY <1>2, FieldType, KindsAre
<1>4. b \in AField /\ b.kind = "bytes"
  BY <1>1, <1>2, FieldType, KindsAre
<1> HIDE DEF a, b
<1> DEFINE s == <<a, b>>
<1>5. s \in Seq(AField) /\ Len(s) = 2 /\ s[1] = a /\ s[2] = b
  BY <1>3, <1>4
<1> HIDE DEF s
<1>6. \A j \in 1..2 : j = 1 \/ (j = 2 /\ j - 1 = 1 /\ j > 1)
  OBVIOUS
<1>7. Proper(s)
  BY <1>3, <1>4, <1>5, <1>6 DEF Proper
<1> QED BY <1>5, <1>7 DEF StringFields, s, a, b

\* A field that is not of a string is proper by itself.
LEMMA ProperOne ==
  ASSUME NEW x \in AField, x.width # 0, x.kind # "bytes"
  PROVE  <<x>> \in Seq(AField) /\ Proper(<<x>>)
<1> DEFINE s == <<x>>
<1>1. s \in Seq(AField) /\ Len(s) = 1 /\ s[1] = x
  OBVIOUS
<1> HIDE DEF s
<1>2. \A j \in 1..1 : j = 1
  OBVIOUS
<1>3. Proper(s)
  BY <1>1, <1>2 DEF Proper
<1> QED BY <1>1, <1>3 DEF s

\* The widths of scalars.
LEMMA WidthType ==
  ASSUME NEW dtype \in ScalarTypes
  PROVE  Width(dtype) \in Nat /\ Width(dtype) # 0
BY DEF ScalarTypes, Width

\* The fields of a scalar or a string.
LEMMA ScalarFieldsType ==
  ASSUME NEW dtype \in ElementTypes, NEW num \in ElementsOf(dtype)
  PROVE  ScalarFields(dtype, num) \in Seq(AField) /\ Proper(ScalarFields(dtype, num))
<1>1. CASE dtype = "string"
  <2>1. num \in Strings(STRING) /\ STRING \in Texts
    BY <1>1 DEF ElementsOf, Texts
  <2> QED BY <1>1, <2>1, StringFieldsType DEF ScalarFields
<1>2. CASE dtype # "string"
  <2>1. dtype \in ScalarTypes /\ num \in Int
    BY <1>2 DEF ElementTypes, ElementsOf
  <2>2. Width(dtype) \in Nat /\ Width(dtype) # 0
    BY <2>1, WidthType
  <2>3. dtype \in Kinds /\ num \in Nums /\ dtype # "bytes"
    BY <2>1 DEF Kinds, Types, ElementTypes, Nums, ScalarTypes
  <2> DEFINE x == Field(dtype, Width(dtype), num)
  <2>4. x \in AField /\ x.width # 0 /\ x.kind # "bytes"
    BY <2>2, <2>3, FieldType
  <2> HIDE DEF x
  <2>5. <<x>> \in Seq(AField) /\ Proper(<<x>>)
    BY <2>4, ProperOne
  <2> QED BY <1>2, <2>5 DEF ScalarFields, x
<1> QED BY <1>1, <1>2

\* The fields of the elements of an array.
ArrayFields(elem, num) == [j \in 1..Len(num) |-> ScalarFields(elem, num[j])]
ArrayHead(elem, num) == <<Field("dtype", 4, elem), Field("length", 8, Len(num))>>

\* They are fields, proper ones.
LEMMA ArrayFieldsType ==
  ASSUME NEW elem \in ElementTypes, NEW num \in Seq(ElementsOf(elem))
  PROVE  /\ ArrayHead(elem, num) \in Seq(AField) /\ Proper(ArrayHead(elem, num))
         /\ ArrayFields(elem, num) \in Seq(Seq(AField))
         /\ FlattenSeq(ArrayFields(elem, num)) \in Seq(AField) /\ Proper(FlattenSeq(ArrayFields(elem, num)))
<1> DEFINE n == Len(num)
           ss == ArrayFields(elem, num)
           a == Field("dtype", 4, elem)
           b == Field("length", 8, n)
<1>1. n \in Nat /\ \A j \in 1..n : num[j] \in ElementsOf(elem)
  OBVIOUS
<1>2. \A j \in 1..n : ScalarFields(elem, num[j]) \in Seq(AField) /\ Proper(ScalarFields(elem, num[j]))
  BY <1>1, ScalarFieldsType
<1>3. ss \in Seq(Seq(AField)) /\ Len(ss) = n /\ \A j \in 1..n : ss[j] = ScalarFields(elem, num[j])
  BY <1>1, <1>2 DEF ArrayFields
<1>4. elem \in Nums /\ n \in Nums
  <2>1. elem \in Types
    BY DEF Types
  <2> QED BY <1>1, <2>1 DEF Nums
<1>5. a \in AField /\ a.kind = "dtype" /\ a.width = 4
  BY <1>4, FieldType, KindsAre
<1>6. b \in AField /\ b.kind = "length" /\ b.width = 8
  BY <1>4, FieldType, KindsAre
<1> HIDE DEF n, ss, a, b
<1>7. FlattenSeq(ss) \in Seq(AField) /\ Proper(FlattenSeq(ss))
  BY <1>2, <1>3, ProperFlatten
<1> DEFINE s == <<a, b>>
<1>8. s \in Seq(AField) /\ Len(s) = 2 /\ s[1] = a /\ s[2] = b
  BY <1>5, <1>6
<1> HIDE DEF s
<1>9. \A j \in 1..2 : j = 1 \/ j = 2
  OBVIOUS
<1>10. Proper(s)
  BY <1>5, <1>6, <1>8, <1>9 DEF Proper
<1> QED BY <1>3, <1>7, <1>8, <1>10 DEF ArrayHead, s, a, b, n, ss

\* The fields of a value.
LEMMA ValueFieldsType ==
  ASSUME NEW v, IsValue(v)
  PROVE  ValueFields(v) \in Seq(AField) /\ Proper(ValueFields(v))
<1>1. CASE v.dtype = "array"
  <2>1. v.elem \in ElementTypes /\ v.num \in Seq(ElementsOf(v.elem))
    BY <1>1 DEF IsValue
  <2>2. ValueFields(v) = ArrayHead(v.elem, v.num) \o FlattenSeq(ArrayFields(v.elem, v.num))
    BY <1>1 DEF ValueFields, ArrayHead, ArrayFields
  <2>3. ArrayHead(v.elem, v.num) \in Seq(AField) /\ Proper(ArrayHead(v.elem, v.num))
    BY <2>1, ArrayFieldsType
  <2>4. FlattenSeq(ArrayFields(v.elem, v.num)) \in Seq(AField) /\ Proper(FlattenSeq(ArrayFields(v.elem, v.num)))
    BY <2>1, ArrayFieldsType
  <2>5. ArrayHead(v.elem, v.num) \o FlattenSeq(ArrayFields(v.elem, v.num)) \in Seq(AField)
    BY <2>3, <2>4
  <2>6. Proper(ArrayHead(v.elem, v.num) \o FlattenSeq(ArrayFields(v.elem, v.num)))
    BY <2>3, <2>4, ProperConcat
  <2> QED BY <2>2, <2>5, <2>6
<1>2. CASE v.dtype # "array"
  <2>1. v.dtype \in ElementTypes /\ v.num \in ElementsOf(v.dtype)
    BY <1>2 DEF IsValue
  <2> QED BY <1>2, <2>1, ScalarFieldsType DEF ValueFields
<1> QED BY <1>1, <1>2

\* The type of an entry.
TypeField(v) == Field("dtype", 4, v.dtype)

\* It is a field.
LEMMA TypeFieldType ==
  ASSUME NEW v, IsValue(v)
  PROVE  /\ v.dtype \in Types /\ TypeField(v) \in AField /\ TypeField(v).kind = "dtype"
         /\ TypeField(v).width = 4 /\ TypeField(v).num = v.dtype
         /\ <<TypeField(v)>> \in Seq(AField) /\ Proper(<<TypeField(v)>>)
<1> DEFINE x == TypeField(v)
<1>1. v.dtype \in Types
  BY DEF IsValue, Types
<1>2. v.dtype \in Nums
  BY <1>1 DEF Nums
<1>3. 4 \in Nat
  OBVIOUS
<1>4. x \in AField /\ x.kind = "dtype" /\ x.width = 4 /\ x.num = v.dtype
  BY <1>2, <1>3, FieldType, KindsAre DEF TypeField
<1>5. <<x>> \in Seq(AField) /\ Proper(<<x>>)
  <2> HIDE DEF x
  <2> QED BY <1>4, ProperOne
<1> QED BY <1>1, <1>4, <1>5

\* The fields of an entry.
LEMMA EntryFieldsType ==
  ASSUME NEW kv, IsEntry(kv)
  PROVE  /\ EntryFields(kv) = (StringFields(kv.key) \o <<TypeField(kv.val)>>) \o ValueFields(kv.val)
         /\ StringFields(kv.key) \in Seq(AField) /\ ValueFields(kv.val) \in Seq(AField)
         /\ <<TypeField(kv.val)>> \in Seq(AField)
         /\ EntryFields(kv) \in Seq(AField) /\ Proper(EntryFields(kv))
<1> DEFINE a == StringFields(kv.key)
           b == <<TypeField(kv.val)>>
           c == ValueFields(kv.val)
<1>1. EntryFields(kv) = (a \o b) \o c
  BY DEF EntryFields, TypeField
<1>2. a \in Seq(AField) /\ Proper(a)
  BY StringFieldsType DEF IsEntry, Texts
<1>3. b \in Seq(AField) /\ Proper(b)
  BY TypeFieldType DEF IsEntry
<1>4. c \in Seq(AField) /\ Proper(c)
  BY ValueFieldsType DEF IsEntry
<1> HIDE DEF a, b, c
<1>5. a \o b \in Seq(AField) /\ Proper(a \o b)
  BY <1>2, <1>3, ProperConcat
<1>6. (a \o b) \o c \in Seq(AField) /\ Proper((a \o b) \o c)
  <2>1. \A x, y \in Seq(AField) : Proper(x) /\ Proper(y) => x \o y \in Seq(AField) /\ Proper(x \o y)
    BY ProperConcat
  <2> QED BY <1>4, <1>5, <2>1
<1> QED BY <1>1, <1>2, <1>3, <1>4, <1>6 DEF a, b, c

\* The fields of a tensor entry behind its name.
NDims(t) == Field("n_dims", 4, Len(t.dims))
DimFields(t) == [d \in 1..Len(t.dims) |-> Field("dim", 8, t.dims[d])]
TensorEnd(t) == <<Field("ggml_type", 4, 0), Field("offset", 8, t.offset)>>

\* They are fields.
LEMMA TensorPartsType ==
  ASSUME NEW t, IsTensor(t)
  PROVE  /\ NDims(t) \in AField /\ NDims(t).kind = "n_dims" /\ NDims(t).width = 4 /\ NDims(t).num = Len(t.dims)
         /\ <<NDims(t)>> \in Seq(AField) /\ Proper(<<NDims(t)>>)
         /\ DimFields(t) \in Seq(AField) /\ Proper(DimFields(t)) /\ Len(DimFields(t)) = Len(t.dims)
         /\ TensorEnd(t) \in Seq(AField) /\ Proper(TensorEnd(t))
<1> DEFINE n == Len(t.dims)
           s == DimFields(t)
           a == Field("ggml_type", 4, 0)
           b == Field("offset", 8, t.offset)
           x == NDims(t)
<1>1. n \in Nat /\ (\A d \in 1..n : t.dims[d] \in Nat) /\ t.offset \in Nat
  BY DEF IsTensor
<1>2. n \in Nums /\ (\A d \in 1..n : t.dims[d] \in Nums) /\ t.offset \in Nums /\ 0 \in Nums
  BY <1>1 DEF Nums
<1>3. 4 \in Nat /\ 8 \in Nat
  OBVIOUS
<1>4. x \in AField /\ x.kind = "n_dims" /\ x.width = 4 /\ x.num = n
  BY <1>2, <1>3, FieldType, KindsAre DEF NDims
<1>5. \A d \in 1..n : LET y == Field("dim", 8, t.dims[d]) IN y \in AField /\ y.kind = "dim" /\ y.width = 8
  BY <1>2, <1>3, FieldType, KindsAre
<1>6. s \in Seq(AField) /\ Len(s) = n /\ \A d \in 1..n : s[d].kind = "dim" /\ s[d].width = 8
  BY <1>1, <1>5 DEF DimFields
<1>7. a \in AField /\ a.kind = "ggml_type" /\ a.width = 4
  BY <1>2, <1>3, FieldType, KindsAre
<1>8. b \in AField /\ b.kind = "offset" /\ b.width = 8
  BY <1>2, <1>3, FieldType, KindsAre
<1> HIDE DEF n, s, a, b, x
<1>9. Proper(s)
  BY <1>6 DEF Proper
<1>10. <<x>> \in Seq(AField) /\ Proper(<<x>>)
  BY <1>4, ProperOne
<1> DEFINE u == <<a, b>>
<1>11. u \in Seq(AField) /\ Len(u) = 2 /\ u[1] = a /\ u[2] = b
  BY <1>7, <1>8
<1> HIDE DEF u
<1>12. \A j \in 1..2 : j = 1 \/ j = 2
  OBVIOUS
<1>13. Proper(u)
  BY <1>7, <1>8, <1>11, <1>12 DEF Proper
<1>14. u = TensorEnd(t)
  BY DEF u, a, b, TensorEnd
<1> QED BY <1>4, <1>6, <1>9, <1>10, <1>11, <1>13, <1>14 DEF n, s, x

\* The fields of a tensor entry.
LEMMA TensorFieldsType ==
  ASSUME NEW t, IsTensor(t)
  PROVE  /\ TensorFields(t) = ((StringFields(t.name) \o <<NDims(t)>>) \o DimFields(t)) \o TensorEnd(t)
         /\ StringFields(t.name) \in Seq(AField)
         /\ TensorFields(t) \in Seq(AField) /\ Proper(TensorFields(t))
<1> DEFINE a == StringFields(t.name)
           b == <<NDims(t)>>
           c == DimFields(t)
           d == TensorEnd(t)
<1>1. TensorFields(t) = ((a \o b) \o c) \o d
  BY DEF TensorFields, NDims, DimFields, TensorEnd
<1>2. a \in Seq(AField) /\ Proper(a)
  <2>1. t.name \in Strings(Int \X STRING) /\ Int \X STRING \in Texts
    BY DEF IsTensor, Texts
  <2> QED BY <2>1, StringFieldsType
<1>3. b \in Seq(AField) /\ Proper(b) /\ c \in Seq(AField) /\ Proper(c) /\ d \in Seq(AField) /\ Proper(d)
  BY TensorPartsType
<1> HIDE DEF a, b, c, d
<1>4. \A x, y \in Seq(AField) : Proper(x) /\ Proper(y) => x \o y \in Seq(AField) /\ Proper(x \o y)
  BY ProperConcat
<1>5. a \o b \in Seq(AField) /\ Proper(a \o b)
  BY <1>2, <1>3, <1>4
<1>6. (a \o b) \o c \in Seq(AField) /\ Proper((a \o b) \o c)
  BY <1>3, <1>4, <1>5
<1>7. ((a \o b) \o c) \o d \in Seq(AField) /\ Proper(((a \o b) \o c) \o d)
  BY <1>3, <1>4, <1>6
<1> QED BY <1>1, <1>2, <1>7 DEF a, b, c, d

\* The fields of the metadata, and of the tensor entries.
Entries(f) == [j \in 1..Len(f.kvs) |-> EntryFields(f.kvs[j])]
TensorInfos(f) == [j \in 1..Len(f.tensors) |-> TensorFields(f.tensors[j])]

\* The fields of a file.
LEMMA FieldsType ==
  ASSUME NEW f, IsFile(f)
  PROVE  /\ Fields(f) = (<<Header>> \o FlattenSeq(Entries(f))) \o FlattenSeq(TensorInfos(f))
         /\ <<Header>> \in Seq(AField) /\ Header \in AField /\ Header.width = 24
         /\ Entries(f) \in Seq(Seq(AField)) /\ Len(Entries(f)) = Len(f.kvs)
         /\ TensorInfos(f) \in Seq(Seq(AField)) /\ Len(TensorInfos(f)) = Len(f.tensors)
         /\ FlattenSeq(Entries(f)) \in Seq(AField) /\ FlattenSeq(TensorInfos(f)) \in Seq(AField)
         /\ Fields(f) \in Seq(AField) /\ Proper(Fields(f))
<1> DEFINE h == <<Header>>
           es == Entries(f)
           ts == TensorInfos(f)
           a == FlattenSeq(es)
           b == FlattenSeq(ts)
<1>1. Fields(f) = (h \o a) \o b
  BY DEF Fields, Entries, TensorInfos
<1>2. Header \in AField /\ Header.kind = "header" /\ Header.width = 24
  <2>1. 0 \in Nums /\ 24 \in Nat
    BY DEF Nums
  <2> QED BY <2>1, FieldType, KindsAre DEF Header
<1>3. h \in Seq(AField) /\ Proper(h)
  BY <1>2, ProperOne
<1>4. Len(f.kvs) \in Nat /\ Len(f.tensors) \in Nat
  BY DEF IsFile
<1>5. \A j \in 1..Len(f.kvs) : EntryFields(f.kvs[j]) \in Seq(AField) /\ Proper(EntryFields(f.kvs[j]))
  BY EntryFieldsType DEF IsFile
<1>6. es \in Seq(Seq(AField)) /\ Len(es) = Len(f.kvs) /\ \A j \in 1..Len(f.kvs) : es[j] = EntryFields(f.kvs[j])
  BY <1>4, <1>5 DEF Entries
<1>7. \A j \in 1..Len(f.tensors) : TensorFields(f.tensors[j]) \in Seq(AField) /\ Proper(TensorFields(f.tensors[j]))
  BY TensorFieldsType DEF IsFile
<1>8. ts \in Seq(Seq(AField)) /\ Len(ts) = Len(f.tensors) /\ \A j \in 1..Len(f.tensors) : ts[j] = TensorFields(f.tensors[j])
  BY <1>4, <1>7 DEF TensorInfos
<1> HIDE DEF h, es, ts
<1>9. a \in Seq(AField) /\ Proper(a)
  BY <1>5, <1>6, ProperFlatten
<1>10. b \in Seq(AField) /\ Proper(b)
  BY <1>7, <1>8, ProperFlatten
<1> HIDE DEF a, b
<1>11. \A x, y \in Seq(AField) : Proper(x) /\ Proper(y) => x \o y \in Seq(AField) /\ Proper(x \o y)
  BY ProperConcat
<1>12. h \o a \in Seq(AField) /\ Proper(h \o a)
  BY <1>3, <1>9, <1>11
<1>13. (h \o a) \o b \in Seq(AField) /\ Proper((h \o a) \o b)
  BY <1>10, <1>11, <1>12
<1> QED BY <1>1, <1>2, <1>3, <1>6, <1>8, <1>9, <1>10, <1>13 DEF h, es, ts, a, b

-----------------------------------------------------------------------------
\* What an int can count.

\* The remainder is the only one.
LEMMA ModUnique ==
  ASSUME NEW a \in Nat, a # 0, NEW x \in Int, NEW q \in Int, NEW r \in 0..(a - 1), x = a * q + r
  PROVE  x % a = r
<1>1. x % a \in 0..(a - 1) /\ x \div a \in Int /\ x = a * (x \div a) + (x % a)
  OBVIOUS
<1>2. PICK p, s : p = x \div a /\ s = x % a
  OBVIOUS
<1>3. a * (q - p) = s - r /\ s \in 0..(a - 1) /\ p \in Int
  BY <1>1, <1>2
<1>4. q - p < 1 /\ q - p > -1
  BY <1>3
<1>5. q - p = 0
  BY <1>3, <1>4
<1> QED BY <1>2, <1>3, <1>5

\* The conversion to int leaves such a number as it is.
LEMMA ToIntIs ==
  ASSUME NEW n \in Nat, n < IntLimit
  PROVE  ToInt(n) = n
<1>1. IntLimit \in Nat /\ IntLimit # 0
  BY LoaderAssumption
<1> DEFINE a == 2 * IntLimit
           x == n + IntLimit
<1>2. a \in Nat /\ a # 0 /\ x \in Int /\ 0 \in Int /\ x \in 0..(a - 1) /\ x = a * 0 + x
  BY <1>1
<1> HIDE DEF a, x
<1>3. x % a = x
  BY <1>2, ModUnique
<1>4. (n + IntLimit) % (2 * IntLimit) = n + IntLimit
  BY <1>3 DEF a, x
<1> QED BY <1>1, <1>4 DEF ToInt

\* Offsets that never decrease from one to the next.
LEMMA Ascending ==
  ASSUME NEW n \in Nat, NEW c \in [0..n -> Nat], \A j \in 1..n : c[j - 1] <= c[j]
  PROVE  \A i, j \in 0..n : i <= j => c[i] <= c[j]
<1> DEFINE T == {k \in Nat : \A i \in 0..n : i + k <= n => c[i] <= c[i + k]}
<1>1. 0 \in T
  OBVIOUS
<1>2. ASSUME NEW k \in Nat, k \in T PROVE k + 1 \in T
  <2> SUFFICES ASSUME NEW i \in 0..n, i + (k + 1) <= n PROVE c[i] <= c[i + (k + 1)]
    OBVIOUS
  <2>1. PICK j : j = i + (k + 1)
    OBVIOUS
  <2>2. j \in 1..n /\ j - 1 = i + k /\ i + k <= n /\ j - 1 \in 0..n /\ j \in 0..n
    BY <2>1
  <2>3. c[i] <= c[j - 1]
    BY <1>2, <2>2
  <2>4. c[j - 1] <= c[j]
    BY <2>2
  <2>5. c[i] \in Nat /\ c[j - 1] \in Nat /\ c[j] \in Nat
    BY <2>2
  <2> QED BY <2>1, <2>3, <2>4, <2>5
<1>3. Nat \subseteq T
  <2> HIDE DEF T
  <2> QED BY <1>1, <1>2, NatSetInduction
<1> SUFFICES ASSUME NEW i \in 0..n, NEW j \in 0..n, i <= j PROVE c[i] <= c[j]
  OBVIOUS
<1>4. j - i \in Nat /\ i + (j - i) = j /\ j <= n
  OBVIOUS
<1>5. j - i \in T
  BY <1>3, <1>4
<1> QED BY <1>4, <1>5

\* Fields that lie on the tape take as many bytes as they should.
LEMMA LaidExtent ==
  ASSUME NEW tape, NEW s \in Seq(AField), NEW p \in Nat, NEW q \in Nat, Laid(tape, p, s, q)
  PROVE  Extent(s) \in Nat /\ q = p + Extent(s) /\ p <= q
<1> DEFINE n == Len(s)
           G(g) == [j \in 0..n |-> IF j = 0 THEN 0 ELSE g[j - 1] + s[j].width]
           end == CHOOSE end : end = G(end)
<1>1. n \in Nat
  OBVIOUS
<1>2. \A j \in 1..n : s[j].width \in Nat
  <2>1. \A j \in 1..n : s[j] \in AField
    OBVIOUS
  <2> QED BY <2>1 DEF AField
<1>3. Extent(s) = end[n]
  BY DEF Extent
<1>4. PICK c : LaidAt(c, tape, p, s, q)
  BY DEF Laid
<1>5. c \in [0..n -> Nat] /\ c[0] = p /\ c[n] = q /\ \A j \in 1..n : c[j] = c[j - 1] + s[j].width
  BY <1>4 DEF LaidAt
<1> HIDE DEF n
<1> DEFINE h == [j \in 0..n |-> c[j] - p]
<1>6. h = G(h)
  <2>1. ASSUME NEW j \in 0..n PROVE h[j] = IF j = 0 THEN 0 ELSE h[j - 1] + s[j].width
    <3>1. CASE j = 0
      BY <1>5, <3>1
    <3>2. CASE j # 0
      <4>1. j \in 1..n /\ j - 1 \in 0..n
        BY <1>1, <3>2
      <4>2. h[j - 1] = c[j - 1] - p /\ h[j] = c[j] - p /\ c[j - 1] \in Nat /\ c[j] \in Nat
        BY <1>5, <4>1
      <4>3. c[j] = c[j - 1] + s[j].width /\ s[j].width \in Nat
        BY <1>2, <1>5, <4>1
      <4> HIDE DEF h
      <4> QED BY <3>2, <4>2, <4>3
    <3> QED BY <3>1, <3>2
  <2>2. h = [j \in 0..n |-> h[j]]
    OBVIOUS
  <2> HIDE DEF h
  <2> QED BY <2>1, <2>2
<1>7. end = G(end)
  <2> HIDE DEF G, h
  <2> QED BY <1>6
<1> HIDE DEF end
<1>8. PICK e : e = end
  OBVIOUS
<1>9. e = [j \in 0..n |-> IF j = 0 THEN 0 ELSE e[j - 1] + s[j].width]
  BY <1>7, <1>8
<1> DEFINE T == {k \in Nat : k <= n => c[k] = p + e[k] /\ e[k] \in Nat}
<1>10. 0 \in T
  <2>1. 0 \in 0..n
    BY <1>1
  <2>2. e[0] = 0
    BY <1>9, <2>1
  <2> QED BY <1>5, <2>2
<1>11. ASSUME NEW k \in Nat, k \in T PROVE k + 1 \in T
  <2> SUFFICES ASSUME k + 1 <= n PROVE c[k + 1] = p + e[k + 1] /\ e[k + 1] \in Nat
    OBVIOUS
  <2>1. PICK i : i = k + 1
    OBVIOUS
  <2>2. i \in 0..n /\ i # 0 /\ i - 1 = k /\ k <= n /\ i \in 1..n
    BY <1>1, <2>1
  <2>3. e[i] = e[k] + s[i].width /\ s[i].width \in Nat
    BY <1>2, <1>9, <2>2
  <2>4. c[i] = c[k] + s[i].width
    BY <1>5, <2>2
  <2>5. c[k] = p + e[k] /\ e[k] \in Nat
    BY <1>11, <2>2
  <2> QED BY <2>1, <2>3, <2>4, <2>5
<1>12. q = p + e[n] /\ e[n] \in Nat
  <2>1. Nat \subseteq T
    <3> HIDE DEF T
    <3> QED BY <1>10, <1>11, NatSetInduction
  <2> QED BY <1>1, <1>5, <2>1
<1> QED BY <1>3, <1>8, <1>12

-----------------------------------------------------------------------------
\* What the parser reads.

\* The two fields x and y lie between p and q.
FindsTwo(tape, p, x, y, q) ==
  Finds(tape, p, x) /\ Finds(tape, p + x.width, y) /\ q = p + x.width + y.width

\* Two fields.
LEMMA LaidTwo ==
  ASSUME NEW tape, NEW x \in AField, NEW y \in AField, NEW p \in Nat, NEW q \in Nat, Laid(tape, p, <<x, y>>, q)
  PROVE  FindsTwo(tape, p, x, y, q)
<1> DEFINE s == <<x, y>>
<1>1. Len(s) = 2 /\ s[1] = x /\ s[2] = y
  OBVIOUS
<1> HIDE DEF s
<1>2. PICK c : LaidAt(c, tape, p, s, q)
  BY DEF Laid, s
<1>3. /\ c[0] = p /\ c[2] = q /\ 1 \in 1..Len(s) /\ 2 \in 1..Len(s) /\ 1 - 1 = 0 /\ 2 - 1 = 1
  BY <1>1, <1>2 DEF LaidAt
<1>4. /\ c[1] = c[0] + s[1].width /\ Finds(tape, c[0], s[1])
      /\ c[2] = c[1] + s[2].width /\ Finds(tape, c[1], s[2])
  BY <1>2, <1>3 DEF LaidAt
<1> QED BY <1>1, <1>3, <1>4 DEF FindsTwo

\* A string is read as it lies there.
LEMMA StringRead ==
  ASSUME NEW tape, NEW T \in Texts, NEW x \in Strings(T), NEW p \in Nat, NEW q \in Nat,
         Laid(tape, p, StringFields(x), q), q - p < IntLimit
  PROVE  StringFromPtr(tape, p) = Parsed(8 + x.len, x) /\ q = p + (8 + x.len)
<1> DEFINE a == Field("length", 8, x.len)
           b == Field("bytes", x.len, x.text)
<1>1. x.len \in Nat /\ x.text \in T /\ x = [len |-> x.len, text |-> x.text]
  BY DEF Strings
<1>2. x.len \in Nums /\ x.text \in Nums
  BY <1>1 DEF Nums, Texts
<1>3. a \in AField /\ a.kind = "length" /\ a.width = 8 /\ a.num = x.len
  <2>1. 8 \in Nat
    OBVIOUS
  <2> QED BY <1>2, <2>1, FieldType, KindsAre
<1>4. b \in AField /\ b.kind = "bytes" /\ b.width = x.len /\ b.num = x.text
  BY <1>1, <1>2, FieldType, KindsAre
<1> HIDE DEF a, b
<1>5. Laid(tape, p, <<a, b>>, q)
  BY DEF StringFields, a, b
<1>6. FindsTwo(tape, p, a, b, q)
  BY <1>3, <1>4, <1>5, LaidTwo
<1>7. /\ Fits(tape, p, "length") /\ At(tape, p, "length") = x.len
      /\ Fits(tape, p + 8, "bytes") /\ At(tape, p + 8, "bytes") = x.text
  BY <1>3, <1>4, <1>6 DEF Finds, FindsTwo
<1>8. q = p + (8 + x.len)
  BY <1>1, <1>3, <1>4, <1>6 DEF FindsTwo
<1>9. ToInt(8 + x.len) = 8 + x.len
  <2>1. 8 + x.len \in Nat /\ 8 + x.len < IntLimit
    BY <1>1, <1>8
  <2> QED BY <2>1, ToIntIs
<1> QED BY <1>1, <1>7, <1>8, <1>9 DEF StringFromPtr

\* So is a scalar or a string of an array.
LEMMA ElementRead ==
  ASSUME NEW tape, NEW dtype \in ElementTypes, NEW num \in ElementsOf(dtype), NEW p \in Nat, NEW q \in Nat,
         Laid(tape, p, ScalarFields(dtype, num), q), q - p < IntLimit
  PROVE  \E w \in Nat : q = p + w /\ ElementFromPtr(tape, p, dtype) = Parsed(w, num)
<1>1. CASE dtype = "string"
  <2>1. num \in Strings(STRING) /\ STRING \in Texts /\ ScalarFields(dtype, num) = StringFields(num)
    BY <1>1 DEF ElementsOf, Texts, ScalarFields
  <2>2. StringFromPtr(tape, p) = Parsed(8 + num.len, num) /\ q = p + (8 + num.len)
    BY <2>1, StringRead
  <2>3. 8 + num.len \in Nat
    BY <2>1 DEF Strings
  <2> QED BY <1>1, <2>2, <2>3 DEF ElementFromPtr
<1>2. CASE dtype # "string"
  <2>1. dtype \in ScalarTypes /\ num \in Int
    BY <1>2 DEF ElementTypes, ElementsOf
  <2>2. Width(dtype) \in Nat
    BY <2>1, WidthType
  <2>3. dtype \in Kinds /\ num \in Nums
    BY <2>1 DEF Kinds, Types, ElementTypes, Nums
  <2> DEFINE x == Field(dtype, Width(dtype), num)
  <2>4. x \in AField /\ x.width = Width(dtype) /\ x.kind = dtype /\ x.num = num
    BY <2>2, <2>3, FieldType
  <2>5. ScalarFields(dtype, num) = <<x>>
    BY <1>2 DEF ScalarFields
  <2> HIDE DEF x
  <2>6. q = p + x.width /\ Finds(tape, p, x)
    BY <2>4, <2>5, LaidOne
  <2>7. Fits(tape, p, dtype) /\ At(tape, p, dtype) = num
    BY <2>4, <2>6 DEF Finds
  <2>8. ElementFromPtr(tape, p, dtype) = Parsed(Width(dtype), num)
    BY <1>2, <2>7 DEF ElementFromPtr, PrimitiveFromPtr
  <2> QED BY <2>2, <2>4, <2>6, <2>8
<1> QED BY <1>1, <1>2

\* The first k elements.
FirstOf(num, k) == [j \in 1..k |-> num[j]]

\* One more.
LEMMA FirstOfNext ==
  ASSUME NEW S, NEW num \in Seq(S), NEW k \in 1..Len(num)
  PROVE  Append(FirstOf(num, k - 1), num[k]) = FirstOf(num, k) /\ FirstOf(num, k - 1) \in Seq(S)
<1>1. Len(num) \in Nat /\ k - 1 \in Nat /\ k \in Nat /\ \A j \in 1..k : num[j] \in S
  OBVIOUS
<1> DEFINE x == FirstOf(num, k - 1)
           y == FirstOf(num, k)
<1>2. x \in Seq(S) /\ Len(x) = k - 1 /\ \A j \in 1..(k - 1) : x[j] = num[j]
  BY <1>1 DEF FirstOf
<1>3. y \in Seq(S) /\ Len(y) = k /\ \A j \in 1..k : y[j] = num[j]
  BY <1>1 DEF FirstOf
<1> HIDE DEF x, y
<1>4. /\ Append(x, num[k]) \in Seq(S) /\ Len(Append(x, num[k])) = k /\ Append(x, num[k])[k] = num[k]
      /\ \A j \in 1..(k - 1) : Append(x, num[k])[j] = x[j]
  BY <1>1, <1>2
<1>5. \A j \in 1..k : j = k \/ j \in 1..(k - 1)
  BY <1>1
<1>6. \A j \in 1..k : Append(x, num[k])[j] = y[j]
  BY <1>2, <1>3, <1>4, <1>5
<1>7. Append(x, num[k]) = y
  BY <1>3, <1>4, <1>6
<1> QED BY <1>2, <1>7 DEF x, y

\* An array is read as it lies there, element by element.
LEMMA ArrayRead ==
  ASSUME NEW tape, NEW elem \in ElementTypes, NEW num \in Seq(ElementsOf(elem)), NEW p \in Nat, NEW q \in Nat,
         Laid(tape, p, ArrayHead(elem, num) \o FlattenSeq(ArrayFields(elem, num)), q), q - p < IntLimit
  PROVE  \E w \in Nat : /\ q = p + w /\ ArrayFromPtr(tape, p) = Parsed(w, num)
                        /\ At(tape, p, "dtype") = elem
<1> DEFINE n == Len(num)
           ss == ArrayFields(elem, num)
           a == Field("dtype", 4, elem)
           b == Field("length", 8, n)
           E == ElementsOf(elem)
<1>1. n \in Nat /\ \A j \in 1..n : num[j] \in E
  OBVIOUS
<1>2. elem \in Nums /\ n \in Nums /\ 4 \in Nat /\ 8 \in Nat
  <2>1. elem \in Types
    BY DEF Types
  <2> QED BY <1>1, <2>1 DEF Nums
<1>3. a \in AField /\ a.kind = "dtype" /\ a.width = 4 /\ a.num = elem
  BY <1>2, FieldType, KindsAre
<1>4. b \in AField /\ b.kind = "length" /\ b.width = 8 /\ b.num = n
  BY <1>2, FieldType, KindsAre
<1>5. ss \in Seq(Seq(AField)) /\ FlattenSeq(ss) \in Seq(AField) /\ ArrayHead(elem, num) \in Seq(AField)
  BY ArrayFieldsType
<1>6. ArrayHead(elem, num) = <<a, b>>
  BY DEF ArrayHead
<1>7. Len(ss) = n /\ \A j \in 1..n : ss[j] = ScalarFields(elem, num[j])
  BY <1>1 DEF ArrayFields
<1> HIDE DEF n, ss, a, b, E
<1>8. PICK m \in Nat : Laid(tape, p, <<a, b>>, m) /\ Laid(tape, m, FlattenSeq(ss), q)
  <2>1. Laid(tape, p, <<a, b>> \o FlattenSeq(ss), q) /\ <<a, b>> \in Seq(AField)
    BY <1>5, <1>6 DEF ss
  <2> QED BY <1>5, <2>1, LaidSplit
<1>9. FindsTwo(tape, p, a, b, m)
  BY <1>3, <1>4, <1>8, LaidTwo
<1>10. /\ Fits(tape, p, "dtype") /\ At(tape, p, "dtype") = elem
       /\ Fits(tape, p + 4, "length") /\ At(tape, p + 4, "length") = n
       /\ m = p + 12
  BY <1>3, <1>4, <1>9 DEF Finds, FindsTwo
<1>11. PICK c : LaidApart(c, tape, m, ss, q)
  BY <1>5, <1>8, LaidFlatten
<1>12. /\ c \in [0..n -> Nat] /\ c[0] = m /\ c[n] = q
       /\ \A j \in 1..n : Laid(tape, c[j - 1], ScalarFields(elem, num[j]), c[j])
       /\ \A i, j \in 0..n : i <= j => c[i] <= c[j]
  <2>1. /\ c \in [0..n -> Nat] /\ c[0] = m /\ c[n] = q
        /\ \A j \in 1..n : Laid(tape, c[j - 1], ScalarFields(elem, num[j]), c[j])
    BY <1>7, <1>11 DEF LaidApart
  <2>2. \A j \in 1..n : ScalarFields(elem, num[j]) \in Seq(AField)
    BY <1>5, <1>7
  <2>3. ASSUME NEW j \in 1..n PROVE c[j - 1] <= c[j]
    <3>1. c[j - 1] \in Nat /\ c[j] \in Nat
      BY <1>1, <2>1
    <3> QED BY <2>1, <2>2, <3>1, LaidExtent
  <2> QED BY <1>1, <2>1, <2>3, Ascending
<1>13. \A j \in 1..n : \E w \in Nat : c[j] = c[j - 1] + w /\ ElementFromPtr(tape, c[j - 1], elem) = Parsed(w, num[j])
  <2> SUFFICES ASSUME NEW j \in 1..n
               PROVE  \E w \in Nat : c[j] = c[j - 1] + w /\ ElementFromPtr(tape, c[j - 1], elem) = Parsed(w, num[j])
    OBVIOUS
  <2>1. PICK x, y, z : x = c[j - 1] /\ y = c[j] /\ z = num[j]
    OBVIOUS
  <2>2. j - 1 \in 0..n /\ j \in 0..n
    BY <1>1
  <2>3. x \in Nat /\ y \in Nat /\ z \in ElementsOf(elem) /\ Laid(tape, x, ScalarFields(elem, z), y)
    BY <1>1, <1>12, <2>1, <2>2 DEF E
  <2>4. y - x < IntLimit
    <3>1. m <= x /\ y <= q
      <4>1. 0 \in 0..n /\ n \in 0..n /\ 0 <= j - 1 /\ j <= n
        BY <1>1
      <4> QED BY <1>12, <2>1, <2>2, <4>1
    <3>2. IntLimit \in Nat
      BY LoaderAssumption
    <3> QED BY <1>10, <2>3, <3>1, <3>2
  <2>5. \E w \in Nat : y = x + w /\ ElementFromPtr(tape, x, elem) = Parsed(w, z)
    BY <2>3, <2>4, ElementRead
  <2> QED BY <2>1, <2>5
<1>14. ASSUME NEW k \in 0..n PROVE c[k] - m \in Nat /\ m + (c[k] - m) = c[k]
  <2>1. 0 \in 0..n /\ 0 <= k /\ c[k] \in Nat
    BY <1>1, <1>12
  <2>2. m <= c[k]
    BY <1>12, <2>1
  <2> QED BY <2>1, <2>2
<1> DEFINE And(so, e) == [ok |-> so.ok /\ e.ok, size |-> so.size + e.size, num |-> Append(so.num, e.num)]
           Here(so) == ElementFromPtr(tape, p + 12 + so.size, elem)
           G(g) == [k \in 0..n |-> IF k = 0 THEN Parsed(0, <<>>) ELSE And(g[k - 1], Here(g[k - 1]))]
           read == CHOOSE read : read = G(read)
           H(k) == Parsed(c[k] - m, FirstOf(num, k))
           h == [k \in 0..n |-> H(k)]
<1>15. ElementsFromPtr(tape, p + 12, elem, n) = read[n]
  BY DEF ElementsFromPtr
<1>16. H(0) = Parsed(0, <<>>)
  <2>1. c[0] - m = 0
    BY <1>12
  <2>2. FirstOf(num, 0) = <<>>
    BY DEF FirstOf
  <2> QED BY <2>1, <2>2
<1>17. ASSUME NEW k \in 1..n PROVE And(H(k - 1), Here(H(k - 1))) = H(k)
  <2>1. k - 1 \in 0..n /\ k \in 0..n
    BY <1>1
  <2>2. PICK w \in Nat : c[k] = c[k - 1] + w /\ ElementFromPtr(tape, c[k - 1], elem) = Parsed(w, num[k])
    BY <1>13
  <2>3. c[k - 1] - m \in Nat /\ m + (c[k - 1] - m) = c[k - 1]
    BY <1>14, <2>1
  <2>4. c[k - 1] \in Nat /\ c[k] \in Nat
    BY <1>12, <2>1
  <2>5. Append(FirstOf(num, k - 1), num[k]) = FirstOf(num, k)
    BY FirstOfNext DEF n
  <2> DEFINE so == H(k - 1)
             e == Here(so)
  <2>6. so.ok = TRUE /\ so.size = c[k - 1] - m /\ so.num = FirstOf(num, k - 1)
    BY DEF Parsed
  <2>7. p + 12 + so.size = c[k - 1]
    BY <1>10, <2>3, <2>6
  <2> HIDE DEF so
  <2>8. e = Parsed(w, num[k])
    BY <2>2, <2>7
  <2>9. e.ok = TRUE /\ e.size = w /\ e.num = num[k]
    BY <2>8 DEF Parsed
  <2> HIDE DEF e
  <2>10. so.size + e.size = c[k] - m
    BY <1>10, <2>2, <2>3, <2>4, <2>6, <2>9
  <2>11. And(so, e) = Parsed(c[k] - m, FirstOf(num, k))
    BY <2>5, <2>6, <2>9, <2>10 DEF Parsed
  <2> QED BY <2>11 DEF so, e
<1> HIDE DEF And, Here, H
<1>18. h = G(h)
  <2>1. ASSUME NEW k \in 0..n PROVE h[k] = IF k = 0 THEN Parsed(0, <<>>) ELSE And(h[k - 1], Here(h[k - 1]))
    <3>1. CASE k = 0
      BY <1>16, <3>1
    <3>2. CASE k # 0
      <4>1. k \in 1..n /\ k - 1 \in 0..n
        BY <1>1, <3>2
      <4>2. h[k - 1] = H(k - 1) /\ h[k] = H(k)
        BY <4>1
      <4> HIDE DEF h
      <4> QED BY <1>17, <3>2, <4>1, <4>2
    <3> QED BY <3>1, <3>2
  <2>2. h = [k \in 0..n |-> h[k]]
    OBVIOUS
  <2> HIDE DEF h
  <2> QED BY <2>1, <2>2
<1>19. read = G(read)
  <2> HIDE DEF G, h
  <2> QED BY <1>18
<1> HIDE DEF read
<1>20. \A k \in 0..n : read[k] = IF k = 0 THEN Parsed(0, <<>>) ELSE And(read[k - 1], Here(read[k - 1]))
  <2>1. PICK g : g = read
    OBVIOUS
  <2>2. g = [k \in 0..n |-> IF k = 0 THEN Parsed(0, <<>>) ELSE And(g[k - 1], Here(g[k - 1]))]
    BY <1>19, <2>1
  <2>3. \A k \in 0..n : g[k] = IF k = 0 THEN Parsed(0, <<>>) ELSE And(g[k - 1], Here(g[k - 1]))
    BY <2>2
  <2> QED BY <2>1, <2>3
<1> DEFINE U == {k \in Nat : k <= n => read[k] = H(k)}
<1>21. 0 \in U
  <2>1. 0 \in 0..n
    BY <1>1
  <2> QED BY <1>16, <1>20, <2>1
<1>22. ASSUME NEW k \in Nat, k \in U PROVE k + 1 \in U
  <2> SUFFICES ASSUME k + 1 <= n PROVE read[k + 1] = H(k + 1)
    OBVIOUS
  <2>1. PICK i : i = k + 1
    OBVIOUS
  <2>2. i \in 0..n /\ i # 0 /\ i - 1 = k /\ k <= n /\ i \in 1..n
    BY <1>1, <2>1
  <2>3. read[i - 1] = H(i - 1)
    BY <1>22, <2>2
  <2>4. read[i] = And(read[i - 1], Here(read[i - 1]))
    BY <1>20, <2>2
  <2> QED BY <1>17, <2>1, <2>2, <2>3, <2>4
<1>23. read[n] = H(n)
  <2>1. Nat \subseteq U
    <3> HIDE DEF U
    <3> QED BY <1>21, <1>22, NatSetInduction
  <2> QED BY <1>1, <2>1
<1>24. FirstOf(num, n) = num
  BY <1>1 DEF FirstOf, n
<1>25. read[n] = Parsed(q - m, num)
  BY <1>12, <1>23, <1>24 DEF H
<1>26. ArrayFromPtr(tape, p) = Parsed(ArraySize(q - m), num)
  <2> DEFINE so == ElementsFromPtr(tape, p + 12, elem, n)
  <2>1. so = Parsed(q - m, num)
    BY <1>15, <1>25
  <2>2. ArrayFromPtr(tape, p) = [ok |-> so.ok, size |-> ArraySize(so.size), num |-> so.num]
    BY <1>10 DEF ArrayFromPtr
  <2> HIDE DEF so
  <2>3. so.ok = TRUE /\ so.size = q - m /\ so.num = num
    BY <2>1 DEF Parsed
  <2> QED BY <2>2, <2>3 DEF Parsed
<1>27. n \in 0..n
  BY <1>1
<1>28. q - m \in Nat /\ m + (q - m) = q
  BY <1>12, <1>14, <1>27
<1>29. ArraySize(q - m) = 12 + (q - m) /\ 12 + (q - m) \in Nat /\ q = p + (12 + (q - m))
  <2>1. 4 + 8 + (q - m) = 12 + (q - m) /\ 12 + (q - m) \in Nat /\ q = p + (12 + (q - m))
    BY <1>10, <1>28
  <2>2. 12 + (q - m) < IntLimit
    BY <1>10, <2>1
  <2>3. ToInt(12 + (q - m)) = 12 + (q - m)
    BY <2>1, <2>2, ToIntIs
  <2> QED BY <2>1, <2>3 DEF ArraySize
<1> QED BY <1>10, <1>26, <1>29

\* What Metadata::from_ptr gives for an entry of w bytes.
ReadEntry(kv, w) == [ok |-> TRUE, size |-> w, key |-> kv.key, val |-> kv.val]

\* An entry is read as it lies there.
LEMMA EntryRead ==
  ASSUME NEW tape, NEW kv, IsEntry(kv), NEW p \in Nat, NEW q \in Nat, Laid(tape, p, EntryFields(kv), q),
         q - p < IntLimit
  PROVE  \E w \in Nat : q = p + w /\ MetadataFromPtr(tape, p) = ReadEntry(kv, w)
<1> DEFINE a == StringFields(kv.key)
           x == TypeField(kv.val)
           b == <<x>>
           v == kv.val
           c == ValueFields(v)
           k == 8 + kv.key.len
<1>1. EntryFields(kv) = (a \o b) \o c /\ a \in Seq(AField) /\ b \in Seq(AField) /\ c \in Seq(AField)
  BY EntryFieldsType
<1>2. IsValue(v) /\ kv.key \in Strings(STRING) /\ STRING \in Texts /\ k \in Nat
  BY DEF IsEntry, Texts, Strings
<1>3. x \in AField /\ x.kind = "dtype" /\ x.width = 4 /\ x.num = v.dtype
  BY <1>2, TypeFieldType
<1> HIDE DEF a, b, c, x
<1>4. a \o b \in Seq(AField)
  BY <1>1
<1>5. PICK r \in Nat : Laid(tape, p, a \o b, r) /\ Laid(tape, r, c, q)
  <2>1. Laid(tape, p, (a \o b) \o c, q)
    BY <1>1
  <2>2. \A s, u \in Seq(AField) : Laid(tape, p, s \o u, q) => \E r \in Nat : Laid(tape, p, s, r) /\ Laid(tape, r, u, q)
    BY LaidSplit
  <2> QED BY <1>1, <1>4, <2>1, <2>2
<1>6. PICK m \in Nat : Laid(tape, p, a, m) /\ Laid(tape, m, b, r)
  BY <1>1, <1>5, LaidSplit
<1>7. r = m + 4 /\ Finds(tape, m, x) /\ p <= m /\ r <= q /\ m - p < IntLimit /\ q - r < IntLimit
  <2>1. r = m + 4 /\ Finds(tape, m, x)
    BY <1>3, <1>6, LaidOne DEF b
  <2>2. p <= m
    BY <1>1, <1>6, LaidExtent
  <2>3. r <= q
    BY <1>1, <1>5, LaidExtent
  <2>4. IntLimit \in Nat
    BY LoaderAssumption
  <2> QED BY <2>1, <2>2, <2>3, <2>4
<1>8. StringFromPtr(tape, p) = Parsed(k, kv.key) /\ m = p + k
  BY <1>2, <1>6, <1>7, StringRead DEF a
<1>9. Fits(tape, p + k, "dtype") /\ At(tape, p + k, "dtype") = v.dtype /\ r = p + k + 4
  BY <1>3, <1>7, <1>8 DEF Finds
<1> DEFINE key == StringFromPtr(tape, p)
<1>10. key.ok = TRUE /\ key.size = k /\ key.num = kv.key
  BY <1>8 DEF Parsed
<1> HIDE DEF key
<1>11. CASE v.dtype = "array"
  <2>1. v = [dtype |-> "array", elem |-> v.elem, num |-> v.num] /\ v.elem \in ElementTypes
        /\ v.num \in Seq(ElementsOf(v.elem))
    BY <1>2, <1>11 DEF IsValue
  <2>2. c = ArrayHead(v.elem, v.num) \o FlattenSeq(ArrayFields(v.elem, v.num))
    BY <1>11 DEF ValueFields, ArrayHead, ArrayFields, c
  <2>3. PICK w \in Nat : q = r + w /\ ArrayFromPtr(tape, r) = Parsed(w, v.num) /\ At(tape, r, "dtype") = v.elem
    BY <1>5, <1>7, <2>1, <2>2, ArrayRead
  <2> DEFINE val == ArrayFromPtr(tape, p + k + 4)
  <2>4. val.ok = TRUE /\ val.size = w /\ val.num = v.num
    BY <1>9, <2>3 DEF Parsed
  <2>5. MetadataFromPtr(tape, p) =
          [ok |-> val.ok, size |-> ToInt(k + 4 + val.size), key |-> kv.key,
           val |-> [dtype |-> "array", elem |-> At(tape, p + k + 4, "dtype"), num |-> val.num]]
    <3> HIDE DEF val
    <3> QED BY <1>9, <1>10, <1>11 DEF MetadataFromPtr, key, val
  <2> HIDE DEF val
  <2>6. k + 4 + w \in Nat /\ q = p + (k + 4 + w)
    BY <1>2, <1>9, <2>3
  <2>7. ToInt(k + 4 + w) = k + 4 + w
    <3>1. k + 4 + w < IntLimit
      BY <2>6
    <3> QED BY <2>6, <3>1, ToIntIs
  <2>8. MetadataFromPtr(tape, p) = ReadEntry(kv, k + 4 + w)
    BY <1>9, <2>1, <2>3, <2>4, <2>5, <2>7 DEF ReadEntry
  <2> QED BY <2>6, <2>8
<1>12. CASE v.dtype # "array"
  <2>1. v = [dtype |-> v.dtype, num |-> v.num] /\ v.dtype \in ElementTypes /\ v.num \in ElementsOf(v.dtype)
    BY <1>2, <1>12 DEF IsValue
  <2>2. c = ScalarFields(v.dtype, v.num)
    BY <1>12 DEF ValueFields, c
  <2>3. PICK w \in Nat : q = r + w /\ ElementFromPtr(tape, r, v.dtype) = Parsed(w, v.num)
    BY <1>5, <1>7, <2>1, <2>2, ElementRead
  <2> DEFINE val == ElementFromPtr(tape, p + k + 4, v.dtype)
  <2>4. val.ok = TRUE /\ val.size = w /\ val.num = v.num
    BY <1>9, <2>3 DEF Parsed
  <2>5. MetadataFromPtr(tape, p) =
          [ok |-> val.ok, size |-> ToInt(k + 4 + val.size), key |-> kv.key, val |-> [dtype |-> v.dtype, num |-> val.num]]
    <3> HIDE DEF val
    <3> QED BY <1>9, <1>10, <1>12 DEF MetadataFromPtr, key, val
  <2> HIDE DEF val
  <2>6. k + 4 + w \in Nat /\ q = p + (k + 4 + w)
    BY <1>2, <1>9, <2>3
  <2>7. ToInt(k + 4 + w) = k + 4 + w
    <3>1. k + 4 + w < IntLimit
      BY <2>6
    <3> QED BY <2>6, <3>1, ToIntIs
  <2>8. MetadataFromPtr(tape, p) = ReadEntry(kv, k + 4 + w)
    BY <2>1, <2>4, <2>5, <2>7 DEF ReadEntry
  <2> QED BY <2>6, <2>8
<1> QED BY <1>11, <1>12

\* The n dimensions of t lie behind p.
DimsAt(tape, p, t) ==
  \A d \in 0..(Len(t.dims) - 1) :
    Fits(tape, p + 8 * d, "dim") /\ At(tape, p + 8 * d, "dim") = t.dims[d + 1]

\* As TensorInfo::from_ptr expects them.
LEMMA DimsLaid ==
  ASSUME NEW tape, NEW t, IsTensor(t), NEW p \in Nat, NEW q \in Nat, Laid(tape, p, DimFields(t), q)
  PROVE  DimsAt(tape, p, t) /\ q = p + 8 * Len(t.dims)
<1> DEFINE n == Len(t.dims)
           s == DimFields(t)
<1>1. n \in Nat /\ \A d \in 1..n : t.dims[d] \in Nat
  BY DEF IsTensor
<1>2. Len(s) = n /\ \A d \in 1..n : s[d].kind = "dim" /\ s[d].width = 8 /\ s[d].num = t.dims[d]
  BY <1>1 DEF DimFields, Field
<1> HIDE DEF n, s
<1>3. PICK c : LaidAt(c, tape, p, s, q)
  BY DEF Laid, s
<1>4. /\ c \in [0..n -> Nat] /\ c[0] = p /\ c[n] = q
      /\ \A j \in 1..n : c[j] = c[j - 1] + 8 /\ Finds(tape, c[j - 1], s[j])
  BY <1>2, <1>3 DEF LaidAt
<1> DEFINE T == {k \in Nat : k <= n => c[k] = p + 8 * k}
<1>5. 0 \in T
  BY <1>4
<1>6. ASSUME NEW k \in Nat, k \in T PROVE k + 1 \in T
  <2> SUFFICES ASSUME k + 1 <= n PROVE c[k + 1] = p + 8 * (k + 1)
    OBVIOUS
  <2>1. k + 1 \in 1..n /\ (k + 1) - 1 = k /\ k <= n
    BY <1>1
  <2>2. c[k + 1] = c[k] + 8
    BY <1>4, <2>1
  <2>3. c[k] = p + 8 * k
    BY <1>6, <2>1
  <2> QED BY <2>2, <2>3
<1>7. \A k \in Nat : k <= n => c[k] = p + 8 * k
  <2>1. Nat \subseteq T
    <3> HIDE DEF T
    <3> QED BY <1>5, <1>6, NatSetInduction
  <2> QED BY <2>1
<1>8. ASSUME NEW d \in 0..(n - 1)
      PROVE  Fits(tape, p + 8 * d, "dim") /\ At(tape, p + 8 * d, "dim") = t.dims[d + 1]
  <2>1. d + 1 \in 1..n /\ (d + 1) - 1 = d /\ d \in Nat /\ d <= n
    BY <1>1
  <2>2. Finds(tape, c[d], s[d + 1])
    BY <1>4, <2>1
  <2>3. c[d] = p + 8 * d
    BY <1>7, <2>1
  <2> QED BY <1>2, <2>1, <2>2, <2>3 DEF Finds
<1>9. q = p + 8 * n
  BY <1>1, <1>4, <1>7
<1> QED BY <1>8, <1>9 DEF DimsAt, n

\* What TensorInfo::from_ptr gives for a tensor entry of w bytes.
InfoOf(t) == [dims |-> t.dims, offset |-> t.offset]
ReadTensor(t, w) == [ok |-> TRUE, size |-> w, name |-> t.name, info |-> InfoOf(t)]

\* A tensor entry is read as it lies there.
LEMMA TensorRead ==
  ASSUME NEW tape, NEW t, IsTensor(t), NEW p \in Nat, NEW q \in Nat, Laid(tape, p, TensorFields(t), q),
         q - p < IntLimit
  PROVE  \E w \in Nat : q = p + w /\ TensorInfoFromPtr(tape, p) = ReadTensor(t, w)
<1> DEFINE a == StringFields(t.name)
           x == NDims(t)
           b == <<x>>
           c == DimFields(t)
           y == Field("ggml_type", 4, 0)
           z == Field("offset", 8, t.offset)
           e == <<y, z>>
           k == 8 + t.name.len
           n == Len(t.dims)
<1>1. TensorFields(t) = ((a \o b) \o c) \o e /\ a \in Seq(AField) /\ b \in Seq(AField) /\ c \in Seq(AField) /\ e \in Seq(AField)
  BY TensorFieldsType, TensorPartsType DEF TensorEnd
<1>2. /\ t.name \in Strings(Int \X STRING) /\ Int \X STRING \in Texts /\ k \in Nat /\ n \in Nat
      /\ t.offset \in Nat /\ t.dims = [d \in 1..n |-> t.dims[d]]
  BY DEF IsTensor, Texts, Strings
<1>3. x \in AField /\ x.kind = "n_dims" /\ x.width = 4 /\ x.num = n
  BY TensorPartsType
<1>4. t.offset \in Nums /\ 0 \in Nums /\ 4 \in Nat /\ 8 \in Nat
  BY <1>2 DEF Nums
<1>5. y \in AField /\ y.kind = "ggml_type" /\ y.width = 4
  BY <1>4, FieldType, KindsAre
<1>6. z \in AField /\ z.kind = "offset" /\ z.width = 8 /\ z.num = t.offset
  BY <1>4, FieldType, KindsAre
<1> HIDE DEF a, b, c, e, x, y, z
<1>7. a \o b \in Seq(AField) /\ (a \o b) \o c \in Seq(AField)
  BY <1>1
<1>8. \A s, u \in Seq(AField) : \A r \in Nat :
        Laid(tape, p, s \o u, r) => \E m \in Nat : Laid(tape, p, s, m) /\ Laid(tape, m, u, r)
  BY LaidSplit
<1>9. PICK m3 \in Nat : Laid(tape, p, (a \o b) \o c, m3) /\ Laid(tape, m3, e, q)
  BY <1>1, <1>7, <1>8
<1>10. PICK m2 \in Nat : Laid(tape, p, a \o b, m2) /\ Laid(tape, m2, c, m3)
  BY <1>1, <1>7, <1>8, <1>9
<1>11. PICK m1 \in Nat : Laid(tape, p, a, m1) /\ Laid(tape, m1, b, m2)
  BY <1>1, <1>8, <1>10
<1>12. m2 = m1 + 4 /\ Finds(tape, m1, x)
  BY <1>3, <1>11, LaidOne DEF b
<1>13. DimsAt(tape, m2, t) /\ m3 = m2 + 8 * n
  BY <1>10, DimsLaid DEF c
<1>14. FindsTwo(tape, m3, y, z, q)
  BY <1>5, <1>6, <1>9, LaidTwo DEF e
<1>15. Fits(tape, m3, "ggml_type") /\ Fits(tape, m3 + 4, "offset") /\ At(tape, m3 + 4, "offset") = t.offset /\ q = m3 + 12
  BY <1>5, <1>6, <1>14 DEF Finds, FindsTwo
<1>16. StringFromPtr(tape, p) = Parsed(k, t.name) /\ m1 = p + k
  <2>1. m1 - p < IntLimit
    <3>1. m2 <= m3
      BY <1>1, <1>10, LaidExtent
    <3>2. IntLimit \in Nat
      BY LoaderAssumption
    <3> QED BY <1>12, <1>15, <3>1, <3>2
  <2> QED BY <1>2, <1>11, <2>1, StringRead DEF a
<1>17. Fits(tape, m2 - 4, "n_dims") /\ At(tape, m2 - 4, "n_dims") = n
  <2>1. m2 - 4 = m1
    BY <1>12
  <2> QED BY <1>3, <1>12, <2>1 DEF Finds
<1>18. m2 = p + k + 4
  BY <1>12, <1>16
<1> DEFINE name == StringFromPtr(tape, p)
<1>19. name.ok = TRUE /\ name.size = k /\ name.num = t.name
  BY <1>16 DEF Parsed
<1> HIDE DEF name
<1>20. \A d \in 0..(n - 1) : Fits(tape, m2 + 8 * d, "dim")
  BY <1>13 DEF DimsAt
<1>21. [d \in 1..n |-> At(tape, m2 + 8 * (d - 1), "dim")] = t.dims
  <2>1. ASSUME NEW d \in 1..n PROVE At(tape, m2 + 8 * (d - 1), "dim") = t.dims[d]
    <3>1. d - 1 \in 0..(n - 1) /\ (d - 1) + 1 = d
      BY <1>2
    <3> QED BY <1>13, <3>1 DEF DimsAt
  <2> QED BY <1>2, <2>1
<1>22. TensorInfoFromPtr(tape, p) =
         [ok |-> TRUE, size |-> TensorInfoSize(k, n), name |-> t.name,
          info |-> [dims |-> [d \in 1..n |-> At(tape, m2 + 8 * (d - 1), "dim")], offset |-> t.offset]]
  BY <1>13, <1>15, <1>17, <1>18, <1>19, <1>20 DEF TensorInfoFromPtr, name
<1>23. TensorInfoFromPtr(tape, p) = ReadTensor(t, TensorInfoSize(k, n))
  BY <1>21, <1>22 DEF ReadTensor, InfoOf
<1>24. TensorInfoSize(k, n) \in Nat /\ q = p + TensorInfoSize(k, n)
  <2>1. PICK u : u = 8 * n
    OBVIOUS
  <2>2. u \in Nat /\ k \in Nat /\ m3 = m2 + u
    BY <1>2, <1>13, <2>1
  <2>3. TensorInfoSize(k, n) = ToInt(k + 4 + u + 4 + 8)
    BY <2>1 DEF TensorInfoSize
  <2> HIDE DEF k, n
  <2>4. k + 4 + u + 4 + 8 \in Nat /\ q = p + (k + 4 + u + 4 + 8)
    BY <1>15, <1>18, <2>2
  <2>5. k + 4 + u + 4 + 8 < IntLimit
    BY <2>4
  <2>6. ToInt(k + 4 + u + 4 + 8) = k + 4 + u + 4 + 8
    BY <2>4, <2>5, ToIntIs
  <2> QED BY <2>3, <2>4, <2>6
<1> QED BY <1>23, <1>24

-----------------------------------------------------------------------------
\* A whole file.

\* c holds the offsets of the entries and of the tensor entries of f, where
\* from_ptr reads what they are.
IsCut(c, f) ==
  /\ c.kvs \in [0..Len(f.kvs) -> Nat] /\ c.kvs[0] = Header.width
  /\ \A j \in 1..Len(f.kvs) : \E w \in Nat :
       c.kvs[j] = c.kvs[j - 1] + w /\ MetadataFromPtr(Tape(f), c.kvs[j - 1]) = ReadEntry(f.kvs[j], w)
  /\ c.tensors \in [0..Len(f.tensors) -> Nat] /\ c.tensors[0] = c.kvs[Len(f.kvs)]
  /\ c.tensors[Len(f.tensors)] = Tape(f).end
  /\ \A j \in 1..Len(f.tensors) : \E w \in Nat :
       /\ c.tensors[j] = c.tensors[j - 1] + w
       /\ TensorInfoFromPtr(Tape(f), c.tensors[j - 1]) = ReadTensor(f.tensors[j], w)
Cut(f) == CHOOSE c : IsCut(c, f)

\* There are such offsets, if an int can count the entries.
LEMMA CutOf ==
  ASSUME NEW f, IsFile(f), WithinInt(f)
  PROVE  IsCut(Cut(f), f)
<1> DEFINE es == Entries(f)
           ts == TensorInfos(f)
           h == <<Header>>
           a == FlattenSeq(es)
           b == FlattenSeq(ts)
           n == Len(f.kvs)
           m == Len(f.tensors)
           tape == Tape(f)
           end == tape.end
<1>1. Fields(f) = (h \o a) \o b /\ h \in Seq(AField) /\ a \in Seq(AField) /\ b \in Seq(AField)
  BY FieldsType
<1>2. Header \in AField /\ Header.width = 24
  BY FieldsType
<1>3. es \in Seq(Seq(AField)) /\ ts \in Seq(Seq(AField)) /\ Len(es) = n /\ Len(ts) = m
  BY FieldsType
<1>4. /\ n \in Nat /\ \A j \in 1..n : es[j] = EntryFields(f.kvs[j]) /\ IsEntry(f.kvs[j])
      /\ m \in Nat /\ \A j \in 1..m : ts[j] = TensorFields(f.tensors[j]) /\ IsTensor(f.tensors[j])
      /\ \A j \in 1..n : Extent(EntryFields(f.kvs[j])) < IntLimit
      /\ \A j \in 1..m : Extent(TensorFields(f.tensors[j])) < IntLimit
  BY DEF IsFile, Entries, TensorInfos, WithinInt
<1>5. end \in Nat /\ Laid(tape, 0, Fields(f), end)
  BY FieldsType, TapeLaid
<1> HIDE DEF es, ts, h, a, b, n, m, tape, end
<1>6. h \o a \in Seq(AField)
  BY <1>1
<1>7. \A s, u \in Seq(AField) : \A r \in Nat :
        Laid(tape, 0, s \o u, r) => \E q \in Nat : Laid(tape, 0, s, q) /\ Laid(tape, q, u, r)
  BY LaidSplit
<1>8. PICK k \in Nat : Laid(tape, 0, h \o a, k) /\ Laid(tape, k, b, end)
  BY <1>1, <1>5, <1>6, <1>7
<1>9. PICK i \in Nat : Laid(tape, 0, h, i) /\ Laid(tape, i, a, k)
  BY <1>1, <1>7, <1>8
<1>10. i = Header.width
  <2>1. \A p, q \in Nat : Laid(tape, p, <<Header>>, q) => q = p + Header.width
    BY <1>2, LaidOne
  <2>2. i = 0 + Header.width
    BY <1>9, <2>1 DEF h
  <2> QED BY <1>2, <2>2
<1>11. PICK e : LaidApart(e, tape, i, es, k)
  BY <1>3, <1>9, LaidFlatten DEF a
<1>12. PICK t : LaidApart(t, tape, k, ts, end)
  BY <1>3, <1>5, <1>8, LaidFlatten DEF b
<1>13. e \in [0..n -> Nat] /\ e[0] = i /\ e[n] = k /\ \A j \in 1..n : Laid(tape, e[j - 1], EntryFields(f.kvs[j]), e[j])
  BY <1>3, <1>4, <1>11 DEF LaidApart
<1>14. t \in [0..m -> Nat] /\ t[0] = k /\ t[m] = end /\ \A j \in 1..m : Laid(tape, t[j - 1], TensorFields(f.tensors[j]), t[j])
  BY <1>3, <1>4, <1>12 DEF LaidApart
<1>15. ASSUME NEW j \in 1..n
       PROVE  \E w \in Nat : e[j] = e[j - 1] + w /\ MetadataFromPtr(tape, e[j - 1]) = ReadEntry(f.kvs[j], w)
  <2>1. PICK x, y, z : x = e[j - 1] /\ y = e[j] /\ z = f.kvs[j]
    OBVIOUS
  <2>2. j - 1 \in 0..n /\ j \in 0..n
    BY <1>4
  <2>3. x \in Nat /\ y \in Nat /\ IsEntry(z) /\ Laid(tape, x, EntryFields(z), y)
    BY <1>4, <1>13, <2>1, <2>2
  <2>4. y - x < IntLimit
    <3>1. Extent(EntryFields(z)) \in Nat /\ y = x + Extent(EntryFields(z))
      BY <2>3, EntryFieldsType, LaidExtent
    <3>2. Extent(EntryFields(z)) < IntLimit
      BY <1>4, <2>1
    <3> QED BY <2>3, <3>1, <3>2
  <2>5. \E w \in Nat : y = x + w /\ MetadataFromPtr(tape, x) = ReadEntry(z, w)
    BY <2>3, <2>4, EntryRead
  <2> QED BY <2>1, <2>5
<1>16. ASSUME NEW j \in 1..m
       PROVE  \E w \in Nat : t[j] = t[j - 1] + w /\ TensorInfoFromPtr(tape, t[j - 1]) = ReadTensor(f.tensors[j], w)
  <2>1. PICK x, y, z : x = t[j - 1] /\ y = t[j] /\ z = f.tensors[j]
    OBVIOUS
  <2>2. j - 1 \in 0..m /\ j \in 0..m
    BY <1>4
  <2>3. x \in Nat /\ y \in Nat /\ IsTensor(z) /\ Laid(tape, x, TensorFields(z), y)
    BY <1>4, <1>14, <2>1, <2>2
  <2>4. y - x < IntLimit
    <3>1. Extent(TensorFields(z)) \in Nat /\ y = x + Extent(TensorFields(z))
      BY <2>3, TensorFieldsType, LaidExtent
    <3>2. Extent(TensorFields(z)) < IntLimit
      BY <1>4, <2>1
    <3> QED BY <2>3, <3>1, <3>2
  <2>5. \E w \in Nat : y = x + w /\ TensorInfoFromPtr(tape, x) = ReadTensor(z, w)
    BY <2>3, <2>4, TensorRead
  <2> QED BY <2>1, <2>5
<1> DEFINE c == [kvs |-> e, tensors |-> t]
<1>17. c.kvs = e /\ c.tensors = t
  OBVIOUS
<1> HIDE DEF c
<1>18. IsCut(c, f)
  BY <1>10, <1>13, <1>14, <1>15, <1>16, <1>17 DEF IsCut, n, m, tape, end
<1> QED BY <1>18 DEF Cut

\* m holds the first values of the keys of the first k entries.
HoldsKeys(m, f, k) ==
  /\ m = [key \in DOMAIN m |-> m[key]]
  /\ DOMAIN m = {f.kvs[j].key.text : j \in 1..k}
  /\ \A j \in 1..k : (\A i \in 1..(j - 1) : f.kvs[i].key.text # f.kvs[j].key.text)
                        => m[f.kvs[j].key.text] = f.kvs[j].val

\* Nothing to begin with.
LEMMA HoldsNoKeys ==
  ASSUME NEW f
  PROVE  HoldsKeys(<<>>, f, 0)
<1> DEFINE m == <<>>
<1>1. DOMAIN m = {} /\ m = [key \in {} |-> m[key]]
  OBVIOUS
<1>2. \A j \in 1..0 : FALSE
  OBVIOUS
<1> HIDE DEF m
<1>3. HoldsKeys(m, f, 0)
  BY <1>1, <1>2 DEF HoldsKeys
<1> QED BY <1>3 DEF m

\* One more entry.
LEMMA HoldsNextKey ==
  ASSUME NEW f, NEW k \in Nat, NEW m, HoldsKeys(m, f, k)
  PROVE  HoldsKeys(Insert(m, f.kvs[k + 1].key, f.kvs[k + 1].val), f, k + 1)
<1> DEFINE K(j) == f.kvs[j].key.text
           V(j) == f.kvs[j].val
           i == Insert(m, f.kvs[k + 1].key, f.kvs[k + 1].val)
<1>1. i = [x \in (DOMAIN m) \cup {K(k + 1)} |-> IF x \in DOMAIN m THEN m[x] ELSE V(k + 1)]
  BY DEF Insert
<1>2. /\ DOMAIN m = {K(j) : j \in 1..k}
      /\ \A j \in 1..k : (\A x \in 1..(j - 1) : K(x) # K(j)) => m[K(j)] = V(j)
  BY DEF HoldsKeys
<1> HIDE DEF K, V, i
<1>3. i = [x \in DOMAIN i |-> i[x]]
  BY <1>1
<1>4. DOMAIN i = (DOMAIN m) \cup {K(k + 1)}
  BY <1>1
<1>5. \A j \in 1..(k + 1) : j \in 1..k \/ j = k + 1
  OBVIOUS
<1>6. \A j \in 1..k : j \in 1..(k + 1)
  OBVIOUS
<1>7. k + 1 \in 1..(k + 1) /\ (k + 1) - 1 = k
  OBVIOUS
<1>8. DOMAIN i = {K(j) : j \in 1..(k + 1)}
  BY <1>2, <1>4, <1>5, <1>6, <1>7
<1>9. ASSUME NEW j \in 1..(k + 1), \A x \in 1..(j - 1) : K(x) # K(j) PROVE i[K(j)] = V(j)
  <2>1. CASE j \in 1..k
    BY <1>1, <1>2, <1>9, <2>1
  <2>2. CASE j = k + 1
    <3>1. K(j) \notin DOMAIN m
      BY <1>2, <1>7, <1>9, <2>2
    <3> QED BY <1>1, <2>2, <3>1
  <2> QED BY <1>5, <2>1, <2>2
<1>10. HoldsKeys(i, f, k + 1)
  BY <1>3, <1>8, <1>9 DEF HoldsKeys, K, V
<1> QED BY <1>10 DEF i

\* The first entry of a key.
LEMMA FirstEntryIs ==
  ASSUME NEW f, IsFile(f), NEW key \in Keys(f)
  PROVE  \E j \in 1..Len(f.kvs) : /\ f.kvs[j].key.text = key /\ FirstEntry(f, key) = f.kvs[j].val
                                  /\ \A i \in 1..(j - 1) : f.kvs[i].key.text # f.kvs[j].key.text
<1> DEFINE n == Len(f.kvs)
           I == {i \in 1..n : f.kvs[i].key.text = key}
<1>1. n \in Nat
  BY DEF IsFile
<1>2. I # {} /\ I \in SUBSET Nat
  BY <1>1 DEF Keys
<1>3. SelectInSeq(f.kvs, LAMBDA kv : kv.key.text = key) = Min(I)
  BY <1>2 DEF SelectInSeq
<1>4. PICK j : j = Min(I)
  OBVIOUS
<1>5. j \in I /\ \A i \in I : j <= i
  <2> HIDE DEF I
  <2>1. \E x \in I : \A y \in I : x <= y
    BY <1>2, LeastOf
  <2> QED BY <1>4, <2>1 DEF Min
<1>6. FirstEntry(f, key) = f.kvs[j].val
  BY <1>3, <1>4 DEF FirstEntry
<1>7. ASSUME NEW i \in 1..(j - 1) PROVE f.kvs[i].key.text # key
  <2>1. j \in 1..n
    BY <1>5
  <2>2. i \in 1..n /\ ~(j <= i)
    BY <1>1, <2>1
  <2> QED BY <1>5, <2>2
<1> QED BY <1>5, <1>6, <1>7

\* When all entries were read, the loader has the first value of every key.
LEMMA HoldsAllKeys ==
  ASSUME NEW f, IsFile(f), NEW m, HoldsKeys(m, f, Len(f.kvs))
  PROVE  m = FirstEntries(f)
<1>1. m = [key \in DOMAIN m |-> m[key]] /\ DOMAIN m = Keys(f)
  BY DEF HoldsKeys, Keys
<1>2. ASSUME NEW key \in Keys(f) PROVE m[key] = FirstEntry(f, key)
  <2>1. PICK j \in 1..Len(f.kvs) : /\ f.kvs[j].key.text = key /\ FirstEntry(f, key) = f.kvs[j].val
                                   /\ \A i \in 1..(j - 1) : f.kvs[i].key.text # f.kvs[j].key.text
    BY FirstEntryIs
  <2> QED BY <2>1 DEF HoldsKeys
<1> QED BY <1>1, <1>2 DEF FirstEntries

\* m holds the first k tensor entries.
HoldsInfos(m, f, k) ==
  /\ DOMAIN m = {f.tensors[j].name.text : j \in 1..k}
  /\ \A j \in 1..k : m[f.tensors[j].name.text] = InfoOf(f.tensors[j])

\* Nothing to begin with.
LEMMA HoldsNoInfos ==
  ASSUME NEW f
  PROVE  HoldsInfos(<<>>, f, 0)
<1> DEFINE m == <<>>
<1>1. DOMAIN m = {}
  OBVIOUS
<1>2. \A j \in 1..0 : FALSE
  OBVIOUS
<1> HIDE DEF m
<1>3. HoldsInfos(m, f, 0)
  BY <1>1, <1>2 DEF HoldsInfos
<1> QED BY <1>3 DEF m

\* One more tensor, whose name is new.
LEMMA HoldsNextInfo ==
  ASSUME NEW f, IsFile(f), NEW k \in Nat, k < Len(f.tensors), NEW m, HoldsInfos(m, f, k)
  PROVE  HoldsInfos(Insert(m, f.tensors[k + 1].name, InfoOf(f.tensors[k + 1])), f, k + 1)
<1> DEFINE K(j) == f.tensors[j].name.text
           V(j) == InfoOf(f.tensors[j])
           n == Len(f.tensors)
           i == Insert(m, f.tensors[k + 1].name, InfoOf(f.tensors[k + 1]))
<1>1. i = [x \in (DOMAIN m) \cup {K(k + 1)} |-> IF x \in DOMAIN m THEN m[x] ELSE V(k + 1)]
  BY DEF Insert
<1>2. DOMAIN m = {K(j) : j \in 1..k} /\ \A j \in 1..k : m[K(j)] = V(j)
  BY DEF HoldsInfos
<1>3. n \in Nat /\ \A x, y \in 1..n : K(x) = K(y) => x = y
  BY DEF IsFile
<1>4. k < n
  OBVIOUS
<1> HIDE DEF K, V, i, n
<1>5. DOMAIN i = (DOMAIN m) \cup {K(k + 1)}
  BY <1>1
<1>6. \A j \in 1..(k + 1) : j \in 1..k \/ j = k + 1
  OBVIOUS
<1>7. \A j \in 1..k : j \in 1..(k + 1) /\ j \in 1..n /\ j # k + 1
  BY <1>3, <1>4
<1>8. k + 1 \in 1..(k + 1) /\ k + 1 \in 1..n
  BY <1>3, <1>4
<1>9. DOMAIN i = {K(j) : j \in 1..(k + 1)}
  BY <1>2, <1>5, <1>6, <1>7, <1>8
<1>10. K(k + 1) \notin DOMAIN m
  BY <1>2, <1>3, <1>7, <1>8
<1>11. ASSUME NEW j \in 1..(k + 1) PROVE i[K(j)] = V(j)
  <2>1. CASE j \in 1..k
    BY <1>1, <1>2, <2>1
  <2>2. CASE j = k + 1
    BY <1>1, <1>10, <2>2
  <2> QED BY <1>6, <2>1, <2>2
<1>12. HoldsInfos(i, f, k + 1)
  BY <1>9, <1>11 DEF HoldsInfos, K, V
<1> QED BY <1>12 DEF i

-----------------------------------------------------------------------------
\* Between the steps of load().

\* The alignment of the tensors of a file, and where they begin in memory.
AlignmentOf(f) == AlignmentOrDefault(Alignment(FirstEntries(f)).val)
DataOf(b, f) == AlignAddress(b + Tape(f).end, AlignmentOf(f))

\* gguf_metadata and gguf_tensors_info have read some entries, and cur points
\* behind them.
ReadingKeys(f) ==
  /\ parsed \in 0..Len(f.kvs) /\ cur = Cut(f).kvs[parsed]
  /\ HoldsKeys(metadata, f, parsed) /\ HoldsInfos(tensors, f, 0)
ReadingInfos(f) ==
  /\ parsed \in 0..Len(f.tensors) /\ cur = Cut(f).tensors[parsed]
  /\ metadata = FirstEntries(f) /\ HoldsInfos(tensors, f, parsed)
HasRead(f) ==
  /\ cur = Tape(f).end /\ metadata = FirstEntries(f) /\ HoldsInfos(tensors, f, Len(f.tensors))
  /\ tensorBase = DataOf(base, f)

\* A model has the metadata of its file, and its tensors where they lie.
FromFile(m) ==
  LET f == Content[m.file]
  IN  /\ m.file \in Files /\ m.base \in Bases /\ m.meta = FirstEntries(f)
      /\ DOMAIN m.tensors = {f.tensors[j].name.text : j \in 1..Len(f.tensors)}
      /\ \A j \in 1..Len(f.tensors) :
           m.tensors[f.tensors[j].name.text] =
             [dims |-> f.tensors[j].dims, data |-> DataOf(m.base, f) + f.tensors[j].offset]

\* load() reads f and nothing else.
ParserInv(f) ==
  /\ pc \in Calling \cup {"idle", "crashed"}
  /\ pc = "metadata" => ReadingKeys(f)
  /\ pc = "tensors" => ReadingInfos(f)
  /\ pc = "install" => HasRead(f)

\* So it is with every file whose entries an int can count.
FileInv ==
  /\ file \in Files
  /\ pc \in Holding => base \in Bases
  /\ file \in FilesWithinInt => ParserInv(Content[file])
  /\ instance # NoModel /\ instance.file \in FilesWithinInt => FromFile(instance)

\* The files there are.
LEMMA FilesAre ==
  ASSUME NEW f \in Files
  PROVE  /\ IsFile(Content[f]) /\ Tapes[f] = Tape(Content[f])
         /\ Len(Content[f].kvs) \in Nat /\ Len(Content[f].tensors) \in Nat
<1>1. IsFile(Content[f])
  BY LoaderAssumption
<1> QED BY <1>1 DEF Tapes, IsFile

\* Those whose entries an int can count.
LEMMA FilesWithinIntAre ==
  ASSUME NEW f \in FilesWithinInt
  PROVE  /\ f \in Files /\ IsFile(Content[f]) /\ IsCut(Cut(Content[f]), Content[f]) /\ Tapes[f] = Tape(Content[f])
         /\ Len(Content[f].kvs) \in Nat /\ Len(Content[f].tensors) \in Nat
         /\ Len(Content[f].tensors) < IntLimit /\ ToInt(Len(Content[f].kvs)) = Len(Content[f].kvs)
<1>1. f \in Files /\ WithinInt(Content[f])
  BY DEF FilesWithinInt
<1>2. IsFile(Content[f]) /\ Tapes[f] = Tape(Content[f]) /\ Len(Content[f].kvs) \in Nat /\ Len(Content[f].tensors) \in Nat
  BY <1>1, FilesAre
<1>3. IsCut(Cut(Content[f]), Content[f])
  BY <1>1, <1>2, CutOf
<1>4. Len(Content[f].kvs) < IntLimit /\ Len(Content[f].tensors) < IntLimit
  BY <1>1 DEF WithinInt
<1>5. ToInt(Len(Content[f].kvs)) = Len(Content[f].kvs)
  BY <1>2, <1>4, ToIntIs
<1> QED BY <1>1, <1>2, <1>3, <1>4, <1>5

\* One iteration of gguf_metadata.
LEMMA KeyStep ==
  ASSUME FileInv, file \in FilesWithinInt, ParseMetadata
  PROVE  pc' = "metadata" /\ ReadingKeys(Content[file])'
<1> DEFINE f == Content[file]
           c == Cut(f)
           kv == f.kvs[parsed + 1]
           met == MetadataFromPtr(Tapes[file], cur)
<1>1. pc = "metadata" /\ parsed < Len(f.kvs) /\ file' = file /\ tensors' = tensors
  <2>1. KvCount = Len(f.kvs)
    BY FilesWithinIntAre DEF KvCount
  <2> QED BY <2>1 DEF ParseMetadata
<1>2. file \in Files /\ parsed \in 0..Len(f.kvs) /\ cur = c.kvs[parsed] /\ HoldsKeys(metadata, f, parsed) /\ HoldsInfos(tensors, f, 0)
  BY <1>1 DEF FileInv, ParserInv, ReadingKeys
<1>3. IsCut(c, f) /\ Tapes[file] = Tape(f) /\ Len(f.kvs) \in Nat
  BY FilesWithinIntAre
<1>4. parsed + 1 \in 1..Len(f.kvs) /\ (parsed + 1) - 1 = parsed /\ parsed \in Nat /\ parsed + 1 \in 0..Len(f.kvs)
  BY <1>1, <1>2, <1>3
<1>5. PICK w \in Nat : c.kvs[parsed + 1] = cur + w /\ met = ReadEntry(kv, w)
  BY <1>2, <1>3, <1>4 DEF IsCut
<1>6. met.ok = TRUE /\ met.size = w /\ met.key = kv.key /\ met.val = kv.val
  BY <1>5 DEF ReadEntry
<1>7. pc' = pc /\ cur' = cur + met.size /\ parsed' = parsed + 1 /\ metadata' = Insert(metadata, met.key, met.val)
  BY <1>6 DEF ParseMetadata
<1> HIDE DEF met, kv, c, f
<1>8. HoldsKeys(metadata', f, parsed + 1)
  BY <1>2, <1>4, <1>6, <1>7, HoldsNextKey DEF kv
<1>9. f' = f /\ cur' = c.kvs[parsed']
  BY <1>1, <1>5, <1>6, <1>7 DEF f
<1>10. ReadingKeys(f)'
  BY <1>1, <1>2, <1>4, <1>7, <1>8, <1>9 DEF ReadingKeys, c
<1> QED BY <1>1, <1>7, <1>10 DEF f

\* One iteration of gguf_tensors_info.
LEMMA InfoStep ==
  ASSUME FileInv, file \in FilesWithinInt, ParseTensorInfo
  PROVE  pc' = "tensors" /\ ReadingInfos(Content[file])'
<1> DEFINE f == Content[file]
           c == Cut(f)
           t == f.tensors[parsed + 1]
           read == TensorInfoFromPtr(Tapes[file], cur)
<1>1. pc = "tensors" /\ parsed < Len(f.tensors) /\ file' = file /\ metadata' = metadata
  BY DEF ParseTensorInfo
<1>2. file \in Files /\ parsed \in 0..Len(f.tensors) /\ cur = c.tensors[parsed] /\ metadata = FirstEntries(f) /\ HoldsInfos(tensors, f, parsed)
  BY <1>1 DEF FileInv, ParserInv, ReadingInfos
<1>3. IsFile(f) /\ IsCut(c, f) /\ Tapes[file] = Tape(f) /\ Len(f.tensors) \in Nat
  BY FilesWithinIntAre
<1>4. parsed + 1 \in 1..Len(f.tensors) /\ (parsed + 1) - 1 = parsed /\ parsed \in Nat /\ parsed + 1 \in 0..Len(f.tensors)
  BY <1>1, <1>2, <1>3
<1>5. PICK w \in Nat : c.tensors[parsed + 1] = cur + w /\ read = ReadTensor(t, w)
  BY <1>2, <1>3, <1>4 DEF IsCut
<1>6. read.ok = TRUE /\ read.size = w /\ read.name = t.name /\ read.info = InfoOf(t)
  BY <1>5 DEF ReadTensor
<1>7. pc' = pc /\ cur' = cur + read.size /\ parsed' = parsed + 1 /\ tensors' = Insert(tensors, read.name, read.info)
  BY <1>6 DEF ParseTensorInfo
<1>8. f' = f
  BY <1>1
<1> HIDE DEF read, t, c, f
<1>9. HoldsInfos(tensors', f, parsed + 1)
  BY <1>1, <1>2, <1>3, <1>4, <1>6, <1>7, HoldsNextInfo DEF t
<1>10. cur' = c.tensors[parsed']
  BY <1>5, <1>6, <1>7
<1>11. ReadingInfos(f)'
  BY <1>1, <1>2, <1>4, <1>7, <1>8, <1>9, <1>10 DEF ReadingInfos, c
<1> QED BY <1>1, <1>7, <1>11 DEF f

\* load_tensors makes a model of what was read.
LEMMA InstallStep ==
  ASSUME FileInv, file \in FilesWithinInt, Install, CanCreateTensors
  PROVE  FromFile(instance')
<1> DEFINE f == Content[file]
<1>1. pc = "install" /\ instance' = [map |-> loads, base |-> base, meta |-> metadata, tensors |-> LoadTensors, file |-> file]
  BY DEF Install
<1>2. file \in Files /\ base \in Bases /\ HasRead(f)
  BY <1>1 DEF FileInv, ParserInv, Holding
<1>3. instance'.base = base /\ instance'.meta = metadata /\ instance'.tensors = LoadTensors /\ instance'.file = file
  BY <1>1
<1>4. DOMAIN tensors = {f.tensors[j].name.text : j \in 1..Len(f.tensors)}
  BY <1>2 DEF HasRead, HoldsInfos
<1>5. DOMAIN LoadTensors = DOMAIN tensors
  BY DEF LoadTensors
<1>6. ASSUME NEW j \in 1..Len(f.tensors)
      PROVE  LoadTensors[f.tensors[j].name.text] = [dims |-> f.tensors[j].dims, data |-> DataOf(base, f) + f.tensors[j].offset]
  <2>1. f.tensors[j].name.text \in DOMAIN tensors
    BY <1>4
  <2>2. tensors[f.tensors[j].name.text] = InfoOf(f.tensors[j]) /\ tensorBase = DataOf(base, f)
    BY <1>2 DEF HasRead, HoldsInfos
  <2>3. InfoOf(f.tensors[j]).dims = f.tensors[j].dims /\ InfoOf(f.tensors[j]).offset = f.tensors[j].offset
    BY DEF InfoOf
  <2> QED BY <2>1, <2>2, <2>3 DEF LoadTensors
<1>7. metadata = FirstEntries(f)
  BY <1>2 DEF HasRead
<1> HIDE DEF f
<1>8. Content[instance'.file] = f
  BY <1>3 DEF f
<1> QED BY <1>2, <1>3, <1>4, <1>5, <1>6, <1>7, <1>8 DEF FromFile

\* At the start nothing was read.
LEMMA InitFileInv == Init => FileInv
BY DEF Init, FileInv, ParserInv, Calling, Holding

\* Every step keeps parser, file and model together.
LEMMA StepFileInv == FileInv /\ [Next]_vars => FileInv'
<1> SUFFICES ASSUME FileInv, [Next]_vars PROVE FileInv'
  OBVIOUS
<1>0. /\ file \in Files /\ (file \in FilesWithinInt => ParserInv(Content[file]))
      /\ instance # NoModel /\ instance.file \in FilesWithinInt => FromFile(instance)
      /\ pc \in Holding => base \in Bases
  BY DEF FileInv
<1>1. CASE Load \/ Stat \/ CheckMagic
  <2>1. file' \in Files /\ instance' = instance /\ pc' \in {"idle", "stat", "magic", "map"}
    BY <1>0, <1>1 DEF Load, Stat, CheckMagic, Leave, GoOn, WhileLoading, model
  <2>2. ParserInv(Content[file])'
    BY <2>1 DEF ParserInv, Calling, Holding
  <2> QED BY <1>0, <2>1, <2>2 DEF FileInv, Holding
<1>2. CASE Map
  <2>1. file' = file /\ instance' = instance /\ pc' \in {"metadata", "crashed"}
    BY <1>2 DEF Map, GoOn, model
  <2>2. CASE pc' = "metadata"
    <3>1. base' \in Bases /\ cur' = Header.width /\ parsed' = 0 /\ metadata' = <<>> /\ tensors' = <<>>
      BY <1>2, <2>2 DEF Map, GoOn
    <3>2. ASSUME file \in FilesWithinInt PROVE ReadingKeys(Content[file])'
      <4> DEFINE f == Content[file]
      <4>1. IsCut(Cut(f), f) /\ Len(f.kvs) \in Nat
        BY <3>2, FilesWithinIntAre
      <4>2. Cut(f).kvs[0] = Header.width /\ 0 \in 0..Len(f.kvs)
        BY <4>1 DEF IsCut
      <4>3. HoldsKeys(<<>>, f, 0) /\ HoldsInfos(<<>>, f, 0)
        BY HoldsNoKeys, HoldsNoInfos
      <4>4. f' = f
        BY <2>1
      <4> HIDE DEF f
      <4>5. ReadingKeys(f)'
        BY <3>1, <4>2, <4>3, <4>4 DEF ReadingKeys
      <4> QED BY <4>5 DEF f
    <3>3. file \in FilesWithinInt => ParserInv(Content[file])'
      BY <2>2, <3>2 DEF ParserInv, Calling, Holding
    <3> QED BY <1>0, <2>1, <3>1, <3>3 DEF FileInv
  <2>3. CASE pc' = "crashed"
    BY <1>0, <2>1, <2>3 DEF FileInv, ParserInv, Calling, Holding
  <2> QED BY <2>1, <2>2, <2>3
<1>3. CASE ParseMetadata
  <2>1. file \in FilesWithinInt => pc' = "metadata" /\ ReadingKeys(Content[file])'
    BY <1>3, KeyStep
  <2>2. pc = "metadata" /\ pc' \in {"metadata", "garbage"} /\ file' = file /\ instance' = instance /\ base' = base
    BY <1>3 DEF ParseMetadata, model
  <2>3. file \in FilesWithinInt => ParserInv(Content[file])'
    BY <2>1 DEF ParserInv, Calling, Holding
  <2> QED BY <1>0, <2>2, <2>3 DEF FileInv, Holding
<1>4. CASE MetadataEnd
  <2>1. /\ pc = "metadata" /\ pc' = "tensors" /\ parsed >= KvCount /\ parsed' = 0
        /\ UNCHANGED <<file, instance, base, cur, metadata, tensors>>
    BY <1>4 DEF MetadataEnd, model
  <2>2. ASSUME file \in FilesWithinInt PROVE ReadingInfos(Content[file])'
    <3> DEFINE f == Content[file]
    <3>1. IsFile(f) /\ IsCut(Cut(f), f) /\ Len(f.tensors) \in Nat /\ Len(f.kvs) \in Nat /\ KvCount = Len(f.kvs)
      BY <2>2, FilesWithinIntAre DEF KvCount
    <3>2. ReadingKeys(f)
      BY <1>0, <2>1, <2>2 DEF ParserInv
    <3>3. parsed = Len(f.kvs)
      BY <2>1, <3>1, <3>2 DEF ReadingKeys
    <3>4. Cut(f).tensors[0] = cur /\ 0 \in 0..Len(f.tensors)
      BY <3>1, <3>2, <3>3 DEF IsCut, ReadingKeys
    <3>5. metadata = FirstEntries(f) /\ HoldsInfos(tensors, f, 0)
      BY <3>1, <3>2, <3>3, HoldsAllKeys DEF ReadingKeys
    <3>6. f' = f
      BY <2>1
    <3> HIDE DEF f
    <3>7. ReadingInfos(f)'
      BY <2>1, <3>4, <3>5, <3>6 DEF ReadingInfos
    <3> QED BY <3>7 DEF f
  <2>3. file \in FilesWithinInt => ParserInv(Content[file])'
    BY <2>1, <2>2 DEF ParserInv, Calling, Holding
  <2> QED BY <1>0, <2>1, <2>3 DEF FileInv, Holding
<1>5. CASE ParseTensorInfo
  <2>1. file \in FilesWithinInt => pc' = "tensors" /\ ReadingInfos(Content[file])'
    BY <1>5, InfoStep
  <2>2. pc = "tensors" /\ pc' \in {"tensors", "garbage"} /\ file' = file /\ instance' = instance /\ base' = base
    BY <1>5 DEF ParseTensorInfo, model
  <2>3. file \in FilesWithinInt => ParserInv(Content[file])'
    BY <2>1 DEF ParserInv, Calling, Holding
  <2> QED BY <1>0, <2>2, <2>3 DEF FileInv, Holding
<1>6. CASE SetTensorBasePtr
  <2>1. /\ pc = "tensors" /\ parsed \in {Len(Content[file].tensors), IntLimit}
        /\ UNCHANGED <<file, instance, base, cur, metadata, tensors>>
    BY <1>6 DEF SetTensorBasePtr, model
  <2>2. \/ pc' = "idle"
        \/ pc' = "install" /\ tensorBase' = AlignAddress(base + cur, AlignmentOrDefault(Alignment(metadata).val))
    BY <1>6 DEF SetTensorBasePtr, Leave, GoOn
  <2>3. ASSUME file \in FilesWithinInt, pc' = "install" PROVE HasRead(Content[file])'
    <3> DEFINE f == Content[file]
    <3>1. IsCut(Cut(f), f) /\ Len(f.tensors) \in Nat /\ Len(f.tensors) < IntLimit
      BY <2>3, FilesWithinIntAre
    <3>2. ReadingInfos(f)
      BY <1>0, <2>1, <2>3 DEF ParserInv
    <3>3. parsed = Len(f.tensors)
      BY <2>1, <3>1, <3>2, LoaderAssumption DEF ReadingInfos
    <3>4. cur = Tape(f).end /\ metadata = FirstEntries(f) /\ HoldsInfos(tensors, f, Len(f.tensors))
      BY <3>1, <3>2, <3>3 DEF IsCut, ReadingInfos
    <3>5. f' = f
      BY <2>1
    <3> HIDE DEF f
    <3>6. HasRead(f)'
      BY <2>1, <2>2, <2>3, <3>4, <3>5 DEF HasRead, DataOf, AlignmentOf
    <3> QED BY <3>6 DEF f
  <2>4. file \in FilesWithinInt => ParserInv(Content[file])'
    BY <2>2, <2>3 DEF ParserInv, Calling, Holding
  <2> QED BY <1>0, <2>1, <2>2, <2>4 DEF FileInv, Holding
<1>7. CASE Install
  <2>1. CASE CanCreateTensors
    <3>1. file \in FilesWithinInt => FromFile(instance')
      BY <1>7, <2>1, InstallStep
    <3>2. pc' = "idle" /\ file' = file /\ instance'.file = file
      BY <1>7, <2>1 DEF Install, Leave
    <3> QED BY <1>0, <3>1, <3>2 DEF FileInv, ParserInv, Calling, Holding
  <2>2. CASE ~CanCreateTensors
    <3>1. pc' = "crashed" /\ file' = file /\ instance' = instance
      BY <1>7, <2>2 DEF Install, GoOn
    <3> QED BY <1>0, <3>1 DEF FileInv, ParserInv, Calling, Holding
  <2> QED BY <2>1, <2>2
<1>8. CASE Unload \/ CallAccessor \/ Predict
  <2>1. (instance' = NoModel \/ instance' = instance) /\ file' = file /\ pc' \in {"idle", "crashed"}
    BY <1>8 DEF Unload, CallAccessor, Predict
  <2> QED BY <1>0, <2>1 DEF FileInv, ParserInv, Calling, Holding
<1>9. CASE UNCHANGED vars
  <2>1. UNCHANGED <<pc, file, base, cur, parsed, metadata, tensors, tensorBase, instance>>
    BY <1>9 DEF vars, parser, model
  <2> QED BY <2>1 DEF FileInv, ParserInv, ReadingKeys, ReadingInfos, HasRead
<1> QED BY <1>1, <1>2, <1>3, <1>4, <1>5, <1>6, <1>7, <1>8, <1>9 DEF Next

\* What the parser has read at each point of load(), and what the model has of
\* its file.
THEOREM FileInvariant == Spec => []FileInv
BY InitFileInv, StepFileInv, PTL DEF Spec

\* In a file whose entries an int can count, the parser never reads a field where
\* another one lies, and ends where the entries end.
THEOREM ParserInStep == Spec => []InStep
<1>1. FileInv => InStep
  BY FilesAre DEF FileInv, ParserInv, InStep, HasRead, Calling, Holding
<1> QED BY <1>1, FileInvariant, PTL

-----------------------------------------------------------------------------
\* Where the tensors lie.

\* align_address of a place behind an aligned base is the only aligned one
\* among the next a.
LEMMA AlignedAddress ==
  ASSUME NEW a \in Nat, a # 0, NEW k \in Int, NEW b \in Nat, b = a * k, NEW e \in Nat
  PROVE  AlignAddress(b + e, a) = b + (CHOOSE p \in e..(e + a - 1) : p % a = 0)
<1>1. PICK q, r : q = e \div a /\ r = e % a
  OBVIOUS
<1>2. q \in Int /\ r \in 0..(a - 1) /\ e = a * q + r
  BY <1>1
<1>3. (b + e) % a = r
  <2>1. b + e = a * (k + q) + r
    BY <1>2
  <2>2. k + q \in Int /\ b + e \in Int
    BY <1>2
  <2> QED BY <1>2, <2>1, <2>2, ModUnique
<1> DEFINE g == IF r = 0 THEN 0 ELSE a - r
           d == e + g
<1>4. (a - r) % a = g
  <2>1. CASE r = 0
    <3>1. a - r = a * 1 + 0 /\ 0 \in 0..(a - 1) /\ a - r \in Int
      BY <1>2, <2>1
    <3>2. (a - r) % a = 0
      BY <3>1, ModUnique
    <3> QED BY <2>1, <3>2
  <2>2. CASE r # 0
    <3>1. a - r = a * 0 + (a - r) /\ a - r \in 0..(a - 1) /\ a - r \in Int
      BY <1>2, <2>2
    <3>2. (a - r) % a = a - r
      BY <3>1, ModUnique
    <3> QED BY <2>2, <3>2
  <2> QED BY <2>1, <2>2
<1>5. AlignAddress(b + e, a) = (b + e) + g
  BY <1>3, <1>4 DEF AlignAddress
<1>6. PICK m \in Int : d = a * m /\ d \in e..(e + a - 1)
  <2>1. CASE r = 0
    <3>1. d = a * q /\ d \in e..(e + a - 1)
      BY <1>2, <2>1
    <3> QED BY <1>2, <3>1
  <2>2. CASE r # 0
    <3>1. d = a * (q + 1) /\ d \in e..(e + a - 1) /\ q + 1 \in Int
      BY <1>2, <2>2
    <3> QED BY <3>1
  <2> QED BY <2>1, <2>2
<1>7. g \in Int
  BY <1>2
<1>8. AlignAddress(b + e, a) = b + d
  BY <1>5, <1>7
<1> HIDE DEF g, d
<1>9. d % a = 0
  <2>1. d = a * m + 0 /\ 0 \in 0..(a - 1) /\ d \in Int
    BY <1>6
  <2> QED BY <1>6, <2>1, ModUnique
<1>10. ASSUME NEW p \in e..(e + a - 1), p % a = 0 PROVE p = d
  <2>1. PICK i \in Int : p = a * i
    <3>1. p \div a \in Int /\ p = a * (p \div a) + (p % a)
      OBVIOUS
    <3>2. p = a * (p \div a)
      BY <1>10, <3>1
    <3> QED BY <3>1, <3>2
  <2>2. a * (i - m) = p - d /\ p - d < a /\ p - d > -a
    BY <1>6, <2>1
  <2>3. i - m < 1 /\ i - m > -1
    BY <1>6, <2>2
  <2>4. i = m
    BY <2>3
  <2> QED BY <1>6, <2>1, <2>4
<1>11. (CHOOSE p \in e..(e + a - 1) : p % a = 0) = d
  BY <1>6, <1>9, <1>10
<1> QED BY <1>8, <1>11

\* mmap answers whole pages, and the alignment of a file divides a page.
LEMMA BaseAligned ==
  ASSUME NEW f \in Files, NEW b \in Bases
  PROVE  LET a == AlignmentOf(Content[f])
         IN  a \in Nat /\ a # 0 /\ b \in Nat /\ \E k \in Int : b = a * k
<1> DEFINE a == AlignmentOf(Content[f])
<1>1. a \in 1..Page /\ Page % a = 0 /\ b \in Nat /\ b % Page = 0
  BY LoaderAssumption DEF AlignmentOf
<1> HIDE DEF a
<1>2. PICK i \in Int : b = 4096 * i
  <2>1. b \div 4096 \in Int /\ b = 4096 * (b \div 4096) + (b % 4096)
    BY <1>1
  <2> QED BY <1>1, <2>1 DEF Page
<1>3. a \in Nat /\ a # 0
  BY <1>1 DEF Page
<1>4. PICK j \in Int : 4096 = a * j
  <2>1. 4096 \div a \in Int /\ 4096 = a * (4096 \div a) + (4096 % a)
    BY <1>3
  <2>2. 4096 = a * (4096 \div a)
    BY <1>1, <1>3, <2>1 DEF Page
  <2> QED BY <2>1, <2>2
<1>5. b = a * (j * i) /\ j * i \in Int
  <2>1. 4096 * i = (a * j) * i
    BY <1>4
  <2>2. (a * j) * i = a * (j * i)
    BY <1>3
  <2> QED BY <1>2, <2>1, <2>2
<1> QED BY <1>1, <1>3, <1>5 DEF a

\* The first aligned place behind the entries of a file.
FirstAligned(f) == CHOOSE p \in Tape(f).end..(Tape(f).end + AlignmentOf(f) - 1) : p % AlignmentOf(f) = 0

\* The tensors of a model begin there.
LEMMA DataIs ==
  ASSUME NEW f \in Files, NEW b \in Bases
  PROVE  DataOf(b, Content[f]) = b + FirstAligned(Content[f])
<1> DEFINE a == AlignmentOf(Content[f])
           e == Tape(Content[f]).end
<1>1. a \in Nat /\ a # 0 /\ b \in Nat
  BY BaseAligned
<1>2. PICK k \in Int : b = a * k
  BY BaseAligned
<1>3. e \in Nat
  BY FilesAre, FieldsType, TapeLaid
<1> HIDE DEF a, e
<1>4. AlignAddress(b + e, a) = b + (CHOOSE p \in e..(e + a - 1) : p % a = 0)
  BY <1>1, <1>2, <1>3, AlignedAddress
<1> QED BY <1>4 DEF DataOf, FirstAligned, a, e

\* Every tensor of the model points to where its file has it, wherever the file
\* was mapped.
THEOREM TensorsCorrect == Spec => []TensorsInPlace
<1>1. FileInv => TensorsInPlace
  <2> SUFFICES ASSUME FileInv PROVE TensorsInPlace
    OBVIOUS
  <2> SUFFICES ASSUME instance # NoModel, instance.file \in FilesWithinInt,
                      NEW j \in 1..Len(Content[instance.file].tensors)
               PROVE  instance.tensors[Content[instance.file].tensors[j].name.text].data =
                        instance.base + FirstAligned(Content[instance.file]) + Content[instance.file].tensors[j].offset
    <3> QED BY FilesWithinIntAre DEF TensorsInPlace, FirstAligned, AlignmentOf
  <2> DEFINE f == Content[instance.file]
             x == f.tensors[j]
  <2>1. FromFile(instance)
    BY DEF FileInv
  <2>2. instance.file \in Files /\ instance.base \in Bases
    BY <2>1 DEF FromFile
  <2>3. instance.tensors[x.name.text].data = DataOf(instance.base, f) + x.offset
    <3>1. instance.tensors[x.name.text] = [dims |-> x.dims, data |-> DataOf(instance.base, f) + x.offset]
      BY <2>1 DEF FromFile
    <3> QED BY <3>1
  <2>4. DataOf(instance.base, f) = instance.base + FirstAligned(f)
    BY <2>2, DataIs
  <2> HIDE DEF f, x
  <2>5. instance.tensors[x.name.text].data = instance.base + FirstAligned(f) + x.offset
    BY <2>3, <2>4
  <2> QED BY <2>5 DEF f, x
<1> QED BY <1>1, FileInvariant, PTL

-----------------------------------------------------------------------------
\* What the accessors answer.

\* An accessor answers when all its readings do.
LEMMA CallIs ==
  ASSUME NEW meta, NEW reads, Len(reads) \in Nat
  PROVE  \/ /\ \A j \in 1..Len(reads) : Read(meta, reads[j]).how = "value"
            /\ Call(meta, reads) = Answers([j \in 1..Len(reads) |-> Read(meta, reads[j]).val])
         \/ \E j \in 1..Len(reads) : Read(meta, reads[j]).how # "value" /\ Call(meta, reads) = Read(meta, reads[j])
<1> DEFINE n == Len(reads)
           I == {i \in 1..n : Read(meta, reads[i]).how # "value"}
           bad == SelectInSeq(reads, LAMBDA r : Read(meta, r).how # "value")
<1>1. n \in Nat
  OBVIOUS
<1>2. bad = IF I # {} THEN Min(I) ELSE 0
  BY DEF SelectInSeq
<1>3. Call(meta, reads) = IF bad # 0 THEN Read(meta, reads[bad])
                          ELSE Answers([j \in 1..n |-> Read(meta, reads[j]).val])
  BY DEF Call
<1> HIDE DEF bad
<1>4. CASE I = {}
  BY <1>2, <1>3, <1>4
<1>5. CASE I # {}
  <2>1. I \in SUBSET Nat
    BY <1>1
  <2>2. Min(I) \in I
    <3> HIDE DEF I
    <3>1. \E x \in I : \A y \in I : x <= y
      BY <1>5, <2>1, LeastOf
    <3> QED BY <3>1 DEF Min
  <2>3. bad \in I
    BY <1>2, <1>5, <2>2
  <2>4. bad # 0
    BY <1>1, <2>3
  <2> QED BY <1>3, <2>3, <2>4
<1> QED BY <1>4, <1>5

\* The readings ask for texts as strings, and for numbers as no type that an
\* absent entry has.
Asks(r) ==
  /\ r.get \in {"text", "number", "file_type", "list"}
  /\ r.get = "text" => r.dtype = "string"
  /\ r.get \in {"number", "file_type"} => r.dtype \in ScalarTypes \ {"uint8"}

\* All three accessors do.
LEMMA AccessorsAsk ==
  ASSUME NEW call \in DOMAIN Accessors
  PROVE  Len(Accessors[call]) \in Nat /\ \A j \in 1..Len(Accessors[call]) : Asks(Accessors[call][j])
<1>1. \A key : Asks(Text(key)) /\ Asks(TypeName(key))
  BY DEF Asks, Text, TypeName, ScalarTypes
<1>2. \A key : Asks(Number(key, "uint32")) /\ Asks(Number(key, "float32")) /\ Asks(Number(key, "bool"))
  BY DEF Asks, Number, ScalarTypes
<1>3. \A key, dtype : Asks(List(key, dtype))
  BY DEF Asks, List
<1>4. Len(Info) \in Nat /\ \A j \in 1..Len(Info) : Asks(Info[j])
  BY <1>1 DEF Info
<1>5. Len(ModelConfig) \in Nat /\ \A j \in 1..Len(ModelConfig) : Asks(ModelConfig[j])
  BY <1>2 DEF ModelConfig
<1>6. Len(TokenizerInfo) \in Nat /\ \A j \in 1..Len(TokenizerInfo) : Asks(TokenizerInfo[j])
  BY <1>1, <1>2, <1>3 DEF TokenizerInfo
<1>7. Accessors[call] \in {Info, ModelConfig, TokenizerInfo}
  BY DEF Accessors
<1> HIDE DEF Info, ModelConfig, TokenizerInfo
<1> QED BY <1>4, <1>5, <1>6, <1>7

\* A reading of what the file has in that type answers.
LEMMA ReadsHad ==
  ASSUME NEW f, IsFile(f), NEW r, Asks(r), HasAs(f, r)
  PROVE  Read(FirstEntries(f), r).how = "value"
<1> DEFINE v == FirstEntry(f, r.key)
<1>1. GetMetadata(FirstEntries(f), r.key) = v
  BY DEF HasAs, GetMetadata, FirstEntries
<1>2. IF r.get = "list" THEN v.dtype = "array" /\ v.elem = r.dtype ELSE v.dtype = r.dtype
  BY DEF HasAs
<1> HIDE DEF v
<1>3. \A x : Answers(x).how = "value"
  BY DEF Answers
<1>4. CASE r.get = "text"
  <2>1. v.dtype = "string"
    BY <1>2, <1>4 DEF Asks
  <2>2. ValString(v).how = "value"
    BY <1>3, <2>1 DEF ValString
  <2> QED BY <1>1, <1>4, <2>2 DEF Read
<1>5. ASSUME r.get \in {"number", "file_type"} PROVE Value(v, r.dtype).how = "value"
  <2>1. v.dtype = r.dtype /\ r.dtype \in ScalarTypes
    BY <1>2, <1>5 DEF Asks
  <2> QED BY <1>3, <2>1 DEF Value
<1>6. CASE r.get = "number"
  BY <1>1, <1>5, <1>6 DEF Read
<1>7. CASE r.get = "file_type"
  <2>1. Read(FirstEntries(f), r) = [how |-> Value(v, r.dtype).how, val |-> FileTypeName(Value(v, r.dtype).val)]
    BY <1>1, <1>7 DEF Read
  <2> QED BY <1>5, <1>7, <2>1
<1>8. CASE r.get = "list"
  <2>1. v.dtype = "array" /\ v.elem = r.dtype
    BY <1>2, <1>8
  <2>2. ValArray(v, r.dtype).how = "value"
    BY <1>3, <2>1 DEF ValArray
  <2> QED BY <1>1, <1>8, <2>2 DEF Read
<1> QED BY <1>4, <1>6, <1>7, <1>8 DEF Asks

\* What a number is read as: a missing one and one of another type throw, a
\* string and an array are zero.
LEMMA NumbersRead ==
  ASSUME NEW f, NEW r, Asks(r), AsksNumber(r)
  PROVE  /\ WrongNumber(f, r) => Read(FirstEntries(f), r).how = "threw"
         /\ NoNumber(f, r) => Read(FirstEntries(f), r).val = Zero(r)
<1> DEFINE v == GetMetadata(FirstEntries(f), r.key)
           x == Value(v, r.dtype)
<1>1. r.key \in Keys(f) => v = FirstEntry(f, r.key)
  BY DEF GetMetadata, FirstEntries
<1>2. r.key \notin Keys(f) => v = Absent
  BY DEF GetMetadata, FirstEntries
<1>3. Absent.dtype = "uint8" /\ "uint8" \in ScalarTypes /\ "string" \notin ScalarTypes /\ "array" \notin ScalarTypes
  BY DEF Absent, ScalarTypes
<1>4. r.dtype # "uint8"
  BY DEF Asks, AsksNumber
<1>5. Read(FirstEntries(f), r) = IF r.get = "number" THEN x ELSE [how |-> x.how, val |-> FileTypeName(x.val)]
  BY DEF Read, AsksNumber
<1> HIDE DEF v
<1>6. ASSUME WrongNumber(f, r) PROVE Read(FirstEntries(f), r).how = "threw"
  <2>1. v.dtype \in ScalarTypes /\ v.dtype # r.dtype
    BY <1>1, <1>2, <1>3, <1>4, <1>6 DEF WrongNumber
  <2>2. x = Throws
    BY <2>1 DEF Value
  <2>3. x.how = "threw"
    BY <2>2 DEF Throws
  <2> HIDE DEF x
  <2> QED BY <1>5, <2>3
<1>7. ASSUME NoNumber(f, r) PROVE Read(FirstEntries(f), r).val = Zero(r)
  <2>1. v.dtype \notin ScalarTypes
    BY <1>1, <1>3, <1>7 DEF NoNumber
  <2>2. x = Answers(0)
    BY <2>1 DEF Value
  <2>3. x.val = 0
    BY <2>2 DEF Answers
  <2> HIDE DEF x
  <2>4. CASE r.get = "number"
    BY <1>5, <2>3, <2>4 DEF Zero
  <2>5. CASE r.get = "file_type"
    BY <1>5, <2>3, <2>5 DEF Zero
  <2> QED BY <2>4, <2>5 DEF AsksNumber
<1> QED BY <1>6, <1>7

\* Only an array that is read as a text has no certain outcome.
LEMMA OutcomeIs ==
  ASSUME NEW f, NEW r, Asks(r), ~ArrayAsText(f, r)
  PROVE  Read(FirstEntries(f), r).how \in {"value", "threw"}
<1> DEFINE v == GetMetadata(FirstEntries(f), r.key)
<1>1. r.get = "text" => v.dtype # "array"
  BY DEF GetMetadata, FirstEntries, ArrayAsText, Absent
<1> HIDE DEF v
<1>2. Throws.how = "threw" /\ \A x : Answers(x).how = "value"
  BY DEF Throws, Answers
<1>3. Value(v, r.dtype).how \in {"value", "threw"} /\ ValArray(v, r.dtype).how \in {"value", "threw"}
  BY <1>2 DEF Value, ValArray
<1>4. CASE r.get = "text"
  <2>1. ValString(v).how = "value"
    BY <1>1, <1>2, <1>4 DEF ValString
  <2> QED BY <1>4, <2>1 DEF Read, v
<1>5. CASE r.get = "number" \/ r.get = "list"
  BY <1>3, <1>5 DEF Read, v
<1>6. CASE r.get = "file_type"
  <2>1. Read(FirstEntries(f), r) = [how |-> Value(v, r.dtype).how, val |-> FileTypeName(Value(v, r.dtype).val)]
    BY <1>6 DEF Read, v
  <2> QED BY <1>3, <2>1
<1> QED BY <1>4, <1>5, <1>6 DEF Asks

\* The last answer is the model's; load() and unload() forget it.
AnswerInv ==
  /\ pc \in Calling => answer = NoAnswer
  /\ answer.call \in DOMAIN Accessors =>
       /\ instance # NoModel
       /\ answer.how = Call(instance.meta, Accessors[answer.call]).how
       /\ answer.val = Call(instance.meta, Accessors[answer.call]).val

\* There is no answer at the start, and no call but the accessors leaves one.
LEMMA AnswerInvariant == Spec => []AnswerInv
<1>1. NoAnswer.call \notin DOMAIN Accessors
  BY DEF NoAnswer, Accessors
<1>2. Init => AnswerInv
  BY <1>1 DEF Init, AnswerInv
<1>3. AnswerInv /\ [Next]_vars => AnswerInv'
  <2> SUFFICES ASSUME AnswerInv, [Next]_vars PROVE AnswerInv'
    OBVIOUS
  <2>1. CASE Load \/ Unload
    <3>1. answer' = NoAnswer
      BY <2>1 DEF Load, Unload
    <3> QED BY <1>1, <3>1 DEF AnswerInv
  <2>2. CASE Stat \/ CheckMagic \/ Map \/ ParseMetadata \/ MetadataEnd \/ ParseTensorInfo \/ SetTensorBasePtr \/ Install
    <3>1. pc \in Calling /\ answer' = answer
      BY <2>2 DEF Stat, CheckMagic, Map, ParseMetadata, MetadataEnd, ParseTensorInfo, SetTensorBasePtr, Install,
                  model, Calling, Holding
    <3>2. answer' = NoAnswer
      BY <3>1 DEF AnswerInv
    <3> QED BY <1>1, <3>2 DEF AnswerInv
  <2>3. CASE CallAccessor
    <3>1. PICK call \in DOMAIN Accessors :
            answer' = [call |-> call, how |-> Call(instance.meta, Accessors[call]).how,
                       val |-> Call(instance.meta, Accessors[call]).val]
      BY <2>3 DEF CallAccessor
    <3>2. answer'.call = call /\ answer'.how = Call(instance.meta, Accessors[call]).how
          /\ answer'.val = Call(instance.meta, Accessors[call]).val
      BY <3>1
    <3>3. instance # NoModel /\ instance' = instance /\ pc' \in {"idle", "crashed"}
      BY <2>3 DEF CallAccessor
    <3> QED BY <3>2, <3>3 DEF AnswerInv, Calling, Holding
  <2>4. CASE Predict
    <3>1. PICK how, val : answer' = [call |-> "build_graph", how |-> how, val |-> val]
      BY <2>4 DEF Predict
    <3>2. answer'.call = "build_graph"
      BY <3>1
    <3>3. pc' \in {"idle", "crashed"}
      BY <2>4 DEF Predict
    <3> QED BY <3>2, <3>3 DEF AnswerInv, Calling, Holding, Accessors
  <2>5. CASE UNCHANGED vars
    BY <2>5 DEF vars, model, AnswerInv
  <2> QED BY <2>1, <2>2, <2>3, <2>4, <2>5 DEF Next
<1> QED BY <1>2, <1>3, PTL DEF Spec

\* The accessors tell what the file of the model says, if an int can count its
\* entries: they refuse a number that is missing or a number of another type, and
\* take a string or an array in its place for 0.
THEOREM AnswersCorrect == Spec => []AnswersFromFile
<1>1. FileInv /\ AnswerInv => AnswersFromFile
  <2> DEFINE f == Content[instance.file]
             reads == Accessors[answer.call]
             meta == FirstEntries(f)
             Right ==
               /\ answer.how = "value" =>
                    \A j \in 1..Len(reads) :
                      /\ HasAs(f, reads[j]) => answer.val[j] = Read(meta, reads[j]).val
                      /\ AsksNumber(reads[j]) => ~WrongNumber(f, reads[j])
                      /\ AsksNumber(reads[j]) /\ NoNumber(f, reads[j]) => answer.val[j] = Zero(reads[j])
               /\ (\A j \in 1..Len(reads) : HasAs(f, reads[j])) => answer.how = "value"
               /\ (\A j \in 1..Len(reads) : ~ArrayAsText(f, reads[j])) => answer.how \in {"value", "threw"}
  <2> SUFFICES ASSUME FileInv, AnswerInv, answer.call \in DOMAIN Accessors, instance.file \in FilesWithinInt
               PROVE  Right
    BY DEF AnswersFromFile
  <2>1. instance.meta = meta /\ IsFile(f)
    BY FilesWithinIntAre DEF FileInv, AnswerInv, FromFile
  <2>2. answer.how = Call(meta, reads).how /\ answer.val = Call(meta, reads).val
    BY <2>1 DEF AnswerInv
  <2>3. Len(reads) \in Nat /\ \A j \in 1..Len(reads) : Asks(reads[j])
    BY AccessorsAsk
  <2> HIDE DEF f, reads
  <2>4. \A j \in 1..Len(reads) : HasAs(f, reads[j]) => Read(meta, reads[j]).how = "value"
    BY <2>1, <2>3, ReadsHad
  <2>5. \A j \in 1..Len(reads) : AsksNumber(reads[j]) =>
          /\ WrongNumber(f, reads[j]) => Read(meta, reads[j]).how = "threw"
          /\ NoNumber(f, reads[j]) => Read(meta, reads[j]).val = Zero(reads[j])
    BY <2>3, NumbersRead
  <2>6. \A j \in 1..Len(reads) : ~ArrayAsText(f, reads[j]) => Read(meta, reads[j]).how \in {"value", "threw"}
    BY <2>3, OutcomeIs
  <2> HIDE DEF meta
  <2>7. CASE /\ \A j \in 1..Len(reads) : Read(meta, reads[j]).how = "value"
             /\ Call(meta, reads) = Answers([j \in 1..Len(reads) |-> Read(meta, reads[j]).val])
    <3>1. answer.how = "value" /\ answer.val = [j \in 1..Len(reads) |-> Read(meta, reads[j]).val]
      BY <2>2, <2>7 DEF Answers
    <3> QED BY <2>5, <2>7, <3>1
  <2>8. CASE \E j \in 1..Len(reads) : Read(meta, reads[j]).how # "value" /\ Call(meta, reads) = Read(meta, reads[j])
    <3>1. answer.how # "value"
      BY <2>2, <2>8
    <3>2. (\A j \in 1..Len(reads) : ~ArrayAsText(f, reads[j])) => answer.how \in {"value", "threw"}
      BY <2>2, <2>6, <2>8
    <3> QED BY <2>4, <2>8, <3>1, <3>2
  <2> QED BY <2>3, <2>7, <2>8, CallIs
<1> QED BY <1>1, FileInvariant, AnswerInvariant, PTL

-----------------------------------------------------------------------------
\* The graph.

\* If every block keeps to V, they all do, one after the other.
LEMMA BlocksIn ==
  ASSUME NEW V, NEW tensors_, NEW cfg, NEW inputs, cfg.n_blocks \in Nat,
         TokenEmbedding(inputs.input, Weights(tensors_, -1)["token_embd.weight"]) \in V,
         \A b \in 0..(cfg.n_blocks - 1) : \A x \in V :
           TransformerBlock(x, Weights(tensors_, b), cfg, inputs) \in V
  PROVE  ThroughBlocks(tensors_, cfg, inputs) \in V
<1> DEFINE n == cfg.n_blocks
           start == TokenEmbedding(inputs.input, Weights(tensors_, -1)["token_embd.weight"])
           B(x, j) == TransformerBlock(x, Weights(tensors_, j - 1), cfg, inputs)
           G(g) == [j \in 0..n |-> IF j = 0 THEN start ELSE B(g[j - 1], j)]
           after == CHOOSE after : after = G(after)
           F == [j \in 1..n |-> [x \in V |-> B(x, j)]]
<1>1. ThroughBlocks(tensors_, cfg, inputs) = after[n]
  BY DEF ThroughBlocks
<1>2. n \in Nat /\ start \in V
  OBVIOUS
<1>3. \A j \in 1..n : \A x \in V : B(x, j) \in V
  <2>1. \A j \in 1..n : j - 1 \in 0..(n - 1)
    BY <1>2
  <2> QED BY <2>1
<1> HIDE DEF n, start, B
<1>4. F \in [1..n -> [V -> V]] /\ \A j \in 1..n : \A x \in V : F[j][x] = B(x, j)
  BY <1>3
<1> HIDE DEF F
<1>5. PICK c : Obeys(c, V, start, n, F)
  BY <1>2, <1>4, RecursiveFunction DEF IsRule
<1>6. c \in [0..n -> V] /\ c[0] = start /\ \A j \in 1..n : c[j] = F[j][c[j - 1]]
  BY <1>5 DEF Obeys
<1>7. \A j \in 1..n : c[j] = B(c[j - 1], j)
  <2> SUFFICES ASSUME NEW j \in 1..n PROVE c[j] = B(c[j - 1], j)
    OBVIOUS
  <2>1. j - 1 \in 0..n
    BY <1>2
  <2> QED BY <1>4, <1>6, <2>1
<1>8. c = G(c)
  <2>1. ASSUME NEW j \in 0..n PROVE c[j] = IF j = 0 THEN start ELSE B(c[j - 1], j)
    <3>1. j = 0 \/ j \in 1..n
      BY <1>2
    <3> QED BY <1>6, <1>7, <3>1
  <2>2. c = [j \in 0..n |-> c[j]]
    BY <1>6
  <2> QED BY <2>1, <2>2
<1>9. after = G(after)
  <2> HIDE DEF G
  <2> QED BY <1>8
<1> HIDE DEF after
<1>10. PICK g : g = after
  OBVIOUS
<1>11. g = [j \in 0..n |-> IF j = 0 THEN start ELSE B(g[j - 1], j)]
  BY <1>9, <1>10
<1>12. \A j \in 0..n : g[j] = IF j = 0 THEN start ELSE B(g[j - 1], j)
  BY <1>11
<1> DEFINE T == {j \in Nat : j <= n => g[j] \in V}
<1>13. 0 \in T
  <2>1. 0 \in 0..n
    BY <1>2
  <2> QED BY <1>2, <1>12, <2>1
<1>14. ASSUME NEW j \in Nat, j \in T PROVE j + 1 \in T
  <2> SUFFICES ASSUME j + 1 <= n PROVE g[j + 1] \in V
    OBVIOUS
  <2>1. PICK k : k = j + 1
    OBVIOUS
  <2>2. k \in 0..n /\ k # 0 /\ k - 1 = j /\ j <= n /\ k \in 1..n
    BY <1>2, <2>1
  <2>3. g[k] = B(g[k - 1], k) /\ g[k - 1] \in V
    BY <1>12, <1>14, <2>2
  <2> QED BY <1>3, <2>1, <2>2, <2>3
<1>15. g[n] \in V
  <2>1. Nat \subseteq T
    <3> HIDE DEF T
    <3> QED BY <1>13, <1>14, NatSetInduction
  <2> QED BY <1>2, <2>1
<1> QED BY <1>1, <1>10, <1>15

\* What get_tensor_() answers: a null pointer or a tensor.
IsWeight(a) == a # Null => a[2] \in Nat /\ a[1] \in Nat

\* No tensor, or one with a row for each token of a batch of n.
RowsOf(n) == {Null} \cup {<<d, n, 1>> : d \in Nat}

\* The shape of a tensor.
LEMMA ShapeIs ==
  ASSUME NEW dims \in Seq(Nat)
  PROVE  /\ Shape(dims) # Null /\ Shape(dims)[1] \in Nat /\ Shape(dims)[2] \in Nat
         /\ \A a, b : dims = <<a, b>> => Shape(dims) = <<a, b, 1>>
         /\ \A a : dims = <<a>> => Shape(dims) = <<a, 1, 1>>
<1>1. Len(dims) \in Nat /\ \A d \in 1..Len(dims) : dims[d] \in Nat
  OBVIOUS
<1>2. DOMAIN Shape(dims) = 1..3 /\ \A d \in 1..3 : Shape(dims)[d] = IF d <= Len(dims) THEN dims[d] ELSE 1
  BY DEF Shape
<1>3. 1 \in 1..3 /\ 2 \in 1..3 /\ (1 <= Len(dims) => 1 \in 1..Len(dims)) /\ (2 <= Len(dims) => 2 \in 1..Len(dims))
  BY <1>1
<1>4. Shape(dims) # Null
  <2>1. DOMAIN Null = {} /\ 1 \notin {}
    BY DEF Null
  <2> QED BY <1>2, <1>3, <2>1
<1>5. Shape(dims)[1] \in Nat /\ Shape(dims)[2] \in Nat
  BY <1>1, <1>2, <1>3
<1>6. ASSUME NEW a, NEW b, dims = <<a, b>> PROVE Shape(dims) = <<a, b, 1>>
  <2>1. Len(dims) = 2 /\ dims[1] = a /\ dims[2] = b
    BY <1>6
  <2> QED BY <2>1 DEF Shape
<1>7. ASSUME NEW a, dims = <<a>> PROVE Shape(dims) = <<a, 1, 1>>
  <2>1. Len(dims) = 1 /\ dims[1] = a
    BY <1>7
  <2> QED BY <2>1 DEF Shape
<1> QED BY <1>4, <1>5, <1>6, <1>7

\* Adding keeps the shape, or fails.
LEMMA AddIs ==
  ASSUME NEW a, NEW b
  PROVE  Add(a, b) \in {a, Null} /\ PreNorm(a, b) \in {a, Null} /\ Residual(a, b) \in {a, Null}
BY DEF Add, PreNorm, Residual

\* A product has the rows of its second factor.
LEMMA MulMatRows ==
  ASSUME NEW n, NEW a, IsWeight(a), NEW b \in RowsOf(n)
  PROVE  MulMat(a, b) \in RowsOf(n)
<1>1. CASE MulMat(a, b) = Null
  BY <1>1 DEF RowsOf
<1>2. CASE MulMat(a, b) # Null
  <2>1. a # Null /\ b # Null /\ MulMat(a, b) = <<a[2], b[2], b[3]>>
    BY <1>2 DEF MulMat
  <2>2. PICK d \in Nat : b = <<d, n, 1>>
    BY <2>1 DEF RowsOf
  <2>3. a[2] \in Nat /\ b[2] = n /\ b[3] = 1
    BY <2>1, <2>2 DEF IsWeight
  <2> QED BY <2>1, <2>3 DEF RowsOf
<1> QED BY <1>1, <1>2

\* A block has a row for every token, if it has any.
LEMMA BlockRows ==
  ASSUME NEW n, NEW w, \A part \in Parts : IsWeight(w[part]), NEW cfg, NEW inputs, NEW x \in RowsOf(n)
  PROVE  TransformerBlock(x, w, cfg, inputs) \in RowsOf(n)
<1>0. Null \in RowsOf(n)
  BY DEF RowsOf
<1>1. \A y \in RowsOf(n) : \A b : Add(y, b) \in RowsOf(n) /\ PreNorm(y, b) \in RowsOf(n) /\ Residual(y, b) \in RowsOf(n)
  BY <1>0, AddIs
<1>2. \A y \in RowsOf(n) : \A part \in Parts : MulMat(w[part], y) \in RowsOf(n)
  BY MulMatRows
<1>3. "attn_output.weight" \in Parts /\ "ffn_gate.weight" \in Parts /\ "ffn_down.weight" \in Parts
  BY DEF Parts
<1>4. ASSUME NEW y \in RowsOf(n), NEW p, NEW m PROVE GroupedAttention(y, w, cfg, p, m) \in RowsOf(n)
  <2>1. CASE y = Null
    BY <1>0, <2>1 DEF GroupedAttention
  <2>2. CASE y # Null
    <3>1. <<y[1], y[2], 1>> \in RowsOf(n)
      <4>1. PICK d \in Nat : y = <<d, n, 1>>
        BY <2>2 DEF RowsOf
      <4> QED BY <4>1 DEF RowsOf
    <3>2. \A a : Reshape(a, <<y[1], y[2], 1>>) \in RowsOf(n)
      BY <1>0, <3>1 DEF Reshape
    <3>3. \A a : MulMat(w["attn_output.weight"], Reshape(a, <<y[1], y[2], 1>>)) \in RowsOf(n)
      BY <1>2, <1>3, <3>2
    <3>4. \/ GroupedAttention(y, w, cfg, p, m) = Null
          \/ \E a : GroupedAttention(y, w, cfg, p, m) = MulMat(w["attn_output.weight"], Reshape(a, <<y[1], y[2], 1>>))
      BY DEF GroupedAttention
    <3> QED BY <1>0, <3>3, <3>4
  <2> QED BY <2>1, <2>2
<1>5. ASSUME NEW y \in RowsOf(n) PROVE SwigLU(y, w) \in RowsOf(n)
  <2>1. MulMat(w["ffn_gate.weight"], y) \in RowsOf(n)
    BY <1>2, <1>3
  <2>2. Add(MulMat(w["ffn_gate.weight"], y), MulMat(w["ffn_up.weight"], y)) \in RowsOf(n)
    BY <1>1, <2>1
  <2> QED BY <1>2, <1>3, <2>2 DEF SwigLU
<1>6. AttentionLayer(x, w, cfg, inputs) \in RowsOf(n)
  BY <1>1, <1>4 DEF AttentionLayer
<1>7. \A y \in RowsOf(n) : FeedForwardLayer(y, w) \in RowsOf(n)
  BY <1>1, <1>5 DEF FeedForwardLayer
<1> QED BY <1>6, <1>7 DEF TransformerBlock

\* The tensors of a model are weights.
LEMMA WeightsAre ==
  ASSUME NEW ts, \A name \in DOMAIN ts : ts[name].dims \in Seq(Nat), NEW b
  PROVE  \A part \in Parts : IsWeight(Weights(ts, b)[part])
<1> SUFFICES ASSUME NEW part \in Parts PROVE IsWeight(Weights(ts, b)[part])
  OBVIOUS
<1>1. Weights(ts, b)[part] = GetTensor(ts, b, part)
  BY DEF Weights
<1>2. CASE <<b, part>> \in DOMAIN ts
  BY <1>1, <1>2, ShapeIs DEF GetTensor, IsWeight
<1>3. CASE <<b, part>> \notin DOMAIN ts
  BY <1>1, <1>3 DEF GetTensor, IsWeight
<1> QED BY <1>2, <1>3

\* The graph has a row of logits for every token of the batch, if it is built.
LEMMA GraphRows ==
  ASSUME NEW ts, \A name \in DOMAIN ts : ts[name].dims \in Seq(Nat), NEW cfg, cfg.n_blocks \in Nat, NEW n
  PROVE  BuildGraph(ts, cfg, n) \in RowsOf(n)
<1> DEFINE inputs == CreateInputTensors(n, cfg.max_context_len)
           W(b) == Weights(ts, b)
<1>1. \A b : \A part \in Parts : IsWeight(W(b)[part])
  BY WeightsAre
<1>2. inputs.input = <<n, 1, 1>>
  BY DEF CreateInputTensors
<1> HIDE DEF inputs, W
<1>3. "token_embd.weight" \in Parts /\ "output.weight" \in Parts
  BY DEF Parts
<1>4. TokenEmbedding(inputs.input, W(-1)["token_embd.weight"]) \in RowsOf(n)
  BY <1>1, <1>2, <1>3 DEF TokenEmbedding, GetRows, RowsOf, IsWeight
<1>5. \A b \in 0..(cfg.n_blocks - 1) : \A x \in RowsOf(n) : TransformerBlock(x, W(b), cfg, inputs) \in RowsOf(n)
  BY <1>1, BlockRows
<1>6. ThroughBlocks(ts, cfg, inputs) \in RowsOf(n)
  BY <1>4, <1>5, BlocksIn DEF W
<1>7. PreNorm(ThroughBlocks(ts, cfg, inputs), W(-1)["output_norm.weight"]) \in RowsOf(n)
  BY <1>6, AddIs DEF RowsOf
<1>8. MulMat(W(-1)["output.weight"], PreNorm(ThroughBlocks(ts, cfg, inputs), W(-1)["output_norm.weight"])) \in RowsOf(n)
  BY <1>1, <1>3, <1>7, MulMatRows
<1> QED BY <1>8 DEF BuildGraph, TokenUnembedding, inputs, W

\* No remainder.
LEMMA NoRemainder ==
  ASSUME NEW a \in Nat, a > 0
  PROVE  a % a = 0 /\ a % 1 = 0
<1>1. a = a * 1 + 0 /\ 0 \in 0..(a - 1) /\ a \in Int /\ a # 0
  OBVIOUS
<1>2. a % a = 0
  BY <1>1, ModUnique
<1>3. a = 1 * a + 0 /\ 0 \in 0..(1 - 1)
  OBVIOUS
<1>4. \A q \in Int : \A r \in 0..(1 - 1) : a = 1 * q + r => a % 1 = r
  BY <1>1, ModUnique
<1>5. a % 1 = 0
  BY <1>1, <1>3, <1>4
<1> QED BY <1>2, <1>5

\* A vector of d that may be missing.
Optional(d) == {Null, <<d, 1, 1>>}

\* Sums of what fits.
LEMMA AddFits ==
  ASSUME NEW d \in Nat, d > 0, NEW n \in Nat, n > 0, NEW g \in Optional(d)
  PROVE  LET x == <<d, n, 1>>
         IN  Add(x, x) = x /\ Residual(x, x) = x /\ PreNorm(x, g) = x /\ Biased(x, g) = x
<1> DEFINE x == <<d, n, 1>>
           u == <<d, 1, 1>>
<1>1. d % d = 0 /\ n % n = 0 /\ n % 1 = 0 /\ 1 % 1 = 0
  <2>1. 1 \in Nat /\ 1 > 0
    OBVIOUS
  <2>2. \A a \in Nat : a > 0 => a % a = 0 /\ a % 1 = 0
    BY NoRemainder
  <2> QED BY <2>1, <2>2
<1>2. x[1] = d /\ x[2] = n /\ x[3] = 1 /\ u[1] = d /\ u[2] = 1 /\ u[3] = 1 /\ x # Null /\ u # Null
  BY DEF Null
<1> HIDE DEF x, u
<1>3. \A i \in 1..3 : i = 1 \/ i = 2 \/ i = 3
  OBVIOUS
<1>4. \A i \in 1..3 : x[i] # 0 /\ x[i] % x[i] = 0
  BY <1>1, <1>2, <1>3
<1>5. \A i \in 1..3 : u[i] # 0 /\ x[i] % u[i] = 0
  BY <1>1, <1>2, <1>3
<1>6. Add(x, x) = x
  BY <1>2, <1>4 DEF Add
<1>7. Add(x, u) = x
  BY <1>2, <1>5 DEF Add
<1>8. g = Null \/ g = u
  BY DEF Optional, u
<1> QED BY <1>6, <1>7, <1>8 DEF Residual, PreNorm, Biased, x

\* Products of what fits.
LEMMA MulMatFits ==
  ASSUME NEW d, NEW e, NEW n
  PROVE  MulMat(<<d, e, 1>>, <<d, n, 1>>) = <<e, n, 1>>
<1> DEFINE a == <<d, e, 1>>
           b == <<d, n, 1>>
<1>1. a[1] = d /\ a[2] = e /\ a[3] = 1 /\ b[1] = d /\ b[2] = n /\ b[3] = 1 /\ a # Null /\ b # Null
  BY DEF Null
<1>2. 1 % 1 = 0
  <2>1. 1 \in Nat /\ 1 > 0
    OBVIOUS
  <2> QED BY <2>1, NoRemainder
<1> HIDE DEF a, b
<1>3. MulMat(a, b) = <<e, n, 1>>
  BY <1>1, <1>2 DEF MulMat
<1> QED BY <1>3 DEF a, b

\* The weights of a block that fits the configuration.
FitsBlock(w, dim, kv, ff) ==
  /\ w["attn_q.weight"] = <<dim, dim, 1>> /\ w["attn_output.weight"] = <<dim, dim, 1>>
  /\ w["attn_k.weight"] = <<dim, kv, 1>> /\ w["attn_v.weight"] = <<dim, kv, 1>>
  /\ w["ffn_gate.weight"] = <<dim, ff, 1>> /\ w["ffn_up.weight"] = <<dim, ff, 1>>
  /\ w["ffn_down.weight"] = <<ff, dim, 1>>
  /\ w["attn_norm.weight"] \in Optional(dim) /\ w["attn_q.bias"] \in Optional(dim)
  /\ w["ffn_norm.weight"] \in Optional(dim)
  /\ w["attn_k.bias"] \in Optional(kv) /\ w["attn_v.bias"] \in Optional(kv)

\* The sizes of a configuration: heads of dh.
Sizes(cfg, dim, dh, kv) ==
  /\ cfg.nheads \in Nat /\ cfg.nheads > 0 /\ cfg.nkv \in Nat /\ cfg.nkv > 0
  /\ dim \in Nat /\ dim > 0 /\ cfg.embedding_dim = dim
  /\ dh = dim \div cfg.nheads /\ dh \in Nat /\ dh > 0 /\ dim = dh * cfg.nheads
  /\ kv = dh * cfg.nkv /\ kv \in Nat /\ kv > 0
  /\ cfg.nheads % cfg.nkv = 0

\* The attention of a block that fits.
LEMMA AttentionFits ==
  ASSUME NEW w, NEW dim, NEW kv, NEW ff, FitsBlock(w, dim, kv, ff), NEW cfg, NEW dh, Sizes(cfg, dim, dh, kv),
         NEW n \in Nat, n > 0, NEW maxLen, maxLen = cfg.max_context_len
  PROVE  GroupedAttention(<<dim, n, 1>>, w, cfg, <<n, 1, 1>>, <<maxLen, n, 1>>) = <<dim, n, 1>>
<1> DEFINE x == <<dim, n, 1>>
           y == <<kv, n, 1>>
           h == cfg.nheads
           k == cfg.nkv
           positions == <<n, 1, 1>>
           mask == <<maxLen, n, 1>>
           q == <<dh, h, n>>
           r == <<dh, k, n>>
           slice == <<dh, maxLen, k>>
<1>1. /\ h \in Nat /\ h > 0 /\ k \in Nat /\ k > 0 /\ dim \in Nat /\ dim > 0 /\ dh \in Nat /\ kv \in Nat /\ kv > 0
      /\ dh = dim \div h /\ dim = dh * h /\ kv = dh * k /\ h % k = 0
  BY DEF Sizes
<1>2. MulMat(w["attn_q.weight"], x) = x /\ MulMat(w["attn_output.weight"], x) = x
  BY MulMatFits DEF FitsBlock
<1>3. MulMat(w["attn_k.weight"], x) = y /\ MulMat(w["attn_v.weight"], x) = y
  BY MulMatFits DEF FitsBlock
<1>a. \A d \in Nat : \A g \in Optional(d) : d > 0 => Biased(<<d, n, 1>>, g) = <<d, n, 1>>
  BY AddFits
<1>b. w["attn_q.bias"] \in Optional(dim) /\ w["attn_k.bias"] \in Optional(kv) /\ w["attn_v.bias"] \in Optional(kv)
  BY DEF FitsBlock
<1>4. Biased(x, w["attn_q.bias"]) = x
  BY <1>1, <1>a, <1>b
<1>5. Biased(y, w["attn_k.bias"]) = y /\ Biased(y, w["attn_v.bias"]) = y
  BY <1>1, <1>a, <1>b
<1>6. x[1] = dim /\ x[2] = n /\ x[3] = 1 /\ y[1] = kv /\ y[2] = n /\ y[3] = 1 /\ x # Null /\ y # Null
  BY DEF Null
<1>7. q[1] = dh /\ q[2] = h /\ q[3] = n /\ r[1] = dh /\ r[2] = k /\ r[3] = n /\ q # Null /\ r # Null
  BY DEF Null
<1>8. slice[1] = dh /\ slice[2] = maxLen /\ slice[3] = k /\ positions[1] = n /\ mask[1] = maxLen /\ mask[2] = n
  OBVIOUS
<1>9. Slice(cfg) = slice /\ KvHeads(cfg) = k
  BY DEF Slice, Sizes, KvHeads
<1> DEFINE t == <<dh, n, h>>
<1>10. t[1] = dh /\ t[2] = n /\ t[3] = h /\ t # Null
  BY DEF Null
<1> HIDE DEF x, y, q, r, slice, positions, mask, h, k, t
<1>11. Elements(x) = Elements(q) /\ Elements(q) = Elements(x) /\ Elements(y) = Elements(r)
  <2>1. Elements(x) = dim * n * 1 /\ Elements(q) = dh * h * n /\ Elements(y) = kv * n * 1 /\ Elements(r) = dh * k * n
    BY <1>6, <1>7 DEF Elements
  <2>2. dim * n * 1 = dh * h * n /\ kv * n * 1 = dh * k * n
    <3>1. dim * n \in Int /\ kv * n \in Int
      BY <1>1
    <3>2. \A i \in Int : i * 1 = i
      OBVIOUS
    <3> QED BY <1>1, <3>1, <3>2
  <2> QED BY <2>1, <2>2
<1>12. Reshape(x, q) = q /\ Reshape(q, x) = x /\ Reshape(y, r) = r
  BY <1>6, <1>7, <1>11 DEF Reshape
<1>13. Rope(q, positions) = q /\ Rope(r, positions) = r
  BY <1>7, <1>8 DEF Rope
<1>14. Permute(q) = t
  BY <1>7 DEF Permute, t
<1>15. FlashAttn(t, slice, slice, mask) = q
  <2>1. mask[2] >= t[2]
    BY <1>8, <1>10
  <2> QED BY <1>1, <1>8, <1>10, <2>1 DEF FlashAttn, q
<1>16. <<dh, h, x[2]>> = q /\ <<dh, k, x[2]>> = r /\ x[1] \div cfg.nheads = dh /\ <<x[1], x[2], 1>> = x
  BY <1>1, <1>6 DEF q, r, x, h
<1>17. GroupedAttention(x, w, cfg, positions, mask) = x
  <2> DEFINE dHead == x[1] \div cfg.nheads
             Qcur == Permute(Rope(Reshape(Biased(MulMat(w["attn_q.weight"], x), w["attn_q.bias"]), <<dHead, cfg.nheads, x[2]>>), positions))
             Kcur == Rope(Reshape(Biased(MulMat(w["attn_k.weight"], x), w["attn_k.bias"]), <<dHead, KvHeads(cfg), x[2]>>), positions)
             Vcur == Reshape(Biased(MulMat(w["attn_v.weight"], x), w["attn_v.bias"]), <<dHead, KvHeads(cfg), x[2]>>)
             KQV == FlashAttn(Qcur, Slice(cfg), Slice(cfg), mask)
  <2>1. GroupedAttention(x, w, cfg, positions, mask) =
          IF x = Null \/ Kcur = Null \/ Vcur = Null THEN Null
          ELSE MulMat(w["attn_output.weight"], Reshape(KQV, <<x[1], x[2], 1>>))
    BY DEF GroupedAttention
  <2>2. Qcur = t
    BY <1>2, <1>4, <1>12, <1>13, <1>14, <1>16 DEF h
  <2>3. Kcur = r /\ Vcur = r
    BY <1>3, <1>5, <1>9, <1>12, <1>13, <1>16
  <2> HIDE DEF Qcur, Kcur, Vcur
  <2>4. KQV = q
    BY <1>9, <1>15, <2>2
  <2> HIDE DEF KQV
  <2> QED BY <1>2, <1>6, <1>7, <1>12, <1>16, <2>1, <2>3, <2>4
<1> QED BY <1>17 DEF x, positions, mask

\* A block that fits keeps the shape of what it is given.
LEMMA BlockFits ==
  ASSUME NEW w, NEW dim, NEW kv, NEW ff \in Nat, ff > 0, FitsBlock(w, dim, kv, ff), NEW cfg, NEW dh,
         Sizes(cfg, dim, dh, kv), NEW n \in Nat, n > 0,
         NEW inputs, inputs = CreateInputTensors(n, cfg.max_context_len)
  PROVE  TransformerBlock(<<dim, n, 1>>, w, cfg, inputs) = <<dim, n, 1>>
<1> DEFINE x == <<dim, n, 1>>
           z == <<ff, n, 1>>
<1>1. dim \in Nat /\ dim > 0
  BY DEF Sizes
<1>2. inputs.positions = <<n, 1, 1>> /\ inputs.mask = <<cfg.max_context_len, n, 1>>
  BY DEF CreateInputTensors
<1>3. PreNorm(x, w["attn_norm.weight"]) = x /\ PreNorm(x, w["ffn_norm.weight"]) = x /\ Residual(x, x) = x
  BY <1>1, AddFits DEF FitsBlock
<1>4. GroupedAttention(x, w, cfg, inputs.positions, inputs.mask) = x
  BY <1>2, AttentionFits
<1>5. MulMat(w["ffn_gate.weight"], x) = z /\ MulMat(w["ffn_up.weight"], x) = z /\ MulMat(w["ffn_down.weight"], z) = x
  BY MulMatFits DEF FitsBlock
<1>6. Add(z, z) = z
  <2>1. Null \in Optional(ff)
    BY DEF Optional
  <2> QED BY <2>1, AddFits
<1> HIDE DEF x, z
<1>7. SwigLU(x, w) = x
  BY <1>5, <1>6 DEF SwigLU
<1>8. AttentionLayer(x, w, cfg, inputs) = x
  BY <1>3, <1>4 DEF AttentionLayer
<1>9. FeedForwardLayer(x, w) = x
  BY <1>3, <1>7 DEF FeedForwardLayer
<1>10. TransformerBlock(x, w, cfg, inputs) = x
  BY <1>8, <1>9 DEF TransformerBlock
<1> QED BY <1>10 DEF x

\* A number that a model's configuration reads.
LEMMA NumberRead ==
  ASSUME NEW f, IsFile(f), NEW key, NEW dtype
  PROVE  LET x == Read(FirstEntries(f), Number(key, dtype))
         IN  x.how \in {"value", "threw"} /\ (x.how = "value" /\ dtype = "uint32" => x.val \in Nat)
<1> DEFINE v == GetMetadata(FirstEntries(f), key)
           x == Read(FirstEntries(f), Number(key, dtype))
<1>1. x = Value(v, dtype)
  BY DEF Read, Number
<1>2. x = Throws \/ x = Answers(0) \/ (x = Answers(v.num) /\ v.dtype = dtype /\ v.dtype \in ScalarTypes)
  BY <1>1 DEF Value
<1>3. ASSUME dtype = "uint32", v.dtype = dtype PROVE v.num \in Nat
  <2>1. key \in Keys(f)
    BY <1>3 DEF GetMetadata, FirstEntries, Absent
  <2>2. v = FirstEntry(f, key)
    BY <2>1 DEF GetMetadata, FirstEntries
  <2>3. PICK j \in 1..Len(f.kvs) : FirstEntry(f, key) = f.kvs[j].val
    BY <2>1, FirstEntryIs
  <2>4. IsValue(v)
    BY <2>2, <2>3 DEF IsFile, IsEntry
  <2> HIDE DEF v
  <2> QED BY <1>3, <2>4 DEF IsValue, ElementsOf
<1> HIDE DEF v, x
<1>4. Throws.how = "threw" /\ (\A y : Answers(y).how = "value" /\ Answers(y).val = y) /\ 0 \in Nat
  BY DEF Throws, Answers
<1>5. x.how \in {"value", "threw"} /\ (x.how = "value" /\ dtype = "uint32" => x.val \in Nat)
  BY <1>2, <1>3, <1>4
<1> QED BY <1>5 DEF x

\* The configuration of a model is read, or the call throws.
LEMMA ConfigRead ==
  ASSUME NEW f, IsFile(f)
  PROVE  LET read == Call(FirstEntries(f), ModelConfig)
         IN  /\ read.how \in {"value", "threw"}
             /\ read.how = "value" => /\ Config(read.val).nheads \in Nat /\ Config(read.val).nkv \in Nat
                                      /\ Config(read.val).embedding_dim \in Nat /\ Config(read.val).n_blocks \in Nat
<1> DEFINE meta == FirstEntries(f)
           read == Call(meta, ModelConfig)
           n == Len(ModelConfig)
           vals == [j \in 1..n |-> Read(meta, ModelConfig[j]).val]
<1>1. n = 7
  BY DEF ModelConfig
<1>2. \A j \in 1..7 : \E key, dtype : ModelConfig[j] = Number(key, dtype)
  BY DEF ModelConfig
<1>3. \A j \in {1, 2, 4, 5} : \E key : ModelConfig[j] = Number(key, "uint32")
  BY DEF ModelConfig
<1>4. \A j \in 1..7 : Read(meta, ModelConfig[j]).how \in {"value", "threw"}
  BY <1>2, NumberRead
<1>5. \A j \in {1, 2, 4, 5} : Read(meta, ModelConfig[j]).how = "value" => Read(meta, ModelConfig[j]).val \in Nat
  BY <1>3, NumberRead
<1> HIDE DEF meta, n
<1>6. \/ /\ \A j \in 1..n : Read(meta, ModelConfig[j]).how = "value"
         /\ read = Answers(vals)
      \/ \E j \in 1..n : Read(meta, ModelConfig[j]).how # "value" /\ read = Read(meta, ModelConfig[j])
  <2>1. Len(ModelConfig) \in Nat
    BY <1>1 DEF n
  <2> QED BY <2>1, CallIs DEF n
<1> HIDE DEF read
<1>7. read.how = "value" => read.val = vals /\ \A j \in 1..n : Read(meta, ModelConfig[j]).how = "value"
  <2> HIDE DEF vals
  <2>1. Answers(vals).val = vals
    BY DEF Answers
  <2> QED BY <1>6, <2>1
<1>8. read.how \in {"value", "threw"}
  BY <1>1, <1>4, <1>6 DEF Answers
<1>9. ASSUME read.how = "value" PROVE \A j \in {1, 2, 4, 5} : read.val[j] \in Nat
  <2>1. \A j \in {1, 2, 4, 5} : j \in 1..n
    BY <1>1
  <2> QED BY <1>5, <1>7, <1>9, <2>1
<1>10. read.how = "value" => /\ Config(read.val).nheads \in Nat /\ Config(read.val).nkv \in Nat
                             /\ Config(read.val).embedding_dim \in Nat /\ Config(read.val).n_blocks \in Nat
  BY <1>9 DEF Config
<1> QED BY <1>8, <1>10 DEF read, meta

\* The tensors of a model are those of its file.
LEMMA TensorsOfFile ==
  ASSUME NEW m, FromFile(m)
  PROVE  LET f == Content[m.file]
         IN  /\ \A name \in DOMAIN m.tensors :
                  m.tensors[name].dims \in Seq(Nat) /\ HasTensor(f, name, m.tensors[name].dims)
             /\ \A name, dims : HasTensor(f, name, dims) => name \in DOMAIN m.tensors /\ m.tensors[name].dims = dims
<1> DEFINE f == Content[m.file]
           N(j) == f.tensors[j].name.text
           n == Len(f.tensors)
<1>1. DOMAIN m.tensors = {N(j) : j \in 1..n}
  BY DEF FromFile
<1>2. \A j \in 1..n : m.tensors[N(j)].dims = f.tensors[j].dims
  <2> SUFFICES ASSUME NEW j \in 1..n PROVE m.tensors[N(j)].dims = f.tensors[j].dims
    OBVIOUS
  <2>1. PICK data : m.tensors[N(j)] = [dims |-> f.tensors[j].dims, data |-> data]
    BY DEF FromFile
  <2> QED BY <2>1
<1>3. \A j \in 1..n : f.tensors[j].dims \in Seq(Nat)
  <2>1. IsFile(f)
    BY FilesAre DEF FromFile
  <2> QED BY <2>1 DEF IsFile, IsTensor
<1>4. ASSUME NEW name \in DOMAIN m.tensors
      PROVE  m.tensors[name].dims \in Seq(Nat) /\ HasTensor(f, name, m.tensors[name].dims)
  <2>1. PICK j \in 1..n : name = N(j)
    BY <1>1
  <2> QED BY <1>2, <1>3, <2>1 DEF HasTensor
<1>5. ASSUME NEW name, NEW dims, HasTensor(f, name, dims)
      PROVE  name \in DOMAIN m.tensors /\ m.tensors[name].dims = dims
  <2>1. PICK j \in 1..n : N(j) = name /\ f.tensors[j].dims = dims
    BY <1>5 DEF HasTensor
  <2> QED BY <1>1, <1>2, <2>1
<1> QED BY <1>4, <1>5

\* Weights as the file has them.
LEMMA WeightsOfFile ==
  ASSUME NEW m, FromFile(m), NEW b, NEW part \in Parts
  PROVE  LET f == Content[m.file]
             x == Weights(m.tensors, b)[part]
         IN  /\ \A d, e : HasTensor(f, <<b, part>>, <<d, e>>) => x = <<d, e, 1>> /\ d \in Nat /\ e \in Nat
             /\ \A d : MayHaveTensor(f, <<b, part>>, <<d>>) => x \in Optional(d)
<1> DEFINE f == Content[m.file]
           name == <<b, part>>
           x == Weights(m.tensors, b)[part]
<1>1. x = IF name \in DOMAIN m.tensors THEN Shape(m.tensors[name].dims) ELSE Null
  BY DEF Weights, GetTensor
<1>2. name \in DOMAIN m.tensors => m.tensors[name].dims \in Seq(Nat) /\ HasTensor(f, name, m.tensors[name].dims)
  BY TensorsOfFile
<1>3. \A dims : HasTensor(f, name, dims) => name \in DOMAIN m.tensors /\ m.tensors[name].dims = dims
  BY TensorsOfFile
<1> HIDE DEF x, name, f
<1>4. ASSUME NEW d, NEW e, HasTensor(f, name, <<d, e>>) PROVE x = <<d, e, 1>> /\ d \in Nat /\ e \in Nat
  <2>1. PICK dims : dims = <<d, e>>
    OBVIOUS
  <2>2. dims \in Seq(Nat) /\ x = Shape(dims)
    BY <1>1, <1>2, <1>3, <1>4, <2>1
  <2>3. x = <<d, e, 1>> /\ x[1] \in Nat /\ x[2] \in Nat
    BY <2>1, <2>2, ShapeIs
  <2> QED BY <2>3
<1>5. ASSUME NEW d, MayHaveTensor(f, name, <<d>>) PROVE x \in Optional(d)
  <2>1. CASE name \in DOMAIN m.tensors
    <3>1. PICK dims : dims = m.tensors[name].dims
      OBVIOUS
    <3>2. dims = <<d>> /\ dims \in Seq(Nat) /\ x = Shape(dims)
      BY <1>1, <1>2, <1>5, <2>1, <3>1 DEF HasTensor, MayHaveTensor
    <3> QED BY <3>2, ShapeIs DEF Optional
  <2>2. CASE name \notin DOMAIN m.tensors
    BY <1>1, <2>2 DEF Optional
  <2> QED BY <2>1, <2>2
<1> QED BY <1>4, <1>5 DEF x, name, f

\* A whole file gives the graph of a batch of n tokens.
LEMMA GraphFits ==
  ASSUME NEW m, FromFile(m), NEW c, QwenConfig(c), c.nheads \in Nat, c.nkv \in Nat, c.n_blocks \in Nat,
         NEW vocab, NEW ff, ff > 0, QwenTensors(Content[m.file], c, vocab, ff), NEW n \in Nat, n > 0
  PROVE  BuildGraph(m.tensors, c, n) = <<vocab, n, 1>>
<1> DEFINE f == Content[m.file]
           dim == c.embedding_dim
           dh == dim \div c.nheads
           kv == dh * c.nkv
           inputs == CreateInputTensors(n, c.max_context_len)
           W(b) == Weights(m.tensors, b)
           x == <<dim, n, 1>>
<1>1. \A b : \A part \in Parts :
        /\ \A d, e : HasTensor(f, <<b, part>>, <<d, e>>) => W(b)[part] = <<d, e, 1>> /\ d \in Nat /\ e \in Nat
        /\ \A d : MayHaveTensor(f, <<b, part>>, <<d>>) => W(b)[part] \in Optional(d)
  BY WeightsOfFile
<1>2. /\ HasTensor(f, <<-1, "token_embd.weight">>, <<dim, vocab>>)
      /\ HasTensor(f, <<-1, "output.weight">>, <<dim, vocab>>)
      /\ MayHaveTensor(f, <<-1, "output_norm.weight">>, <<dim>>)
  BY DEF QwenTensors
<1>3. \A b \in 0..(c.n_blocks - 1) :
        /\ HasTensor(f, <<b, "attn_q.weight">>, <<dim, dim>>) /\ HasTensor(f, <<b, "attn_output.weight">>, <<dim, dim>>)
        /\ HasTensor(f, <<b, "attn_k.weight">>, <<dim, kv>>) /\ HasTensor(f, <<b, "attn_v.weight">>, <<dim, kv>>)
        /\ HasTensor(f, <<b, "ffn_gate.weight">>, <<dim, ff>>) /\ HasTensor(f, <<b, "ffn_up.weight">>, <<dim, ff>>)
        /\ HasTensor(f, <<b, "ffn_down.weight">>, <<ff, dim>>)
        /\ MayHaveTensor(f, <<b, "attn_norm.weight">>, <<dim>>) /\ MayHaveTensor(f, <<b, "attn_q.bias">>, <<dim>>)
        /\ MayHaveTensor(f, <<b, "ffn_norm.weight">>, <<dim>>)
        /\ MayHaveTensor(f, <<b, "attn_k.bias">>, <<kv>>) /\ MayHaveTensor(f, <<b, "attn_v.bias">>, <<kv>>)
  BY DEF QwenTensors, Blocks
<1>4. c.nheads > 0 /\ c.nkv > 0 /\ dim > 0 /\ dim % c.nheads = 0 /\ c.nheads % c.nkv = 0
  BY DEF QwenConfig
<1> HIDE DEF f, W
<1>5. \A part \in {"token_embd.weight", "output.weight", "output_norm.weight", "attn_norm.weight", "attn_q.weight",
                   "attn_q.bias", "attn_k.weight", "attn_k.bias", "attn_v.weight", "attn_v.bias", "attn_output.weight",
                   "ffn_norm.weight", "ffn_gate.weight", "ffn_up.weight", "ffn_down.weight"} : part \in Parts
  BY DEF Parts
<1>6. /\ W(-1)["token_embd.weight"] = <<dim, vocab, 1>> /\ dim \in Nat
      /\ W(-1)["output.weight"] = <<dim, vocab, 1>> /\ W(-1)["output_norm.weight"] \in Optional(dim)
  BY <1>1, <1>2, <1>5
<1>7. Sizes(c, dim, dh, kv)
  <2>1. PICK d, h, k, e : d = dim /\ h = c.nheads /\ k = c.nkv /\ e = d \div h
    OBVIOUS
  <2>2. d \in Nat /\ d > 0 /\ h \in Nat /\ h > 0 /\ k \in Nat /\ k > 0 /\ d % h = 0
    BY <1>4, <1>6, <2>1
  <2>3. e \in Int /\ d = h * e + (d % h)
    BY <2>1, <2>2
  <2>4. d = h * e
    BY <2>2, <2>3
  <2>5. e > 0
    BY <2>2, <2>3, <2>4
  <2>6. d = e * h /\ e \in Nat
    BY <2>2, <2>3, <2>4, <2>5
  <2>7. e * k \in Nat /\ e * k > 0
    BY <2>2, <2>5, <2>6
  <2> QED BY <1>4, <2>1, <2>2, <2>5, <2>6, <2>7 DEF Sizes
<1>8. ASSUME NEW b \in 0..(c.n_blocks - 1) PROVE FitsBlock(W(b), dim, kv, ff) /\ ff \in Nat
  <2> HIDE DEF dim, kv, dh
  <2>1. \A part \in Parts : \A d, e : HasTensor(f, <<b, part>>, <<d, e>>) => W(b)[part] = <<d, e, 1>>
    BY <1>1
  <2>2. \A part \in Parts : \A d : MayHaveTensor(f, <<b, part>>, <<d>>) => W(b)[part] \in Optional(d)
    BY <1>1
  <2>3. /\ W(b)["attn_q.weight"] = <<dim, dim, 1>> /\ W(b)["attn_output.weight"] = <<dim, dim, 1>>
        /\ W(b)["attn_k.weight"] = <<dim, kv, 1>> /\ W(b)["attn_v.weight"] = <<dim, kv, 1>>
    BY <1>3, <1>5, <2>1
  <2>4. /\ W(b)["ffn_gate.weight"] = <<dim, ff, 1>> /\ W(b)["ffn_up.weight"] = <<dim, ff, 1>>
        /\ W(b)["ffn_down.weight"] = <<ff, dim, 1>>
    BY <1>3, <1>5, <2>1
  <2>5. /\ W(b)["attn_norm.weight"] \in Optional(dim) /\ W(b)["attn_q.bias"] \in Optional(dim)
        /\ W(b)["ffn_norm.weight"] \in Optional(dim)
        /\ W(b)["attn_k.bias"] \in Optional(kv) /\ W(b)["attn_v.bias"] \in Optional(kv)
    BY <1>3, <1>5, <2>2
  <2>6. ff \in Nat
    BY <1>1, <1>3, <1>5
  <2> QED BY <2>3, <2>4, <2>5, <2>6 DEF FitsBlock
<1> HIDE DEF dim, dh, kv
<1>9. \A b \in 0..(c.n_blocks - 1) : TransformerBlock(x, W(b), c, inputs) = x
  BY <1>7, <1>8, BlockFits
<1>10. TokenEmbedding(inputs.input, W(-1)["token_embd.weight"]) = x
  <2>1. inputs.input[1] = n
    BY DEF CreateInputTensors
  <2>2. <<dim, vocab, 1>> # Null /\ <<dim, vocab, 1>>[1] = dim
    BY DEF Null
  <2> HIDE DEF inputs
  <2> QED BY <1>6, <2>1, <2>2 DEF TokenEmbedding, GetRows
<1> HIDE DEF inputs
<1>11. ThroughBlocks(m.tensors, c, inputs) = x
  <2> HIDE DEF x
  <2> DEFINE V == {x}
  <2>1. TokenEmbedding(inputs.input, W(-1)["token_embd.weight"]) \in V
    BY <1>10
  <2>2. \A b \in 0..(c.n_blocks - 1) : \A y \in V : TransformerBlock(y, W(b), c, inputs) \in V
    BY <1>9
  <2> HIDE DEF V
  <2>3. ThroughBlocks(m.tensors, c, inputs) \in V
    BY <2>1, <2>2, BlocksIn DEF W
  <2> QED BY <2>3 DEF V
<1>12. PreNorm(x, W(-1)["output_norm.weight"]) = x
  <2>1. dim \in Nat /\ dim > 0
    BY <1>7 DEF Sizes
  <2>2. \A d \in Nat : \A g \in Optional(d) : d > 0 => PreNorm(<<d, n, 1>>, g) = <<d, n, 1>>
    BY AddFits
  <2> QED BY <1>6, <2>1, <2>2
<1>13. MulMat(W(-1)["output.weight"], x) = <<vocab, n, 1>>
  BY <1>6, MulMatFits
<1> HIDE DEF x
<1> QED BY <1>11, <1>12, <1>13 DEF BuildGraph, TokenUnembedding, inputs, W

\* The answer of predict() is the graph of the model's tensors.
GraphInv ==
  answer.call = "build_graph" =>
    /\ instance # NoModel
    /\ LET read == Call(instance.meta, ModelConfig)
       IN  \E n \in Batches :
             LET out == BuildGraph(instance.tensors, Config(read.val), n)
             IN  IF read.how # "value" THEN answer.how = read.how
                 ELSE answer.val = <<n, out>> /\ answer.how = IF out = Null THEN "crashed" ELSE "value"

\* Only predict() leaves such an answer.
LEMMA GraphInvariant == Spec => []GraphInv
<1>1. NoAnswer.call # "build_graph"
  BY DEF NoAnswer
<1>2. Init => GraphInv
  BY <1>1 DEF Init, GraphInv
<1>3. AnswerInv /\ GraphInv /\ [Next]_vars => GraphInv'
  <2> SUFFICES ASSUME AnswerInv, GraphInv, [Next]_vars PROVE GraphInv'
    OBVIOUS
  <2>1. CASE Load \/ Unload
    <3>1. answer' = NoAnswer
      BY <2>1 DEF Load, Unload
    <3> QED BY <1>1, <3>1 DEF GraphInv
  <2>2. CASE Stat \/ CheckMagic \/ Map \/ ParseMetadata \/ MetadataEnd \/ ParseTensorInfo \/ SetTensorBasePtr \/ Install
    <3>1. pc \in Calling /\ answer' = answer
      BY <2>2 DEF Stat, CheckMagic, Map, ParseMetadata, MetadataEnd, ParseTensorInfo, SetTensorBasePtr, Install,
                  model, Calling, Holding
    <3>2. answer' = NoAnswer
      BY <3>1 DEF AnswerInv
    <3> QED BY <1>1, <3>2 DEF GraphInv
  <2>3. CASE CallAccessor
    <3>1. PICK call \in DOMAIN Accessors :
            \E how, val : answer' = [call |-> call, how |-> how, val |-> val]
      BY <2>3 DEF CallAccessor
    <3>2. answer'.call # "build_graph"
      BY <3>1 DEF Accessors
    <3> QED BY <3>2 DEF GraphInv
  <2>4. CASE Predict
    <3> DEFINE read == Call(instance.meta, ModelConfig)
               Out(n) == BuildGraph(instance.tensors, Config(read.val), n)
    <3>1. instance # NoModel /\ instance' = instance
      BY <2>4 DEF Predict
    <3>2. PICK n \in Batches :
            IF read.how # "value"
            THEN answer' = [call |-> "build_graph", how |-> read.how, val |-> <<n, Null>>]
            ELSE answer' = [call |-> "build_graph", how |-> IF Out(n) = Null THEN "crashed" ELSE "value",
                            val |-> <<n, Out(n)>>]
      BY <2>4 DEF Predict
    <3> HIDE DEF read, Out
    <3>3. IF read.how # "value" THEN answer'.how = read.how
          ELSE answer'.val = <<n, Out(n)>> /\ answer'.how = IF Out(n) = Null THEN "crashed" ELSE "value"
      BY <3>2
    <3> QED BY <3>1, <3>3 DEF GraphInv, read, Out
  <2>5. CASE UNCHANGED vars
    BY <2>5 DEF vars, model, GraphInv
  <2> QED BY <2>1, <2>2, <2>3, <2>4, <2>5 DEF Next
<1> QED BY <1>2, <1>3, AnswerInvariant, PTL DEF Spec

\* A graph has a row of logits for every token of its batch, and a file with the
\* tensors of its configuration gives one, with or without biases and norms.
THEOREM GraphCorrect == Spec => []GraphFitsModel
<1>1. FileInv /\ GraphInv => GraphFitsModel
  <2> DEFINE f == Content[instance.file]
             read == Call(FirstEntries(f), ModelConfig)
             c == Config(read.val)
             Dims(part) == {f.tensors[j].dims[2] : j \in {k \in 1..Len(f.tensors) : f.tensors[k].name.text[2] = part}}
             Right == /\ answer.how = "value" => answer.val[2][2] = answer.val[1]
                      /\ answer.how # "threw" /\ answer.val[1] > 0 =>
                           \A vocab \in Dims("output.weight"), ff \in Dims("ffn_up.weight") :
                             ff > 0 /\ QwenConfig(c) /\ QwenTensors(f, c, vocab, ff)
                               => answer.how = "value" /\ answer.val[2] = <<vocab, answer.val[1], 1>>
  <2> SUFFICES ASSUME FileInv, GraphInv, answer.call = "build_graph", instance.file \in FilesWithinInt PROVE Right
    BY DEF GraphFitsModel
  <2>1. FromFile(instance)
    BY DEF FileInv, GraphInv
  <2>2. IsFile(f) /\ instance.meta = FirstEntries(f)
    BY <2>1, FilesAre DEF FromFile
  <2>3. /\ read.how \in {"value", "threw"}
        /\ read.how = "value" => c.nheads \in Nat /\ c.nkv \in Nat /\ c.n_blocks \in Nat
    BY <2>2, ConfigRead
  <2>4. PICK n \in Batches :
          LET out == BuildGraph(instance.tensors, c, n)
          IN  IF read.how # "value" THEN answer.how = read.how
              ELSE answer.val = <<n, out>> /\ answer.how = IF out = Null THEN "crashed" ELSE "value"
    BY <2>2 DEF GraphInv
  <2>5. n \in Nat
    BY LoaderAssumption
  <2> DEFINE out == BuildGraph(instance.tensors, c, n)
  <2>6. CASE read.how # "value"
    <3>1. answer.how = "threw"
      BY <2>3, <2>4, <2>6
    <3> QED BY <3>1
  <2>7. CASE read.how = "value"
    <3>1. answer.val = <<n, out>> /\ answer.how = IF out = Null THEN "crashed" ELSE "value"
      BY <2>4, <2>7
    <3>2. answer.val[1] = n /\ answer.val[2] = out
      <4> HIDE DEF out
      <4> QED BY <3>1
    <3>3. out \in RowsOf(n)
      <4>1. \A name \in DOMAIN instance.tensors : instance.tensors[name].dims \in Seq(Nat)
        BY <2>1, TensorsOfFile
      <4> HIDE DEF c
      <4> QED BY <2>3, <2>7, <4>1, GraphRows
    <3>4. ASSUME NEW vocab, NEW ff \in Dims("ffn_up.weight"), ff > 0, QwenConfig(c), QwenTensors(f, c, vocab, ff), n > 0
          PROVE  out = <<vocab, n, 1>>
      <4> HIDE DEF c, f
      <4> QED BY <2>1, <2>3, <2>5, <2>7, <3>4, GraphFits DEF f
    <3> HIDE DEF out, c, f
    <3>5. answer.how = "value" => answer.val[2][2] = answer.val[1]
      BY <3>1, <3>2, <3>3 DEF RowsOf
    <3>6. \A a, b, d : <<a, b, d>> # Null
      BY DEF Null
    <3> QED BY <3>1, <3>2, <3>4, <3>5, <3>6
  <2> QED BY <2>3, <2>6, <2>7
<1> QED BY <1>1, FileInvariant, GraphInvariant, PTL

=============================================================================
