--------------------------- MODULE Streams_proofs ---------------------------
(***************************************************************************)
(* Proofs about the two streams of the system: the samples Listeners hands *)
(* on, for any number of dispatching threads, listeners and samples, and   *)
(* the audio of PcmStream, for any buffers and queue limit, down to the    *)
(* contract of its playback, PlaybackContract.                             *)
(***************************************************************************)
EXTENDS Listeners, PcmStream, SequenceTheorems, WellFoundedInduction, TLAPS

ListenerType ==
    /\ samples \in 0..MaxSamples
    /\ last \in [Sensors -> 0..samples]
    /\ callbacks \in [Sensors -> Seq(Listener)]
    /\ nextCallbackId \in 1..MaxListeners + 1
    /\ handling \in [Dispatchers -> 0..samples]
    /\ toCall \in [Dispatchers -> Seq(Listener)]
    /\ carries \in [Sample -> SUBSET Sensors]
    /\ listens \in [Listener -> [to : Sensors \cup {"none"}, after : 0..MaxSamples,
                                 upto : 0..MaxSamples]]
    /\ calls \in Seq(Listener \X Sample)
    /\ \A i \in 1..Len(calls) : calls[i][2] <= samples
    /\ thrown \subseteq 1..samples
    /\ \A d \in Dispatchers : handling[d] = 0 => toCall[d] = <<>>

\* The lists hold the listeners that were added and not removed, oldest first.
ListInv ==
    /\ \A s \in Sensors :
         /\ \A i, j \in 1..Len(callbacks[s]) : i < j => callbacks[s][i] < callbacks[s][j]
         /\ \A i \in 1..Len(callbacks[s]) :
              /\ callbacks[s][i] < nextCallbackId
              /\ listens[callbacks[s][i]].to = s
              /\ listens[callbacks[s][i]].after <= samples
              /\ listens[callbacks[s][i]].upto = MaxSamples
         /\ \A l \in Listener :
              listens[l].to = s /\ samples < listens[l].upto
                => \E i \in 1..Len(callbacks[s]) : callbacks[s][i] = l
    /\ \A l \in Listener : nextCallbackId <= l
         => listens[l].to = "none" /\ listens[l].upto = MaxSamples

\* What is left of a list when its entry i goes.
LEMMA Removed ==
    ASSUME NEW S, NEW q \in Seq(S), NEW i \in 1..Len(q)
    PROVE  /\ RemoveAt(q, i) \in Seq(S) /\ Len(RemoveAt(q, i)) = Len(q) - 1
           /\ \A k \in 1..Len(RemoveAt(q, i)) :
                k \in 1..Len(q) /\ k + 1 \in 1..Len(q)
                /\ RemoveAt(q, i)[k] = IF k < i THEN q[k] ELSE q[k + 1]
           /\ \A k \in 1..Len(q) : k # i =>
                \E j \in 1..Len(RemoveAt(q, i)) : RemoveAt(q, i)[j] = q[k]
<1> DEFINE a == SubSeq(q, 1, i - 1)
           b == SubSeq(q, i + 1, Len(q))
<1>1. Len(q) \in Nat
  OBVIOUS
<1>2. a \in Seq(S) /\ Len(a) = i - 1 /\ \A k \in 1..i - 1 : a[k] = q[k]
  <2>1. \A k \in 1..i - 1 : q[k] \in S /\ 1 + k - 1 = k
    BY <1>1, ElementOfSeq
  <2>2. i - 1 \in Int /\ 1 \in Int /\ (i - 1) - 1 + 1 = i - 1
    BY <1>1
  <2> HIDE DEF a
  <2>3. /\ a \in Seq(S) /\ Len(a) = IF 1 <= i - 1 THEN (i - 1) - 1 + 1 ELSE 0
        /\ \A k \in 1..(i - 1) - 1 + 1 : a[k] = q[1 + k - 1]
    BY <2>1, <2>2, SubSeqProperties DEF a
  <2>4. QED
    BY <1>1, <2>1, <2>2, <2>3
<1>3. b \in Seq(S) /\ Len(b) = Len(q) - i /\ \A k \in 1..Len(q) - i : b[k] = q[k + i]
  <2>1. \A k \in i + 1..Len(q) : q[k] \in S
    BY <1>1, ElementOfSeq
  <2>2. i + 1 \in Int /\ Len(q) \in Int /\ Len(q) - (i + 1) + 1 = Len(q) - i
        /\ \A k \in 1..Len(q) - i : (i + 1) + k - 1 = k + i
    BY <1>1
  <2> HIDE DEF b
  <2>3. /\ b \in Seq(S)
        /\ Len(b) = IF i + 1 <= Len(q) THEN Len(q) - (i + 1) + 1 ELSE 0
        /\ \A k \in 1..Len(q) - (i + 1) + 1 : b[k] = q[(i + 1) + k - 1]
    BY <2>1, <2>2, SubSeqProperties DEF b
  <2>4. QED
    BY <1>1, <2>2, <2>3
<1> DEFINE r == RemoveAt(q, i)
<1>4. r = a \o b
  BY DEF RemoveAt
<1> HIDE DEF a, b, r
<1>5. /\ r \in Seq(S) /\ Len(r) = Len(q) - 1
      /\ \A k \in 1..Len(q) - 1 : r[k] = IF k <= i - 1 THEN a[k] ELSE b[k - (i - 1)]
  <2>1. Len(a) + Len(b) = Len(q) - 1
    BY <1>1, <1>2, <1>3
  <2>2. /\ a \o b \in Seq(S) /\ Len(a \o b) = Len(a) + Len(b)
        /\ \A k \in 1..Len(a) + Len(b) :
             (a \o b)[k] = IF k <= Len(a) THEN a[k] ELSE b[k - Len(a)]
    BY <1>2, <1>3, ConcatProperties, Zenon
  <2>3. QED
    BY <1>2, <1>4, <2>1, <2>2, Zenon
<1>6. ASSUME NEW k \in 1..Len(q) - 1
      PROVE  r[k] = IF k < i THEN q[k] ELSE q[k + 1]
  <2>1. CASE k < i
    <3>1. k \in 1..i - 1 /\ k <= i - 1
      BY <1>1, <2>1
    <3>2. QED
      BY <1>2, <1>5, <2>1, <3>1
  <2>2. CASE ~(k < i)
    <3>1. k - (i - 1) \in 1..Len(q) - i /\ (k - (i - 1)) + i = k + 1 /\ ~(k <= i - 1)
      BY <1>1, <2>2
    <3>2. QED
      BY <1>3, <1>5, <2>2, <3>1
  <2>3. QED
    BY <2>1, <2>2
<1>7. ASSUME NEW k \in 1..Len(q), k # i
      PROVE  \E j \in 1..Len(q) - 1 : r[j] = q[k]
  <2>1. CASE k < i
    BY <1>1, <1>6, <2>1
  <2>2. CASE i < k
    <3>1. k - 1 \in 1..Len(q) - 1 /\ ~(k - 1 < i) /\ (k - 1) + 1 = k
      BY <1>1, <2>2
    <3>2. QED
      BY <1>6, <3>1
  <2>3. QED
    BY <1>1, <1>7, <2>1, <2>2
<1>8. QED
  BY <1>1, <1>5, <1>6, <1>7 DEF r

\* c holds what the lists of the sensors present hold, the IMU's first.
IsCopy(c, present) ==
    /\ c \in Seq(Listener)
    /\ \A k \in 1..Len(c) : \E s \in present :
         \E i \in 1..Len(callbacks[s]) : c[k] = callbacks[s][i]
    /\ \A s \in present : \A i \in 1..Len(callbacks[s]) :
         \E k \in 1..Len(c) : c[k] = callbacks[s][i]
    /\ \A k, m \in 1..Len(c) : k < m =>
         \/ \E s \in present : \E i, j \in 1..Len(callbacks[s]) :
               i < j /\ c[k] = callbacks[s][i] /\ c[m] = callbacks[s][j]
         \/ /\ {"imu", "tof"} \subseteq present
            /\ \E i \in 1..Len(callbacks["imu"]) : c[k] = callbacks["imu"][i]
            /\ \E j \in 1..Len(callbacks["tof"]) : c[m] = callbacks["tof"][j]

LEMMA Copied ==
    ASSUME callbacks \in [Sensors -> Seq(Listener)], NEW present \in SUBSET Sensors
    PROVE  IsCopy(Copy(present), present)
<1> DEFINE a == IF "imu" \in present THEN callbacks["imu"] ELSE <<>>
           b == IF "tof" \in present THEN callbacks["tof"] ELSE <<>>
           c == Copy(present)
<1>1. a \in Seq(Listener) /\ b \in Seq(Listener)
  BY DEF Sensors
<1>2. c = a \o b
  BY DEF Copy
<1>3. /\ a # <<>> => "imu" \in present /\ a = callbacks["imu"]
      /\ b # <<>> => "tof" \in present /\ b = callbacks["tof"]
      /\ "imu" \in present => a = callbacks["imu"]
      /\ "tof" \in present => b = callbacks["tof"]
      /\ \A s \in present : s = "imu" \/ s = "tof"
  BY DEF Sensors
<1> HIDE DEF a, b, c
<1>4. /\ Len(a) \in Nat /\ Len(b) \in Nat
      /\ a \o b \in Seq(Listener) /\ Len(a \o b) = Len(a) + Len(b)
      /\ \A k \in 1..Len(a) + Len(b) :
           (a \o b)[k] = IF k <= Len(a) THEN a[k] ELSE b[k - Len(a)]
  BY <1>1, ConcatProperties, LenProperties, Zenon
<1>5. /\ c \in Seq(Listener) /\ Len(c) = Len(a) + Len(b)
      /\ \A k \in 1..Len(c) : c[k] = IF k <= Len(a) THEN a[k] ELSE b[k - Len(a)]
  BY <1>2, <1>4, Zenon
<1>6. ASSUME NEW k \in 1..Len(c)
      PROVE  \/ k \in 1..Len(a) /\ c[k] = a[k] /\ a # <<>>
             \/ k - Len(a) \in 1..Len(b) /\ c[k] = b[k - Len(a)] /\ b # <<>> /\ Len(a) < k
  BY <1>1, <1>4, <1>5
<1>7. \A i \in 1..Len(a) : i \in 1..Len(c) /\ c[i] = a[i]
  BY <1>4, <1>5
<1>8. \A i \in 1..Len(b) : Len(a) + i \in 1..Len(c) /\ c[Len(a) + i] = b[i]
  <2> SUFFICES ASSUME NEW i \in 1..Len(b)
               PROVE  Len(a) + i \in 1..Len(c) /\ c[Len(a) + i] = b[i]
    OBVIOUS
  <2>1. Len(a) + i \in 1..Len(c) /\ ~(Len(a) + i <= Len(a)) /\ (Len(a) + i) - Len(a) = i
    BY <1>4, <1>5
  <2>2. QED
    BY <1>5, <2>1
<1>9. ASSUME NEW k \in 1..Len(c)
      PROVE  \E s \in present : \E i \in 1..Len(callbacks[s]) : c[k] = callbacks[s][i]
  BY <1>3, <1>6
<1>10. ASSUME NEW s \in present, NEW i \in 1..Len(callbacks[s])
       PROVE  \E k \in 1..Len(c) : c[k] = callbacks[s][i]
  <2>1. CASE s = "imu"
    BY <1>3, <1>7, <2>1
  <2>2. CASE s = "tof"
    BY <1>3, <1>8, <2>2
  <2>3. QED
    BY <1>3, <2>1, <2>2
<1>11. ASSUME NEW k \in 1..Len(c), NEW m \in 1..Len(c), k < m
       PROVE  \/ \E s \in present : \E i, j \in 1..Len(callbacks[s]) :
                    i < j /\ c[k] = callbacks[s][i] /\ c[m] = callbacks[s][j]
              \/ /\ {"imu", "tof"} \subseteq present
                 /\ \E i \in 1..Len(callbacks["imu"]) : c[k] = callbacks["imu"][i]
                 /\ \E j \in 1..Len(callbacks["tof"]) : c[m] = callbacks["tof"][j]
  <2>1. CASE k \in 1..Len(a) /\ m \in 1..Len(a)
    BY <1>3, <1>6, <1>7, <1>11, <2>1
  <2>2. CASE k \in 1..Len(a) /\ m - Len(a) \in 1..Len(b) /\ Len(a) < m
    BY <1>3, <1>4, <1>6, <2>2
  <2>3. CASE k - Len(a) \in 1..Len(b) /\ Len(a) < k /\ m - Len(a) \in 1..Len(b) /\ Len(a) < m
    <3>1. k - Len(a) < m - Len(a)
      BY <1>4, <1>11
    <3>2. c[k] = b[k - Len(a)] /\ c[m] = b[m - Len(a)] /\ b # <<>>
      BY <1>4, <1>6, <2>3
    <3>3. QED
      BY <1>3, <2>3, <3>1, <3>2
  <2>4. QED
    BY <1>4, <1>6, <1>11, <2>1, <2>2, <2>3
<1>12. QED
  BY <1>5, <1>9, <1>10, <1>11 DEF c, IsCopy

\* A callback's return or throw, seen from the calls made so far.
LEMMA Called ==
    ASSUME ListenerType, NEW d \in Dispatchers, Call(d)
    PROVE  /\ handling[d] \in Sample /\ handling[d] <= samples
           /\ Head(toCall[d]) \in Listener /\ Tail(toCall[d]) \in Seq(Listener)
           /\ calls' \in Seq(Listener \X Sample) /\ Len(calls') = Len(calls) + 1
           /\ \A i \in 1..Len(calls) : calls'[i] = calls[i]
           /\ calls'[Len(calls) + 1] = <<Head(toCall[d]), handling[d]>>
<1> USE ListenerAssumption DEF ListenerType
<1>1. toCall[d] \in Seq(Listener) /\ toCall[d] # <<>>
  BY DEF Call
<1>2. Head(toCall[d]) \in Listener /\ Tail(toCall[d]) \in Seq(Listener)
  BY <1>1, HeadTailProperties
<1>3. handling[d] \in 0..samples /\ handling[d] # 0
  BY <1>1
<1>4. handling[d] \in Sample /\ handling[d] <= samples
  BY <1>3 DEF Sample
<1> DEFINE c == <<Head(toCall[d]), handling[d]>>
           S == Listener \X Sample
<1>5. c \in S
  BY <1>2, <1>4, Zenon
<1>6. calls \in Seq(S) /\ calls' = Append(calls, c)
  BY DEF Call
<1> HIDE DEF ListenerType, c, S
<1>7. /\ Append(calls, c) \in Seq(S) /\ Len(Append(calls, c)) = Len(calls) + 1
      /\ \A i \in 1..Len(calls) : Append(calls, c)[i] = calls[i]
      /\ Append(calls, c)[Len(calls) + 1] = c
  BY <1>5, <1>6, SMT
<1>8. QED
  BY <1>2, <1>4, <1>6, <1>7, Zenon DEF c, S

\* Every step keeps every variable in its type.
LEMMA ListenerTypeStep ==
    ASSUME ListenerType, [Next]_vars
    PROVE  ListenerType'
<1> USE ListenerAssumption DEF ListenerType
<1>1. ASSUME NEW s \in Sensors, AddListener(s) PROVE ListenerType'
  <2>1. nextCallbackId \in Listener /\ nextCallbackId + 1 \in 1..MaxListeners + 1
    BY <1>1 DEF AddListener, Listener
  <2>2. Append(callbacks[s], nextCallbackId) \in Seq(Listener)
    BY <2>1, AppendProperties
  <2>3. callbacks' \in [Sensors -> Seq(Listener)]
    BY <1>1, <2>2 DEF AddListener
  <2>4. listens' \in [Listener -> [to : Sensors \cup {"none"}, after : 0..MaxSamples,
                                   upto : 0..MaxSamples]]
    BY <1>1, <2>1 DEF AddListener
  <2>5. QED
    BY <1>1, <2>1, <2>3, <2>4 DEF AddListener
<1>2. ASSUME NEW s \in Sensors, NEW l \in Listener, RemoveListener(s, l) PROVE ListenerType'
  <2>1. PICK i \in DOMAIN callbacks[s] :
          callbacks' = [callbacks EXCEPT ![s] = RemoveAt(callbacks[s], i)]
    BY <1>2 DEF RemoveListener
  <2>2. i \in 1..Len(callbacks[s]) /\ callbacks[s] \in Seq(Listener)
    OBVIOUS
  <2>3. RemoveAt(callbacks[s], i) \in Seq(Listener)
    BY <2>2, Removed
  <2>4. callbacks' \in [Sensors -> Seq(Listener)]
    BY <2>1, <2>3
  <2>5. listens' \in [Listener -> [to : Sensors \cup {"none"}, after : 0..MaxSamples,
                                   upto : 0..MaxSamples]]
    <3> DEFINE R == [to : Sensors \cup {"none"}, after : 0..MaxSamples, upto : 0..MaxSamples]
    <3>1. /\ listens' = [listens EXCEPT ![l].upto = samples]
          /\ listens \in [Listener -> R] /\ samples \in 0..MaxSamples
      BY <1>2 DEF RemoveListener
    <3> HIDE DEF ListenerType
    <3>2. [listens[l] EXCEPT !.upto = samples] \in R
      BY <3>1
    <3> HIDE DEF R
    <3>3. listens' \in [Listener -> R]
      BY <3>1, <3>2
    <3>4. QED
      BY <3>3 DEF R
  <2>6. QED
    BY <1>2, <2>4, <2>5 DEF RemoveListener, dogVars
<1>3. ASSUME NEW d \in Dispatchers, NEW present \in SUBSET Sensors, Store(d, present)
      PROVE  ListenerType'
  <2>1. Copy(present) \in Seq(Listener)
    BY Copied DEF IsCopy
  <2>2. toCall' \in [Dispatchers -> Seq(Listener)]
    BY <1>3, <2>1 DEF Store
  <2>3. /\ samples' = samples + 1 /\ samples + 1 \in Sample /\ samples' \in 0..MaxSamples
        /\ 0..samples \subseteq 0..samples' /\ 1..samples \subseteq 1..samples'
    BY <1>3 DEF Store, Sample
  <2>4. last' \in [Sensors -> 0..samples'] /\ handling' \in [Dispatchers -> 0..samples']
    BY <1>3, <2>3 DEF Store
  <2>5. carries' \in [Sample -> SUBSET Sensors]
    BY <1>3, <2>3 DEF Store
  <2>6. thrown' \subseteq 1..samples'
    BY <1>3, <2>3 DEF Store
  <2>7. \A i \in 1..Len(calls') : calls'[i][2] <= samples'
    <3>1. calls' = calls
      BY <1>3 DEF Store
    <3>2. \A i \in 1..Len(calls) : calls[i] \in Listener \X Sample
      BY ElementOfSeq
    <3>3. samples \in Nat /\ \A i \in 1..Len(calls) : calls[i][2] <= samples
      OBVIOUS
    <3> HIDE DEF ListenerType
    <3>4. \A i \in 1..Len(calls) : calls[i][2] \in Nat
      BY <3>2 DEF Sample
    <3>5. \A i \in 1..Len(calls) : calls[i][2] <= samples + 1
      BY <3>3, <3>4
    <3>6. QED
      BY <2>3, <3>1, <3>5
  <2>8. \A e \in Dispatchers : handling'[e] = 0 => toCall'[e] = <<>>
    <3>1. samples + 1 # 0
      OBVIOUS
    <3>2. QED
      BY <1>3, <3>1 DEF Store
  <2>9. callbacks' = callbacks /\ nextCallbackId' = nextCallbackId /\ listens' = listens
        /\ calls' = calls
    BY <1>3 DEF Store
  <2>10. QED
    BY <2>2, <2>3, <2>4, <2>5, <2>6, <2>7, <2>8, <2>9
<1>4. ASSUME NEW d \in Dispatchers, Call(d) PROVE ListenerType'
  <2>1. \A i \in 1..Len(calls') : calls'[i][2] <= samples
    <3>1. Len(calls) \in Nat /\ \A i \in 1..Len(calls) : calls[i][2] <= samples
      BY LenProperties
    <3>2. /\ Len(calls') = Len(calls) + 1 /\ handling[d] <= samples
          /\ \A i \in 1..Len(calls) : calls'[i] = calls[i]
          /\ calls'[Len(calls) + 1] = <<Head(toCall[d]), handling[d]>>
      <4>1. ListenerType
        OBVIOUS
      <4> HIDE DEF ListenerType
      <4>2. QED
        BY <1>4, <4>1, Called
    <3> HIDE DEF ListenerType
    <3>3. calls'[Len(calls) + 1][2] <= samples
      BY <3>2
    <3>4. \A i \in 1..Len(calls) + 1 : i \in 1..Len(calls) \/ i = Len(calls) + 1
      BY <3>1
    <3>5. QED
      BY <3>1, <3>2, <3>3, <3>4
  <2>2. calls' \in Seq(Listener \X Sample) /\ Tail(toCall[d]) \in Seq(Listener)
    BY <1>4, Called
  <2>3. handling[d] \in 1..samples /\ samples \in Nat
    BY <1>4, Called DEF Sample
  <2>4. /\ handling \in [Dispatchers -> 0..samples] /\ toCall \in [Dispatchers -> Seq(Listener)]
        /\ thrown \subseteq 1..samples
        /\ \A e \in Dispatchers : handling[e] = 0 => toCall[e] = <<>>
        /\ <<>> \in Seq(Listener)
    <3>1. <<>> \in Seq(Listener)
      BY EmptySeq, Zenon
    <3>2. QED
      BY <3>1
  <2>5. UNCHANGED <<samples, last, callbacks, nextCallbackId, carries, listens>>
    BY <1>4 DEF Call, dogVars
  <2>6. /\ handling' \in [Dispatchers -> 0..samples] /\ toCall' \in [Dispatchers -> Seq(Listener)]
        /\ thrown' \subseteq 1..samples
        /\ \A e \in Dispatchers : handling'[e] = 0 => toCall'[e] = <<>>
    <3> HIDE DEF ListenerType
    <3> DEFINE t == Tail(toCall[d])
               Q == Seq(Listener)
    <3>1. t \in Q /\ <<>> \in Q /\ toCall \in [Dispatchers -> Q]
      BY <2>2, <2>4
    <3>2. CASE toCall' = [toCall EXCEPT ![d] = t] /\ UNCHANGED <<handling, thrown>>
      <4> HIDE DEF t, Q
      <4>1. toCall' \in [Dispatchers -> Q]
        BY <3>1, <3>2
      <4>2. \A e \in Dispatchers : handling'[e] = 0 => toCall'[e] = <<>>
        BY <2>3, <2>4, <3>2
      <4>3. QED
        BY <2>4, <3>2, <4>1, <4>2 DEF Q
    <3>3. CASE /\ toCall' = [toCall EXCEPT ![d] = <<>>] /\ handling' = [handling EXCEPT ![d] = 0]
               /\ thrown' = thrown \cup {handling[d]}
      <4> HIDE DEF t, Q
      <4>1. toCall' \in [Dispatchers -> Q] /\ handling' \in [Dispatchers -> 0..samples]
        BY <2>3, <2>4, <3>1, <3>3
      <4>2. thrown' \subseteq 1..samples
        BY <2>3, <2>4, <3>3
      <4>3. \A e \in Dispatchers : handling'[e] = 0 => toCall'[e] = <<>>
        BY <2>4, <3>3
      <4>4. QED
        BY <4>1, <4>2, <4>3 DEF Q
    <3>4. QED
      BY <1>4, <3>2, <3>3 DEF Call
  <2>7. QED
    BY <2>1, <2>2, <2>5, <2>6
<1>5. ASSUME NEW d \in Dispatchers, Return(d) PROVE ListenerType'
  BY <1>5 DEF Return, dogVars
<1>6. CASE UNCHANGED vars
  BY <1>6 DEF vars, dogVars
<1>7. QED
  BY <1>1, <1>2, <1>3, <1>4, <1>5, <1>6 DEF Next

LEMMA ListStep ==
    ASSUME ListenerType, ListInv, [Next]_vars
    PROVE  ListInv'
<1> USE ListenerAssumption
<1>0. /\ samples \in 0..MaxSamples /\ nextCallbackId \in 1..MaxListeners + 1
      /\ listens \in [Listener -> [to : Sensors \cup {"none"}, after : 0..MaxSamples,
                                   upto : 0..MaxSamples]]
      /\ callbacks \in [Sensors -> Seq(Listener)]
  BY DEF ListenerType
<1>n. /\ samples \in Nat /\ nextCallbackId \in Nat /\ \A l \in Listener : l \in Nat
      /\ ~(samples < samples)
  BY <1>0 DEF Listener
<1>1. ASSUME NEW s \in Sensors, AddListener(s) PROVE ListInv'
  <2> DEFINE n == nextCallbackId
             q == callbacks[s]
             r == Append(q, n)
  <2>1. /\ n \in Listener /\ q \in Seq(Listener) /\ Len(q) \in Nat
        /\ r \in Seq(Listener) /\ Len(r) = Len(q) + 1
        /\ \A i \in 1..Len(q) : r[i] = q[i]
        /\ r[Len(q) + 1] = n
    <3>1. n \in Listener /\ q \in Seq(Listener)
      BY <1>0, <1>1 DEF AddListener, Listener
    <3> HIDE DEF n, q
    <3>2. QED
      BY <3>1
  <2>2. /\ callbacks' = [callbacks EXCEPT ![s] = r] /\ nextCallbackId' = n + 1
        /\ listens' = [listens EXCEPT ![n].to = s, ![n].after = samples]
        /\ samples' = samples
    BY <1>1 DEF AddListener
  <2>3. listens'[n].to = s /\ listens'[n].after = samples /\ listens'[n].upto = MaxSamples
    BY <1>0, <2>1, <2>2 DEF ListInv
  <2>4. \A l \in Listener : l # n => listens'[l] = listens[l]
    BY <1>0, <2>1, <2>2
  <2>5. callbacks'[s] = r /\ \A t \in Sensors : t # s => callbacks'[t] = callbacks[t]
    BY <1>0, <2>2
  <2> HIDE DEF r
  <2>6. ASSUME NEW t \in Sensors
        PROVE  /\ \A i, j \in 1..Len(callbacks'[t]) : i < j => callbacks'[t][i] < callbacks'[t][j]
               /\ \A i \in 1..Len(callbacks'[t]) :
                    /\ callbacks'[t][i] < nextCallbackId'
                    /\ listens'[callbacks'[t][i]].to = t
                    /\ listens'[callbacks'[t][i]].after <= samples'
                    /\ listens'[callbacks'[t][i]].upto = MaxSamples
               /\ \A l \in Listener :
                    listens'[l].to = t /\ samples' < listens'[l].upto
                      => \E i \in 1..Len(callbacks'[t]) : callbacks'[t][i] = l
    <3>1. \A i \in 1..Len(callbacks[t]) : callbacks[t][i] \in Listener /\ callbacks[t][i] < n
      BY <1>0, ElementOfSeq DEF ListInv
    <3>2. \A i \in 1..Len(callbacks[t]) : callbacks[t][i] # n
      BY <1>n, <3>1
    <3>3. CASE t # s
      <4>1. callbacks'[t] = callbacks[t] /\ listens'[n].to # t
        BY <2>3, <2>5, <3>3
      <4>2. QED
        <5> HIDE DEF n
        <5>1. \A i \in 1..Len(callbacks[t]) : callbacks[t][i] < n + 1
          BY <1>n, <3>1 DEF n
        <5>2. \A i \in 1..Len(callbacks[t]) : listens'[callbacks[t][i]] = listens[callbacks[t][i]]
          BY <2>4, <3>1, <3>2
        <5>3. \A l \in Listener : listens'[l].to = t => listens'[l] = listens[l]
          BY <2>4, <4>1
        <5>4. QED
          <6>1. /\ \A i, j \in 1..Len(callbacks[t]) : i < j => callbacks[t][i] < callbacks[t][j]
                /\ \A i \in 1..Len(callbacks[t]) :
                     /\ listens[callbacks[t][i]].to = t
                     /\ listens[callbacks[t][i]].after <= samples
                     /\ listens[callbacks[t][i]].upto = MaxSamples
                /\ \A l \in Listener :
                     listens[l].to = t /\ samples < listens[l].upto
                       => \E i \in 1..Len(callbacks[t]) : callbacks[t][i] = l
            BY DEF ListInv
          <6>2. callbacks'[t] = callbacks[t] /\ nextCallbackId' = n + 1 /\ samples' = samples
            BY <2>2, <4>1
          <6>3. QED
            BY <5>1, <5>2, <5>3, <6>1, <6>2
    <3>4. CASE t = s
      <4>1. \A i \in 1..Len(r) : i \in 1..Len(q) \/ i = Len(q) + 1
        BY <2>1
      <4>2. \A i, j \in 1..Len(r) : i < j => r[i] < r[j]
        <5>1. ASSUME NEW i \in 1..Len(r), NEW j \in 1..Len(r), i < j PROVE r[i] < r[j]
          <6>1. i \in 1..Len(q) /\ r[i] = q[i]
            BY <2>1, <5>1
          <6>2. CASE j \in 1..Len(q)
            BY <2>1, <5>1, <6>1, <6>2 DEF ListInv
          <6>3. CASE j = Len(q) + 1
            BY <2>1, <3>1, <3>4, <6>1, <6>3
          <6>4. QED
            BY <4>1, <6>2, <6>3
        <5>2. QED
          BY <5>1
      <4>3. ASSUME NEW i \in 1..Len(r)
            PROVE  /\ r[i] < n + 1 /\ listens'[r[i]].to = s
                   /\ listens'[r[i]].after <= samples /\ listens'[r[i]].upto = MaxSamples
        <5>1. CASE i = Len(q) + 1
          BY <1>0, <2>1, <2>3, <5>1
        <5>2. CASE i \in 1..Len(q)
          <6>1. r[i] = q[i] /\ q[i] \in Listener /\ q[i] < n /\ listens'[q[i]] = listens[q[i]]
            BY <2>1, <2>4, <3>1, <3>2, <3>4, <5>2
          <6>2. QED
            BY <1>n, <5>2, <6>1 DEF ListInv
        <5>3. QED
          BY <4>1, <5>1, <5>2
      <4>4. ASSUME NEW l \in Listener, listens'[l].to = s, samples < listens'[l].upto
            PROVE  \E i \in 1..Len(r) : r[i] = l
        <5>1. CASE l = n
          BY <2>1, <5>1
        <5>2. CASE l # n
          <6>1. PICK i \in 1..Len(q) : q[i] = l
            BY <2>4, <4>4, <5>2 DEF ListInv
          <6>2. QED
            BY <2>1, <6>1
        <5>3. QED
          BY <5>1, <5>2
      <4>5. QED
        <5> HIDE DEF n, q
        <5>1. callbacks'[t] = r /\ nextCallbackId' = n + 1 /\ samples' = samples
          BY <2>2, <2>5, <3>4
        <5>2. QED
          BY <3>4, <4>2, <4>3, <4>4, <5>1
    <3>5. QED
      BY <3>3, <3>4
  <2>7. ASSUME NEW l \in Listener, nextCallbackId' <= l
        PROVE  listens'[l].to = "none" /\ listens'[l].upto = MaxSamples
    <3>1. l # n /\ n <= l
      BY <1>0, <2>2, <2>7 DEF Listener
    <3>2. QED
      BY <2>4, <3>1 DEF ListInv
  <2>8. QED
    BY <2>6, <2>7 DEF ListInv
<1>2. ASSUME NEW s \in Sensors, NEW l \in Listener, RemoveListener(s, l) PROVE ListInv'
  <2> DEFINE q == callbacks[s]
  <2>1. PICK x \in 1..Len(q) : q[x] = l /\ callbacks' = [callbacks EXCEPT ![s] = RemoveAt(q, x)]
    <3>1. DOMAIN q = 1..Len(q)
      BY <1>0
    <3>2. QED
      BY <1>2, <3>1 DEF RemoveListener
  <2> DEFINE r == RemoveAt(q, x)
  <2>2. q \in Seq(Listener) /\ Len(q) \in Nat
    BY <1>0
  <2>3. /\ r \in Seq(Listener) /\ Len(r) = Len(q) - 1
        /\ \A k \in 1..Len(r) :
             k \in 1..Len(q) /\ k + 1 \in 1..Len(q)
             /\ r[k] = IF k < x THEN q[k] ELSE q[k + 1]
        /\ \A k \in 1..Len(q) : k # x => \E j \in 1..Len(r) : r[j] = q[k]
    BY <2>2, Removed
  <2>4. callbacks'[s] = r /\ \A t \in Sensors : t # s => callbacks'[t] = callbacks[t]
    BY <1>0, <2>1
  <2>5. /\ samples' = samples /\ nextCallbackId' = nextCallbackId
        /\ listens'[l].to = listens[l].to /\ listens'[l].upto = samples
        /\ \A m \in Listener : m # l => listens'[m] = listens[m]
    BY <1>0, <1>2 DEF RemoveListener, dogVars
  <2>6. /\ \A i, j \in 1..Len(q) : i < j => q[i] < q[j]
        /\ l < nextCallbackId /\ listens[l].to = s
    BY <2>1 DEF ListInv
  <2> HIDE DEF r
  <2>7. ASSUME NEW t \in Sensors
        PROVE  /\ \A i, j \in 1..Len(callbacks'[t]) : i < j => callbacks'[t][i] < callbacks'[t][j]
               /\ \A i \in 1..Len(callbacks'[t]) :
                    /\ callbacks'[t][i] < nextCallbackId'
                    /\ listens'[callbacks'[t][i]].to = t
                    /\ listens'[callbacks'[t][i]].after <= samples'
                    /\ listens'[callbacks'[t][i]].upto = MaxSamples
               /\ \A m \in Listener :
                    listens'[m].to = t /\ samples' < listens'[m].upto
                      => \E i \in 1..Len(callbacks'[t]) : callbacks'[t][i] = m
    <3>1. \A i \in 1..Len(callbacks[t]) : callbacks[t][i] \in Listener
      BY <1>0, ElementOfSeq
    <3>2. CASE t # s
      <4>1. callbacks'[t] = callbacks[t] /\ listens'[l].to # t
        BY <2>4, <2>5, <2>6, <3>2
      <4>2. \A i \in 1..Len(callbacks[t]) : callbacks[t][i] # l
        BY <2>6, <3>2 DEF ListInv
      <4>3. QED
        <5>1. \A i \in 1..Len(callbacks[t]) :
                listens'[callbacks[t][i]] = listens[callbacks[t][i]]
          BY <2>5, <3>1, <4>2
        <5>2. \A m \in Listener : listens'[m].to = t => listens'[m] = listens[m]
          BY <2>5, <4>1
        <5>3. QED
          BY <2>5, <4>1, <5>1, <5>2 DEF ListInv
    <3>3. CASE t = s
      <4>1. ASSUME NEW k \in 1..Len(r)
            PROVE  r[k] \in Listener /\ r[k] # l /\ \E i \in 1..Len(q) : r[k] = q[i]
        <5>1. CASE k < x
          <6>1. r[k] = q[k] /\ k \in 1..Len(q)
            BY <2>3, <5>1
          <6>2. q[k] < q[x] /\ q[k] \in Listener /\ q[x] \in Listener
            BY <2>6, <3>1, <3>3, <5>1, <6>1
          <6>3. QED
            BY <2>1, <6>1, <6>2 DEF Listener
        <5>2. CASE ~(k < x)
          <6>1. r[k] = q[k + 1] /\ k + 1 \in 1..Len(q) /\ x < k + 1
            BY <2>3, <5>2
          <6>2. q[x] < q[k + 1] /\ q[k + 1] \in Listener /\ q[x] \in Listener
            BY <2>6, <3>1, <3>3, <6>1
          <6>3. QED
            BY <2>1, <6>1, <6>2 DEF Listener
        <5>3. QED
          BY <5>1, <5>2
      <4>2. ASSUME NEW i \in 1..Len(r), NEW j \in 1..Len(r), i < j PROVE r[i] < r[j]
        <5>1. /\ r[i] = IF i < x THEN q[i] ELSE q[i + 1]
              /\ r[j] = IF j < x THEN q[j] ELSE q[j + 1]
              /\ i \in 1..Len(q) /\ i + 1 \in 1..Len(q) /\ j \in 1..Len(q) /\ j + 1 \in 1..Len(q)
          BY <2>3
        <5>2. q[i] < q[j] /\ q[i] < q[j + 1] /\ q[i + 1] < q[j + 1]
          BY <2>6, <4>2, <5>1
        <5>3. QED
          BY <4>2, <5>1, <5>2
      <4>3. ASSUME NEW k \in 1..Len(r)
            PROVE  /\ r[k] < nextCallbackId /\ listens'[r[k]].to = s
                   /\ listens'[r[k]].after <= samples /\ listens'[r[k]].upto = MaxSamples
        <5>1. PICK i \in 1..Len(q) : r[k] = q[i]
          BY <4>1
        <5>2. /\ q[i] < nextCallbackId /\ listens[q[i]].to = s
              /\ listens[q[i]].after <= samples /\ listens[q[i]].upto = MaxSamples
          BY DEF ListInv
        <5>3. listens'[r[k]] = listens[r[k]]
          BY <2>5, <4>1
        <5>4. QED
          BY <5>1, <5>2, <5>3
      <4>4. ASSUME NEW m \in Listener, listens'[m].to = s, samples < listens'[m].upto
            PROVE  \E i \in 1..Len(r) : r[i] = m
        <5>1. m # l
          BY <1>n, <2>5, <4>4
        <5>2. PICK k \in 1..Len(q) : q[k] = m
          BY <2>5, <4>4, <5>1 DEF ListInv
        <5>3. QED
          BY <2>1, <2>3, <5>1, <5>2
      <4>5. QED
        BY <2>4, <2>5, <3>3, <4>2, <4>3, <4>4
    <3>4. QED
      BY <3>2, <3>3
  <2>8. ASSUME NEW m \in Listener, nextCallbackId' <= m
        PROVE  listens'[m].to = "none" /\ listens'[m].upto = MaxSamples
    <3>1. m # l
      BY <1>0, <2>5, <2>6, <2>8 DEF Listener
    <3>2. QED
      BY <2>5, <2>8, <3>1 DEF ListInv
  <2>9. QED
    BY <2>7, <2>8 DEF ListInv
<1>3. ASSUME NEW d \in Dispatchers, NEW present \in SUBSET Sensors, Store(d, present)
      PROVE  ListInv'
  <2>1. UNCHANGED <<callbacks, nextCallbackId, listens>> /\ samples' = samples + 1
    BY <1>3 DEF Store
  <2>2. \A l \in Listener : listens[l].after \in Nat /\ listens[l].upto \in Nat
    BY <1>0
  <2>3. \A s \in Sensors : \A i \in 1..Len(callbacks[s]) : callbacks[s][i] \in Listener
    BY <1>0, ElementOfSeq
  <2>4. samples \in Nat
    BY <1>0
  <2>5. \A l \in Listener : /\ listens[l].after <= samples => listens[l].after <= samples + 1
                            /\ samples + 1 < listens[l].upto => samples < listens[l].upto
    BY <2>2, <2>4
  <2>6. QED
    BY <2>1, <2>3, <2>5 DEF ListInv
<1>4. ASSUME UNCHANGED <<callbacks, nextCallbackId, listens, samples>> PROVE ListInv'
  BY <1>4 DEF ListInv
<1>5. ASSUME NEW d \in Dispatchers, Call(d) \/ Return(d) PROVE ListInv'
  BY <1>4, <1>5 DEF Call, Return, dogVars
<1>6. CASE UNCHANGED vars
  BY <1>4, <1>6 DEF vars, dogVars
<1>7. QED
  BY <1>1, <1>2, <1>3, <1>5, <1>6 DEF Next

-----------------------------------------------------------------------------
(* ServesThoseListed                                                       *)

\* The calls made so far: to listeners the sample is for, in order, none skipped,
\* and all of them once the dispatch has returned.
CallsInv ==
    \A n \in 1..samples :
        /\ \A l \in Listener : CalledWith(l, n) => l \in Expected(n)
        /\ \A i, j \in 1..Len(calls) : \A l, m \in Listener :
              i < j /\ calls[i] = <<l, n>> /\ calls[j] = <<m, n>> => Before(l, m)
        /\ \A l, m \in Expected(n) : Before(l, m) /\ CalledWith(m, n) => CalledWith(l, n)
        /\ n \notin thrown /\ (\A d \in Dispatchers : handling[d] # n)
              => \A l \in Expected(n) : CalledWith(l, n)

\* What dispatcher d still has to call, n its sample: listeners the sample is for,
\* in order and after those it has called, and all that are missing.
ToCall(d, l) == \E i \in 1..Len(toCall[d]) : toCall[d][i] = l

UnderWay(d, n) ==
    /\ n \notin thrown
    /\ \A e \in Dispatchers : e # d => handling[e] # n
    /\ \A l \in Listener : ToCall(d, l) => l \in Expected(n)
    /\ \A i, j \in 1..Len(toCall[d]) : \A l, m \in Listener :
         i < j /\ toCall[d][i] = l /\ toCall[d][j] = m => Before(l, m)
    /\ \A l \in Expected(n) : CalledWith(l, n) \/ ToCall(d, l)
    /\ \A l, m \in Listener : CalledWith(l, n) /\ ToCall(d, m) => Before(l, m)

DispatchInv ==
    \A d \in Dispatchers : \A n \in 1..samples : handling[d] = n => UnderWay(d, n)

\* Before is a strict order where it matters.
LEMMA BeforeAsymmetric ==
    ASSUME NEW l \in Listener, NEW m \in Listener, Before(l, m)
    PROVE  ~Before(m, l)
BY ListenerAssumption DEF Before, Listener

\* Nothing that happens after sample n was stored changes whom it is for, or in
\* which order they are called.
LEMMA Frame ==
    ASSUME ListenerType, ListInv, [Next]_vars, NEW n \in 1..samples
    PROVE  /\ Expected(n)' = Expected(n)
           /\ \A l, m \in Expected(n) : Before(l, m)' <=> Before(l, m)
<1> USE ListenerAssumption
<1>1. /\ samples \in Nat /\ samples <= MaxSamples /\ n \in Nat /\ n <= samples
      /\ listens \in [Listener -> [to : Sensors \cup {"none"}, after : 0..MaxSamples,
                                   upto : 0..MaxSamples]]
      /\ carries[n] \subseteq Sensors /\ "none" \notin Sensors
  BY DEF ListenerType, Sensors, Sample
<1>2. ASSUME NEW s \in Sensors, AddListener(s)
      PROVE  /\ carries' = carries /\ listens' \in [Listener -> [to : Sensors \cup {"none"},
                                         after : 0..MaxSamples, upto : 0..MaxSamples]]
             /\ \A l \in Listener :
                  \/ listens'[l] = listens[l]
                  \/ listens[l].to = "none" /\ listens'[l].after = samples
  <2>1. nextCallbackId \in Listener
    BY <1>2 DEF AddListener, ListenerType, Listener
  <2>2. /\ listens[nextCallbackId].to = "none"
        /\ listens' = [listens EXCEPT ![nextCallbackId].to = s,
                                      ![nextCallbackId].after = samples]
    BY <1>2, <2>1 DEF AddListener, ListInv, ListenerType
  <2>3. carries' = carries
    BY <1>2 DEF AddListener
  <2>4. samples \in 0..MaxSamples /\ s \in Sensors \cup {"none"}
    BY <1>1
  <2> DEFINE c == nextCallbackId
  <2>5. c \in Listener /\ listens[c].to = "none"
        /\ listens' = [listens EXCEPT ![c].to = s, ![c].after = samples]
    BY <2>1, <2>2
  <2> HIDE DEF c
  <2>6. \A l \in Listener : l # c => listens'[l] = listens[l]
    BY <1>1, <2>5
  <2>7. listens'[c].after = samples
    BY <1>1, <2>5
  <2>8. listens' \in [Listener -> [to : Sensors \cup {"none"}, after : 0..MaxSamples,
                                  upto : 0..MaxSamples]]
    BY <1>1, <2>4, <2>5
  <2>9. QED
    BY <2>3, <2>5, <2>6, <2>7, <2>8
<1>3. ASSUME NEW s \in Sensors, NEW k \in Listener, RemoveListener(s, k)
      PROVE  /\ carries' = carries /\ listens' \in [Listener -> [to : Sensors \cup {"none"},
                                         after : 0..MaxSamples, upto : 0..MaxSamples]]
             /\ \A l \in Listener :
                  \/ listens'[l] = listens[l]
                  \/ /\ listens'[l].to = listens[l].to /\ listens'[l].after = listens[l].after
                     /\ listens[l].upto = MaxSamples /\ listens'[l].upto = samples
  <2>1. listens[k].upto = MaxSamples
    <3>1. PICK i \in DOMAIN callbacks[s] : callbacks[s][i] = k
      BY <1>3 DEF RemoveListener
    <3>2. QED
      BY <3>1 DEF ListInv, ListenerType
  <2>2. carries' = carries /\ listens' = [listens EXCEPT ![k].upto = samples]
    BY <1>3 DEF RemoveListener
  <2>3. QED
    BY <1>1, <2>1, <2>2
<1>4. ASSUME listens' = listens, carries'[n] = carries[n]
      PROVE  /\ Expected(n)' = Expected(n)
             /\ \A l, m \in Expected(n) : Before(l, m)' <=> Before(l, m)
  BY <1>4 DEF Expected, Before
<1>5. ASSUME NEW d \in Dispatchers, NEW present \in SUBSET Sensors, Store(d, present)
      PROVE  listens' = listens /\ carries'[n] = carries[n]
  BY <1>1, <1>5 DEF Store, ListenerType, Sample
<1>6. ASSUME NEW d \in Dispatchers, Call(d) \/ Return(d)
      PROVE  listens' = listens /\ carries'[n] = carries[n]
  BY <1>6 DEF Call, Return
<1>7. ASSUME NEW s \in Sensors, AddListener(s)
      PROVE  /\ Expected(n)' = Expected(n)
             /\ \A l, m \in Expected(n) : Before(l, m)' <=> Before(l, m)
  <2>1. \A l \in Listener : (l \in Expected(n))' <=> l \in Expected(n)
    BY <1>1, <1>2, <1>7 DEF Expected
  <2>2. \A l \in Expected(n) : listens'[l] = listens[l]
    BY <1>1, <1>2, <1>7 DEF Expected
  <2>3. QED
    BY <2>1, <2>2 DEF Expected, Before
<1>8. ASSUME NEW s \in Sensors, NEW k \in Listener, RemoveListener(s, k)
      PROVE  /\ Expected(n)' = Expected(n)
             /\ \A l, m \in Expected(n) : Before(l, m)' <=> Before(l, m)
  <2>1. \A l \in Listener : (l \in Expected(n))' <=> l \in Expected(n)
    BY <1>1, <1>3, <1>8 DEF Expected
  <2>2. \A l \in Listener : listens'[l].to = listens[l].to
    BY <1>3, <1>8
  <2>3. QED
    BY <2>1, <2>2 DEF Expected, Before
<1>9. CASE UNCHANGED vars
  BY <1>4, <1>9 DEF vars
<1>10. QED
  BY <1>4, <1>5, <1>6, <1>7, <1>8, <1>9 DEF Next

LEMMA ExpectedListeners == \A n : Expected(n) \subseteq Listener
BY DEF Expected

\* What happens elsewhere leaves a dispatch as it is.
LEMMA StillUnderWay ==
    ASSUME ListenerType, ListInv, CallsInv, [Next]_vars,
           NEW d \in Dispatchers, NEW n \in 1..samples, UnderWay(d, n),
           toCall'[d] = toCall[d], n \notin thrown',
           \A e \in Dispatchers : e # d => handling'[e] # n,
           \A l \in Listener : CalledWith(l, n)' <=> CalledWith(l, n)
    PROVE  UnderWay(d, n)'
<1>1. /\ Expected(n)' = Expected(n) /\ Expected(n) \subseteq Listener
      /\ \A l, m \in Expected(n) : Before(l, m)' <=> Before(l, m)
  BY Frame, ExpectedListeners
<1>2. \A l : ToCall(d, l)' <=> ToCall(d, l)
  BY DEF ToCall
<1>3. \A i \in 1..Len(toCall[d]) : ToCall(d, toCall[d][i])
  BY DEF ToCall
<1>4. /\ \A l \in Listener : ToCall(d, l)' => (l \in Expected(n))'
      /\ \A l \in Expected(n)' : CalledWith(l, n)' \/ ToCall(d, l)'
  BY <1>1, <1>2 DEF UnderWay
<1>5. \A l, m \in Listener : CalledWith(l, n)' /\ ToCall(d, m)' => Before(l, m)'
  <2>1. ASSUME NEW l \in Listener, NEW m \in Listener, CalledWith(l, n), ToCall(d, m)
        PROVE  Before(l, m)'
    <3>1. l \in Expected(n) /\ m \in Expected(n) /\ Before(l, m)
      BY <2>1 DEF UnderWay, CallsInv
    <3>2. QED
      BY <1>1, <3>1
  <2>2. QED
    BY <1>2, <2>1
<1>6. ASSUME NEW i \in 1..Len(toCall[d]), NEW j \in 1..Len(toCall[d]), i < j,
             NEW l \in Listener, NEW m \in Listener, toCall[d][i] = l, toCall[d][j] = m
      PROVE  Before(l, m)'
  <2>1. l \in Expected(n) /\ m \in Expected(n) /\ Before(l, m)
    BY <1>3, <1>6 DEF UnderWay
  <2>2. QED
    BY <1>1, <2>1
<1>7. QED
  BY <1>4, <1>5, <1>6 DEF UnderWay

\* A step that calls nobody and starts no dispatch; one that has nobody left to
\* call may end.
LEMMA ServeQuiet ==
    ASSUME ListenerType, ListInv, CallsInv, DispatchInv, [Next]_vars,
           UNCHANGED <<samples, toCall, calls, thrown>>,
           \A d \in Dispatchers :
               handling'[d] = handling[d] \/ (handling'[d] = 0 /\ toCall[d] = <<>>)
    PROVE  CallsInv' /\ DispatchInv'
<1>1. ASSUME NEW n \in 1..samples
      PROVE  /\ Expected(n)' = Expected(n)
             /\ \A l, m \in Expected(n) : Before(l, m)' <=> Before(l, m)
  BY Frame
<1>2. \A l, n : CalledWith(l, n)' <=> CalledWith(l, n)
  BY DEF CalledWith
<1>4. ASSUME NEW n \in 1..samples, n \notin thrown, \A d \in Dispatchers : handling'[d] # n
      PROVE  \A l \in Expected(n) : CalledWith(l, n)
  <2>1. CASE \A d \in Dispatchers : handling[d] # n
    BY <1>4, <2>1 DEF CallsInv
  <2>2. CASE \E d \in Dispatchers : handling[d] = n
    <3>1. PICK d \in Dispatchers : handling[d] = n
      BY <2>2
    <3>2. toCall[d] = <<>> /\ UnderWay(d, n)
      BY <1>4, <3>1 DEF DispatchInv
    <3>3. \A l : ~ToCall(d, l)
      BY <3>2 DEF ToCall
    <3>4. QED
      BY <3>2, <3>3 DEF UnderWay
  <2>3. QED
    BY <2>1, <2>2
<1>5. ASSUME NEW n \in 1..samples
      PROVE  /\ \A l \in Listener : CalledWith(l, n)' => (l \in Expected(n))'
             /\ \A i, j \in 1..Len(calls') : \A l, m \in Listener :
                  i < j /\ calls'[i] = <<l, n>> /\ calls'[j] = <<m, n>> => Before(l, m)'
             /\ \A l, m \in Expected(n)' : Before(l, m)' /\ CalledWith(m, n)' => CalledWith(l, n)'
             /\ n \notin thrown' /\ (\A d \in Dispatchers : handling'[d] # n)
                  => \A l \in Expected(n)' : CalledWith(l, n)'
  <2>1. \A l, m \in Expected(n) : Before(l, m)' <=> Before(l, m)
    BY <1>1
  <2>2. \A i \in 1..Len(calls) : \A l : calls[i] = <<l, n>> => CalledWith(l, n)
    <3>1. DOMAIN calls = 1..Len(calls)
      BY DEF ListenerType
    <3>2. QED
      BY <3>1 DEF CalledWith
  <2>3. QED
    BY <1>1, <1>2, <1>4, <1>5, <2>1, <2>2 DEF CallsInv
<1>6. ASSUME NEW d \in Dispatchers, NEW n \in 1..samples, handling'[d] = n PROVE UnderWay(d, n)'
  <2>1. handling[d] = n /\ n # 0
    BY <1>6 DEF ListenerType
  <2>2. UnderWay(d, n)
    BY <1>6, <2>1 DEF DispatchInv
  <2>3. \A e \in Dispatchers : e # d => handling'[e] # n
    BY <2>1, <2>2 DEF UnderWay
  <2>4. QED
    BY <1>2, <2>2, <2>3, StillUnderWay DEF UnderWay
<1>7. samples' = samples
  OBVIOUS
<1>8. QED
  BY <1>5, <1>6, <1>7 DEF CallsInv, DispatchInv

\* A sample is stored and its dispatch begins.
LEMMA ServeStore ==
    ASSUME ListenerType, ListInv, CallsInv, DispatchInv,
           NEW d \in Dispatchers, NEW present \in SUBSET Sensors, Store(d, present)
    PROVE  CallsInv' /\ DispatchInv'
<1> SUFFICES ASSUME NEW new, new = samples + 1 PROVE CallsInv' /\ DispatchInv'
  OBVIOUS
<1> DEFINE c == Copy(present)
<1>1. /\ samples \in Nat /\ new \in Nat /\ new \in Sample /\ new <= MaxSamples /\ new \notin 1..samples
      /\ samples < new /\ 1..samples \subseteq Nat
      /\ \A n \in 1..new : n \in 1..samples \/ n = new
  BY ListenerAssumption DEF ListenerType, Store, Sample
<1>2. /\ samples' = new /\ handling[d] = 0
      /\ listens' = listens /\ calls' = calls /\ thrown' = thrown /\ callbacks' = callbacks
  BY DEF Store
<1>3. /\ handling'[d] = new /\ toCall'[d] = c
      /\ \A e \in Dispatchers : e # d => handling'[e] = handling[e] /\ toCall'[e] = toCall[e]
  BY DEF Store, ListenerType
<1>4. carries'[new] = present
  BY <1>1 DEF Store, ListenerType
<1>5. ASSUME NEW n \in 1..samples
      PROVE  /\ Expected(n)' = Expected(n)
             /\ \A l, m \in Expected(n) : Before(l, m)' <=> Before(l, m)
  <2>1. [Next]_vars
    BY DEF Next
  <2>2. QED
    BY <2>1, Frame
<1>6. \A l, n : CalledWith(l, n)' <=> CalledWith(l, n)
  BY <1>2 DEF CalledWith
<1>8. \A e \in Dispatchers : handling[e] # new /\ thrown \subseteq 1..samples
  BY <1>1 DEF ListenerType
<1>9. \A l : ~CalledWith(l, new)
  <2>1. ASSUME NEW l, NEW i \in DOMAIN calls, calls[i] = <<l, new>> PROVE FALSE
    <3>1. i \in 1..Len(calls) /\ calls[i][2] = new
      BY <2>1 DEF ListenerType
    <3>2. new <= samples
      BY <3>1 DEF ListenerType
    <3>3. QED
      BY <1>1, <3>2
  <2>2. QED
    BY <2>1 DEF CalledWith
<1> HIDE DEF c
<1>10. ASSUME NEW n \in 1..samples
       PROVE  /\ \A l \in Listener : CalledWith(l, n)' => (l \in Expected(n))'
              /\ \A i, j \in 1..Len(calls') : \A l, m \in Listener :
                   i < j /\ calls'[i] = <<l, n>> /\ calls'[j] = <<m, n>> => Before(l, m)'
              /\ \A l, m \in Expected(n)' : Before(l, m)' /\ CalledWith(m, n)' => CalledWith(l, n)'
              /\ n \notin thrown' /\ (\A e \in Dispatchers : handling'[e] # n)
                   => \A l \in Expected(n)' : CalledWith(l, n)'
  <2>1. \A l, m \in Expected(n) : Before(l, m)' <=> Before(l, m)
    BY <1>5
  <2>2. \A i \in 1..Len(calls) : \A l : calls[i] = <<l, n>> => CalledWith(l, n)
    <3>1. DOMAIN calls = 1..Len(calls)
      BY DEF ListenerType
    <3>2. QED
      BY <3>1 DEF CalledWith
  <2>3. (\A e \in Dispatchers : handling'[e] # n) => \A e \in Dispatchers : handling[e] # n
    BY <1>1, <1>2, <1>3, <1>10
  <2>4. /\ \A l \in Listener : CalledWith(l, n)' => (l \in Expected(n))'
        /\ \A i, j \in 1..Len(calls') : \A l, m \in Listener :
             i < j /\ calls'[i] = <<l, n>> /\ calls'[j] = <<m, n>> => Before(l, m)'
        /\ \A l, m \in Expected(n)' : Before(l, m)' /\ CalledWith(m, n)' => CalledWith(l, n)'
    BY <1>2, <1>5, <1>6, <2>1, <2>2 DEF CallsInv
  <2>5. ASSUME n \notin thrown', \A e \in Dispatchers : handling'[e] # n
        PROVE  \A l \in Expected(n)' : CalledWith(l, n)'
    BY <1>2, <1>5, <1>6, <2>3, <2>5 DEF CallsInv
  <2>6. QED
    BY <2>4, <2>5
<1>11. \A l, m \in Listener : /\ ~CalledWith(l, new)'
                              /\ \A i \in 1..Len(calls') : calls'[i] # <<l, new>>
  <2>1. \A l : \A i \in DOMAIN calls : calls[i] # <<l, new>>
    BY <1>9 DEF CalledWith
  <2>2. DOMAIN calls = 1..Len(calls)
    BY DEF ListenerType
  <2>3. QED
    BY <1>2, <1>6, <1>9, <2>1, <2>2
<1>12. CallsInv'
  <2>1. ASSUME NEW n \in 1..new, n = new
        PROVE  /\ \A l \in Listener : CalledWith(l, n)' => (l \in Expected(n))'
               /\ \A i, j \in 1..Len(calls') : \A l, m \in Listener :
                    i < j /\ calls'[i] = <<l, n>> /\ calls'[j] = <<m, n>> => Before(l, m)'
               /\ \A l, m \in Expected(n)' : Before(l, m)' /\ CalledWith(m, n)' => CalledWith(l, n)'
               /\ n \notin thrown' /\ (\A e \in Dispatchers : handling'[e] # n)
                    => \A l \in Expected(n)' : CalledWith(l, n)'
    BY <1>3, <1>6, <1>9, <1>11, <2>1
  <2>2. QED
    BY <1>1, <1>2, <1>10, <2>1 DEF CallsInv
<1>13. IsCopy(c, present)
  BY Copied DEF c, ListenerType
<1>14. \A l \in Listener : (l \in Expected(new))' <=>
         listens[l].to \in present /\ listens[l].after < new /\ new <= listens[l].upto
  BY <1>2, <1>4 DEF Expected
<1>15. \A l : ToCall(d, l)' <=> \E i \in 1..Len(c) : c[i] = l
  BY <1>3 DEF ToCall
<1>16. ASSUME NEW s \in present, NEW i \in 1..Len(callbacks[s]), NEW l, l = callbacks[s][i]
       PROVE  l \in Listener /\ listens[l].to = s /\ (l \in Expected(new))'
  <2>1. /\ l \in Listener /\ listens[l].to = s
        /\ listens[l].after <= samples /\ listens[l].upto = MaxSamples /\ listens[l].after \in Nat
    <3>1. callbacks[s] \in Seq(Listener) /\ l \in Listener
      BY <1>16, ElementOfSeq DEF ListenerType
    <3>2. s \in Sensors /\ listens[l].after \in Nat
      BY <3>1 DEF ListenerType
    <3>3. QED
      BY <1>16, <3>1, <3>2 DEF ListInv
  <2>2. listens[l].after < new
    BY <1>1, <2>1
  <2>3. QED
    BY <1>1, <1>14, <2>1, <2>2
<1>17. ASSUME NEW l \in Listener, (l \in Expected(new))' PROVE ToCall(d, l)'
  <2>1. /\ listens[l].to \in present /\ new <= listens[l].upto /\ listens[l].upto \in Nat
    BY <1>14, <1>17 DEF ListenerType
  <2>2. samples < listens[l].upto /\ listens[l].to \in Sensors
    BY <1>1, <2>1
  <2>3. PICK i \in 1..Len(callbacks[listens[l].to]) : callbacks[listens[l].to][i] = l
    BY <2>2 DEF ListInv
  <2>4. QED
    BY <1>13, <1>15, <2>1, <2>3 DEF IsCopy
<1>18. ASSUME NEW k \in 1..Len(c), NEW m \in 1..Len(c), k < m, NEW a, NEW b, a = c[k], b = c[m]
       PROVE  Before(a, b)'
  <2>1. CASE \E s \in present : \E i, j \in 1..Len(callbacks[s]) :
               i < j /\ c[k] = callbacks[s][i] /\ c[m] = callbacks[s][j]
    <3>1. PICK s \in present : \E i, j \in 1..Len(callbacks[s]) :
               i < j /\ c[k] = callbacks[s][i] /\ c[m] = callbacks[s][j]
      BY <2>1
    <3>2. PICK i \in 1..Len(callbacks[s]), j \in 1..Len(callbacks[s]) :
               i < j /\ c[k] = callbacks[s][i] /\ c[m] = callbacks[s][j]
      BY <3>1
    <3>3. a < b
      BY <1>18, <3>2 DEF ListInv
    <3>4. listens[a].to = s /\ listens[b].to = s
      BY <1>16, <1>18, <3>2
    <3>5. QED
      BY <1>2, <3>3, <3>4 DEF Before
  <2>2. CASE /\ {"imu", "tof"} \subseteq present
             /\ \E i \in 1..Len(callbacks["imu"]) : c[k] = callbacks["imu"][i]
             /\ \E j \in 1..Len(callbacks["tof"]) : c[m] = callbacks["tof"][j]
    <3>1. listens[a].to = "imu" /\ listens[b].to = "tof"
      BY <1>16, <1>18, <2>2
    <3>2. QED
      BY <1>2, <3>1 DEF Before
  <2>3. QED
    BY <1>13, <1>18, <2>1, <2>2 DEF IsCopy
<1>19. UnderWay(d, new)'
  <2>1. new \notin thrown' /\ \A e \in Dispatchers : e # d => handling'[e] # new
    BY <1>1, <1>2, <1>3, <1>8
  <2>2. \A l \in Listener : ToCall(d, l)' => (l \in Expected(new))'
    <3>1. ASSUME NEW l \in Listener, ToCall(d, l)' PROVE (l \in Expected(new))'
      <4>1. PICK k \in 1..Len(c) : c[k] = l
        BY <1>15, <3>1
      <4>2. PICK s \in present : \E i \in 1..Len(callbacks[s]) : c[k] = callbacks[s][i]
        BY <1>13 DEF IsCopy
      <4>3. QED
        BY <1>16, <4>1, <4>2
    <3>2. QED
      BY <3>1
  <2>3. \A i, j \in 1..Len(toCall'[d]) : \A l, m \in Listener :
          i < j /\ toCall'[d][i] = l /\ toCall'[d][j] = m => Before(l, m)'
    BY <1>3, <1>18
  <2>4. \A l \in Expected(new)' : ToCall(d, l)'
    BY <1>17, ExpectedListeners DEF Expected
  <2>5. \A l \in Listener : ~CalledWith(l, new)'
    BY <1>6, <1>9
  <2>6. QED
    BY <2>1, <2>2, <2>3, <2>4, <2>5 DEF UnderWay
<1>20. ASSUME NEW e \in Dispatchers, NEW n \in 1..samples, handling'[e] = n PROVE UnderWay(e, n)'
  <2>1. n # new /\ e # d /\ handling[e] = n /\ toCall'[e] = toCall[e]
    BY <1>1, <1>3, <1>20
  <2>2. UnderWay(e, n) /\ [Next]_vars
    BY <2>1 DEF DispatchInv, Next
  <2>3. n \notin thrown' /\ \A x \in Dispatchers : x # e => handling'[x] # n
    BY <1>2, <1>3, <2>1, <2>2 DEF UnderWay
  <2>4. QED
    BY <1>6, <2>1, <2>2, <2>3, StillUnderWay
<1>21. DispatchInv'
  <2>1. ASSUME NEW e \in Dispatchers, NEW n \in 1..new, handling'[e] = n PROVE UnderWay(e, n)'
    <3>1. CASE n \in 1..samples
      BY <1>20, <2>1, <3>1
    <3>2. CASE n = new
      <4>1. e = d
        BY <1>3, <1>8, <2>1, <3>2
      <4>2. QED
        BY <1>19, <3>2, <4>1
    <3>3. QED
      BY <1>1, <3>1, <3>2
  <2>2. QED
    BY <1>2, <2>1 DEF DispatchInv
<1>22. QED
  BY <1>12, <1>21

\* A callback is called, and its dispatch goes on or ends.
LEMMA ServeCall ==
    ASSUME ListenerType, ListInv, CallsInv, DispatchInv, NEW d \in Dispatchers, Call(d)
    PROVE  CallsInv' /\ DispatchInv'
<1> SUFFICES ASSUME NEW h, NEW n0, NEW q, NEW k,
                    h = Head(toCall[d]), n0 = handling[d], q = toCall[d], k = Len(calls)
             PROVE  CallsInv' /\ DispatchInv'
  OBVIOUS
<1>1. [Next]_vars
  BY DEF Next
<1>2. /\ n0 \in 1..samples /\ h \in Listener /\ k \in Nat /\ samples' = samples
      /\ calls' \in Seq(Listener \X Sample) /\ Len(calls') = k + 1
      /\ \A i \in 1..k : calls'[i] = calls[i]
      /\ calls'[k + 1] = <<h, n0>>
      /\ DOMAIN calls' = 1..k + 1 /\ DOMAIN calls = 1..k
  <2>1. /\ n0 \in Sample /\ n0 <= samples /\ h \in Listener
        /\ calls' \in Seq(Listener \X Sample) /\ Len(calls') = k + 1
        /\ \A i \in 1..k : calls'[i] = calls[i]
        /\ calls'[k + 1] = <<h, n0>>
    BY Called
  <2>2. samples' = samples /\ samples \in Nat
    BY DEF Call, dogVars, ListenerType
  <2>3. k \in Nat /\ DOMAIN calls = 1..k /\ calls \in Seq(Listener \X Sample)
    BY DEF ListenerType
  <2>4. DOMAIN calls' = 1..k + 1
    BY <2>1, LenProperties
  <2>5. n0 \in 1..samples
    BY <2>1, <2>2 DEF Sample
  <2>6. QED
    BY <2>1, <2>2, <2>3, <2>4, <2>5
<1>3. /\ q \in Seq(Listener) /\ Len(q) \in Nat /\ 1 \in 1..Len(q) /\ q[1] = h
      /\ Tail(q) \in Seq(Listener) /\ Len(Tail(q)) = Len(q) - 1
      /\ \A i \in 1..Len(Tail(q)) : Tail(q)[i] = q[i + 1]
  <2>1. q \in Seq(Listener) /\ q # <<>>
    BY DEF Call, ListenerType
  <2>2. QED
    BY <2>1
<1>4. UnderWay(d, n0)
  BY <1>2 DEF DispatchInv
<1>5. \/ /\ toCall' = [toCall EXCEPT ![d] = Tail(q)] /\ handling' = handling /\ thrown' = thrown
      \/ /\ toCall' = [toCall EXCEPT ![d] = <<>>] /\ handling' = [handling EXCEPT ![d] = 0]
         /\ thrown' = thrown \cup {n0}
  BY Zenon DEF Call
<1>6. /\ \A e \in Dispatchers : e # d => toCall'[e] = toCall[e] /\ handling'[e] = handling[e]
      /\ \A n : n \in thrown' => n \in thrown \/ n = n0
      /\ \/ toCall'[d] = Tail(q) /\ handling'[d] = n0 /\ thrown' = thrown
         \/ handling'[d] = 0 /\ n0 \in thrown'
  BY <1>5 DEF ListenerType
<1>7. ASSUME NEW l, NEW n
      PROVE  CalledWith(l, n)' <=> CalledWith(l, n) \/ (l = h /\ n = n0)
  <2>1. \A i \in 1..k + 1 : i \in 1..k \/ i = k + 1
    BY <1>2
  <2>2. k + 1 \in 1..k + 1 /\ 1..k \subseteq 1..k + 1
    BY <1>2
  <2>3. <<h, n0>> = <<l, n>> <=> (l = h /\ n = n0)
    OBVIOUS
  <2>4. QED
    BY <1>2, <2>1, <2>2, <2>3 DEF CalledWith
<1>8. ASSUME NEW n \in 1..samples
      PROVE  /\ Expected(n)' = Expected(n) /\ Expected(n) \subseteq Listener
             /\ \A l, m \in Expected(n) : Before(l, m)' <=> Before(l, m)
  BY <1>1, Frame, ExpectedListeners
<1>9. ToCall(d, h) /\ h \in Expected(n0)
  BY <1>2, <1>3, <1>4 DEF ToCall, UnderWay
<1>10. ASSUME NEW n \in 1..samples
       PROVE  \A l \in Listener : CalledWith(l, n)' => (l \in Expected(n))'
  BY <1>7, <1>8, <1>9 DEF CallsInv
<1>11. ASSUME NEW n \in 1..samples, NEW i \in 1..k + 1, NEW j \in 1..k + 1, i < j,
              NEW l \in Listener, NEW m \in Listener, calls'[i] = <<l, n>>, calls'[j] = <<m, n>>
       PROVE  Before(l, m)'
  <2>1. i \in 1..k /\ calls[i] = <<l, n>> /\ CalledWith(l, n)
    <3>1. i \in 1..k
      BY <1>2, <1>11
    <3>2. calls[i] = <<l, n>>
      BY <1>2, <1>11, <3>1
    <3>3. QED
      BY <1>2, <3>1, <3>2 DEF CalledWith
  <2>2. CASE j \in 1..k
    <3>1. calls[j] = <<m, n>> /\ CalledWith(m, n)
      BY <1>2, <1>11, <2>2 DEF CalledWith
    <3>2. l \in Expected(n) /\ m \in Expected(n) /\ Before(l, m)
      BY <1>11, <2>1, <2>2, <3>1 DEF CallsInv
    <3>3. QED
      BY <1>8, <3>2
  <2>3. CASE j = k + 1
    <3>1. m = h /\ n = n0
      BY <1>2, <1>11, <2>3
    <3>2. l \in Expected(n) /\ m \in Expected(n) /\ Before(l, m)
      BY <1>4, <1>9, <1>11, <2>1, <3>1 DEF CallsInv, UnderWay
    <3>3. QED
      BY <1>8, <3>2
  <2>4. QED
    BY <1>2, <2>2, <2>3
<1>12. ASSUME NEW n \in 1..samples, NEW l \in Expected(n), NEW m \in Expected(n),
              Before(l, m), CalledWith(m, n)'
       PROVE  CalledWith(l, n)'
  <2>1. l \in Listener /\ m \in Listener
    BY <1>8
  <2>2. CASE CalledWith(m, n)
    BY <1>7, <1>12, <2>2 DEF CallsInv
  <2>3. CASE m = h /\ n = n0
    <3>1. CASE CalledWith(l, n)
      BY <1>7, <3>1
    <3>2. CASE ToCall(d, l)
      <4>1. PICK i \in 1..Len(q) : q[i] = l
        BY <3>2 DEF ToCall
      <4>2. i = 1 \/ Before(h, l)
        <5>1. \A x, y \in 1..Len(q) : \A a, b \in Listener :
                x < y /\ q[x] = a /\ q[y] = b => Before(a, b)
          BY <1>4 DEF UnderWay
        <5>2. i = 1 \/ 1 < i
          BY <1>3
        <5>3. QED
          BY <1>2, <1>3, <2>1, <4>1, <5>1, <5>2
      <4>3. QED
        BY <1>2, <1>3, <1>12, <2>1, <2>3, <4>1, <4>2, BeforeAsymmetric
    <3>3. QED
      BY <1>4, <1>12, <2>3, <3>1, <3>2 DEF UnderWay
  <2>4. QED
    BY <1>7, <1>12, <2>2, <2>3
<1>13. ASSUME NEW n \in 1..samples, n \notin thrown', \A e \in Dispatchers : handling'[e] # n
       PROVE  \A l \in Expected(n) : CalledWith(l, n)'
  <2>1. n # n0 /\ n \notin thrown
    BY <1>5, <1>6, <1>13
  <2>2. \A e \in Dispatchers : handling[e] # n
    BY <1>6, <1>13, <2>1
  <2>3. QED
    BY <1>7, <2>1, <2>2 DEF CallsInv
<1>14. CallsInv'
  <2>1. \A n \in 1..samples :
          /\ \A l, m \in Expected(n)' : Before(l, m)' /\ CalledWith(m, n)' => CalledWith(l, n)'
          /\ n \notin thrown' /\ (\A e \in Dispatchers : handling'[e] # n)
               => \A l \in Expected(n)' : CalledWith(l, n)'
    BY <1>8, <1>12, <1>13
  <2>2. \A n \in 1..samples :
          \A i, j \in 1..Len(calls') : \A l, m \in Listener :
             i < j /\ calls'[i] = <<l, n>> /\ calls'[j] = <<m, n>> => Before(l, m)'
    <3>1. 1..Len(calls') = 1..k + 1
      BY <1>2
    <3>2. QED
      BY <1>11, <3>1
  <2>3. samples' = samples
    BY <1>2
  <2>4. QED
    BY <1>10, <2>1, <2>2, <2>3 DEF CallsInv
<1>15. ASSUME NEW e \in Dispatchers, e # d, NEW n \in 1..samples, handling'[e] = n
       PROVE  UnderWay(e, n)'
  <2>1. UnderWay(e, n) /\ toCall'[e] = toCall[e]
    BY <1>6, <1>15 DEF DispatchInv
  <2>2. n # n0 /\ n \notin thrown
    BY <1>15, <2>1 DEF UnderWay
  <2>3. n \notin thrown' /\ \A x \in Dispatchers : x # e => handling'[x] # n
    <3>1. n \notin thrown'
      BY <1>6, <2>2
    <3>2. \A x \in Dispatchers : x # e => handling[x] # n
      BY <2>1 DEF UnderWay
    <3>3. n # 0
      BY <1>2
    <3>4. handling'[d] # n
      BY <1>6, <2>2, <3>3
    <3>5. QED
      BY <1>6, <3>1, <3>2, <3>4
  <2>4. \A l \in Listener : CalledWith(l, n)' <=> CalledWith(l, n)
    BY <1>7, <2>2
  <2>5. QED
    BY <1>1, <2>1, <2>3, <2>4, StillUnderWay
<1>16. ASSUME toCall'[d] = Tail(q), handling'[d] = n0, thrown' = thrown
       PROVE  UnderWay(d, n0)'
  <2>1. n0 \notin thrown' /\ \A e \in Dispatchers : e # d => handling'[e] # n0
    BY <1>4, <1>6, <1>16 DEF UnderWay
  <2>2. \A i \in 1..Len(Tail(q)) :
          i + 1 \in 1..Len(q) /\ i + 1 # 1 /\ 1 < i + 1 /\ Tail(q)[i] = q[i + 1]
    BY <1>3
  <2>3. \A l : ToCall(d, l)' => ToCall(d, l)
    BY <1>16, <2>2 DEF ToCall
  <2>4. \A l : ToCall(d, l) => l = h \/ ToCall(d, l)'
    <3>1. ASSUME NEW i \in 1..Len(q), i # 1 PROVE i - 1 \in 1..Len(Tail(q)) /\ Tail(q)[i - 1] = q[i]
      <4>1. i - 1 \in 1..Len(Tail(q)) /\ (i - 1) + 1 = i
        BY <1>3, <3>1
      <4>2. QED
        BY <1>3, <4>1
    <3>2. QED
      BY <1>3, <1>16, <3>1 DEF ToCall
  <2>5. \A x, y \in 1..Len(q) : \A a, b \in Listener :
          x < y /\ q[x] = a /\ q[y] = b => Before(a, b)
    BY <1>4 DEF UnderWay
  <2>6. \A l \in Listener : ToCall(d, l)' => Before(h, l)
    <3>1. ASSUME NEW l \in Listener, NEW i \in 1..Len(Tail(q)), Tail(q)[i] = l PROVE Before(h, l)
      <4>1. i + 1 \in 1..Len(q) /\ q[i + 1] = l /\ 1 < i + 1
        BY <2>2, <3>1
      <4>2. 1 \in 1..Len(q) /\ q[1] = h /\ h \in Listener
        BY <1>2, <1>3
      <4>3. QED
        BY <2>5, <4>1, <4>2
    <3>2. QED
      BY <1>16, <3>1 DEF ToCall
  <2>7. \A l \in Listener : ToCall(d, l) => l \in Expected(n0)
    BY <1>4 DEF UnderWay
  <2>8. ASSUME NEW x \in 1..Len(Tail(q)), NEW y \in 1..Len(Tail(q)), x < y,
               NEW l \in Listener, NEW m \in Listener, Tail(q)[x] = l, Tail(q)[y] = m
        PROVE  Before(l, m)'
    <3>1. x + 1 < y + 1
      BY <2>8
    <3>2. Before(l, m) /\ ToCall(d, l) /\ ToCall(d, m)
      BY <2>2, <2>5, <2>8, <3>1 DEF ToCall
    <3>3. QED
      BY <1>2, <1>8, <2>7, <3>2
  <2>9. ASSUME NEW l \in Listener, NEW m \in Listener, CalledWith(l, n0)', ToCall(d, m)'
        PROVE  Before(l, m)'
    <3>1. l \in Expected(n0) /\ m \in Expected(n0)
      BY <1>2, <1>8, <1>10, <2>3, <2>7, <2>9
    <3>2. CalledWith(l, n0) \/ l = h
      BY <1>7, <2>9
    <3>3. Before(l, m)
      BY <1>4, <2>3, <2>6, <2>9, <3>2 DEF UnderWay
    <3>4. QED
      BY <1>2, <1>8, <3>1, <3>3
  <2>10. \A l \in Listener : ToCall(d, l)' => (l \in Expected(n0))'
    BY <1>2, <1>8, <2>3, <2>7
  <2>11. \A l \in Expected(n0)' : CalledWith(l, n0)' \/ ToCall(d, l)'
    <3>1. ASSUME NEW l \in Expected(n0) PROVE CalledWith(l, n0)' \/ ToCall(d, l)'
      BY <1>4, <1>7, <2>4 DEF UnderWay
    <3>2. QED
      BY <1>2, <1>8, <3>1
  <2>12. QED
    BY <1>16, <2>1, <2>8, <2>9, <2>10, <2>11 DEF UnderWay
<1>17. DispatchInv'
  <2>1. ASSUME NEW e \in Dispatchers, NEW n \in 1..samples, handling'[e] = n PROVE UnderWay(e, n)'
    <3>1. CASE e # d
      BY <1>15, <2>1, <3>1
    <3>2. CASE e = d
      <4>1. n # 0
        BY <1>2
      <4>2. n = n0 /\ toCall'[d] = Tail(q) /\ thrown' = thrown
        BY <1>6, <2>1, <3>2, <4>1
      <4>3. QED
        BY <1>16, <2>1, <3>2, <4>2
    <3>3. QED
      BY <3>1, <3>2
  <2>2. samples' = samples
    BY <1>2
  <2>3. QED
    BY <2>1, <2>2 DEF DispatchInv
<1>18. QED
  BY <1>14, <1>17

LEMMA ServeStep ==
    ASSUME ListenerType, ListInv, CallsInv, DispatchInv, [Next]_vars
    PROVE  CallsInv' /\ DispatchInv'
<1>1. ASSUME NEW s \in Sensors, AddListener(s) \/ \E l \in Listener : RemoveListener(s, l)
      PROVE  CallsInv' /\ DispatchInv'
  BY <1>1, ServeQuiet DEF AddListener, RemoveListener
<1>2. ASSUME NEW d \in Dispatchers, NEW present \in SUBSET Sensors, Store(d, present)
      PROVE  CallsInv' /\ DispatchInv'
  BY <1>2, ServeStore
<1>3. ASSUME NEW d \in Dispatchers, Call(d) PROVE CallsInv' /\ DispatchInv'
  BY <1>3, ServeCall
<1>4. ASSUME NEW d \in Dispatchers, Return(d) PROVE CallsInv' /\ DispatchInv'
  <2>1. UNCHANGED <<samples, toCall, calls, thrown>> /\ toCall[d] = <<>>
    BY <1>4 DEF Return, dogVars
  <2>2. \A e \in Dispatchers :
           handling'[e] = handling[e] \/ (handling'[e] = 0 /\ toCall[e] = <<>>)
    BY <1>4, <2>1 DEF Return, ListenerType
  <2>3. QED
    BY <2>1, <2>2, ServeQuiet
<1>5. CASE UNCHANGED vars
  BY <1>5, ServeQuiet DEF vars, dogVars
<1>6. QED
  BY <1>1, <1>2, <1>3, <1>4, <1>5 DEF Next

ListenersInv == ListenerType /\ ListInv /\ CallsInv /\ DispatchInv

LEMMA ListenersInvariant == Spec => []ListenersInv
<1>1. Init => ListenersInv
  <2> SUFFICES ASSUME Init PROVE ListenersInv
    OBVIOUS
  <2> USE ListenerAssumption
  <2>1. <<>> \in Seq(Listener) /\ <<>> \in Seq(Listener \X Sample) /\ Len(<<>>) = 0
    BY EmptySeq
  <2>2. ListenerType
    BY <2>1 DEF Init, ListenerType, Sensors
  <2>3. ListInv
    BY <2>1 DEF Init, ListInv, Listener, Sensors
  <2>4. CallsInv /\ DispatchInv
    BY DEF Init, CallsInv, DispatchInv
  <2>5. QED
    BY <2>2, <2>3, <2>4 DEF ListenersInv
<1>2. ListenersInv /\ [Next]_vars => ListenersInv'
  BY ListenerTypeStep, ListStep, ServeStep DEF ListenersInv
<1>3. QED
  BY <1>1, <1>2, PTL DEF Spec

\* Whatever other threads add and remove while it is dispatched, a sample goes
\* once, in order, to exactly the listeners listed when it was stored: the
\* callbacks are copied in the critical section of dispatch_parsed_notify.
THEOREM ServesListed == Spec => []ServesThoseListed
<1>1. ListenersInv => ServesThoseListed
  <2> SUFFICES ASSUME ListenersInv, NEW n \in 1..samples
               PROVE  /\ \A i \in DOMAIN calls : calls[i][2] = n => calls[i][1] \in Expected(n)
                      /\ \A i, j \in DOMAIN calls :
                            i < j /\ calls[i][2] = n /\ calls[j][2] = n
                              => Before(calls[i][1], calls[j][1])
                      /\ \A l, m \in Expected(n) :
                            Before(l, m) /\ CalledWith(m, n) => CalledWith(l, n)
                      /\ n \notin thrown /\ (\A d \in Dispatchers : handling[d] # n)
                            => \A l \in Expected(n) : CalledWith(l, n)
    BY DEF ServesThoseListed
  <2>1. /\ DOMAIN calls = 1..Len(calls)
        /\ \A i \in 1..Len(calls) : calls[i] \in Listener \X Sample
    BY ElementOfSeq DEF ListenersInv, ListenerType
  <2>2. ASSUME NEW i \in DOMAIN calls, calls[i][2] = n
        PROVE  calls[i] = <<calls[i][1], n>> /\ calls[i][1] \in Listener
    BY <2>1, <2>2
  <2>3. \A i \in DOMAIN calls : calls[i][2] = n => calls[i][1] \in Expected(n)
    BY <2>2 DEF ListenersInv, CallsInv, CalledWith
  <2>4. ASSUME NEW i \in DOMAIN calls, NEW j \in DOMAIN calls,
               i < j, calls[i][2] = n, calls[j][2] = n
        PROVE  Before(calls[i][1], calls[j][1])
    BY <2>1, <2>2, <2>4 DEF ListenersInv, CallsInv
  <2>5. QED
    BY <2>3, <2>4 DEF ListenersInv, CallsInv
<1>2. QED
  BY <1>1, ListenersInvariant, PTL

-----------------------------------------------------------------------------
(* SeenInOrder                                                             *)

\* The cache holds, of each sensor, a sample that carries it.
LastInv == \A s \in Sensors : last[s] # 0 => s \in carries[last[s]]

\* With one dispatch at a time, the one under way has the newest sample, and each
\* call of a listener has a newer sample than its earlier ones.
OneAtATime ==
    ~together =>
        /\ \A d, e \in Dispatchers : handling[d] # 0 /\ handling[e] # 0 => d = e
        /\ \A d \in Dispatchers : handling[d] = 0 \/ handling[d] = samples
        /\ \A i, j \in 1..Len(calls) :
             i < j /\ calls[i][1] = calls[j][1] => calls[i][2] < calls[j][2]

LEMMA OrderStep ==
    ASSUME ListenersInv, LastInv, OneAtATime, [Next]_vars
    PROVE  LastInv' /\ OneAtATime'
<1> USE ListenerAssumption
<1>1. ASSUME UNCHANGED <<last, carries, together, calls, samples>>,
             \A d \in Dispatchers : handling'[d] = handling[d] \/ handling'[d] = 0
      PROVE  LastInv' /\ OneAtATime'
  <2>1. LastInv'
    BY <1>1 DEF LastInv
  <2>2. OneAtATime'
    BY <1>1 DEF OneAtATime
  <2>3. QED
    BY <2>1, <2>2
<1>2. ASSUME NEW d \in Dispatchers, NEW present \in SUBSET Sensors, Store(d, present)
      PROVE  LastInv' /\ OneAtATime'
  <2>1. samples \in Nat /\ samples + 1 \in Sample /\ 0..samples \subseteq Nat
    BY <1>2 DEF ListenersInv, ListenerType, Store, Sample
  <2>2. /\ \A s \in Sensors : last'[s] = IF s \in present THEN samples + 1 ELSE last[s]
        /\ carries'[samples + 1] = present
        /\ \A n \in Sample : n # samples + 1 => carries'[n] = carries[n]
    BY <1>2, <2>1 DEF Store, ListenersInv, ListenerType
  <2>3. \A s \in Sensors : last[s] \in 0..samples
    BY DEF ListenersInv, ListenerType
  <2>4. \A s \in Sensors : last[s] # 0 => last[s] \in Sample /\ last[s] # samples + 1
    BY <2>1, <2>3 DEF Sample
  <2>5. LastInv'
    BY <2>2, <2>4 DEF LastInv
  <2>6. ASSUME ~together'
        PROVE  /\ ~together /\ \A e \in Dispatchers : handling[e] = 0
               /\ handling'[d] = samples' /\ calls' = calls
               /\ \A e \in Dispatchers : e # d => handling'[e] = 0
    BY <1>2, <2>6 DEF Store, ListenersInv, ListenerType
  <2>7. OneAtATime'
    BY <2>6 DEF OneAtATime
  <2>8. QED
    BY <2>5, <2>7
<1>3. ASSUME NEW d \in Dispatchers, Call(d) PROVE LastInv' /\ OneAtATime'
  <2>1. /\ Len(calls) \in Nat /\ Len(calls') = Len(calls) + 1
        /\ \A i \in 1..Len(calls) : calls'[i] = calls[i]
        /\ calls'[Len(calls) + 1] = <<Head(toCall[d]), handling[d]>>
        /\ Head(toCall[d]) \in Listener /\ handling[d] \in 1..samples
    <3>1. ListenerType
      BY DEF ListenersInv
    <3>2. handling[d] \in Sample /\ handling[d] <= samples /\ Len(calls) \in Nat /\ samples \in Nat
      BY <1>3, <3>1, Called DEF ListenerType
    <3>3. handling[d] \in 1..samples
      BY <3>2 DEF Sample
    <3>4. QED
      BY <1>3, <3>1, <3>2, <3>3, Called
  <2>2. UNCHANGED <<last, carries, together, samples>>
    BY <1>3 DEF Call, dogVars
  <2>3. \A e \in Dispatchers : handling'[e] = handling[e] \/ handling'[e] = 0
    BY <1>3 DEF Call, ListenersInv, ListenerType
  <2>4. UnderWay(d, handling[d]) /\ ToCall(d, Head(toCall[d]))
    <3>1. toCall[d] \in Seq(Listener) /\ toCall[d] # <<>>
      BY <1>3 DEF Call, ListenersInv, ListenerType
    <3>2. 1 \in 1..Len(toCall[d]) /\ toCall[d][1] = Head(toCall[d])
      BY <3>1
    <3>3. QED
      BY <2>1, <3>2 DEF ToCall, ListenersInv, DispatchInv
  <2>5. ASSUME NEW i \in 1..Len(calls), calls[i][1] = Head(toCall[d]), ~together
        PROVE  calls[i][2] < handling[d]
    <3>1. calls[i] \in Listener \X Sample /\ calls[i][2] <= samples /\ DOMAIN calls = 1..Len(calls)
      BY ElementOfSeq DEF ListenersInv, ListenerType
    <3>2. handling[d] = samples
      BY <2>1, <2>5 DEF OneAtATime
    <3>3. calls[i][2] # handling[d]
      <4>1. SUFFICES ASSUME calls[i][2] = handling[d] PROVE FALSE
        OBVIOUS
      <4>2. calls[i] = <<Head(toCall[d]), handling[d]>>
        BY <2>5, <3>1, <4>1
      <4>3. CalledWith(Head(toCall[d]), handling[d])
        BY <3>1, <4>2 DEF CalledWith
      <4>4. Before(Head(toCall[d]), Head(toCall[d]))
        BY <2>1, <2>4, <4>3 DEF UnderWay
      <4>5. QED
        BY <2>1, <4>4, BeforeAsymmetric
    <3>4. calls[i][2] \in Nat /\ samples \in Nat
      BY <3>1 DEF Sample, ListenersInv, ListenerType
    <3>5. QED
      BY <3>1, <3>2, <3>3, <3>4
  <2>6. ASSUME ~together, NEW i \in 1..Len(calls'), NEW j \in 1..Len(calls'),
               i < j, calls'[i][1] = calls'[j][1]
        PROVE  calls'[i][2] < calls'[j][2]
    <3>1. i \in 1..Len(calls) /\ calls'[i] = calls[i]
      BY <2>1, <2>6
    <3>2. CASE j \in 1..Len(calls)
      BY <2>1, <2>6, <3>1, <3>2 DEF OneAtATime
    <3>3. CASE j = Len(calls) + 1
      <4>1. calls'[j][1] = Head(toCall[d]) /\ calls'[j][2] = handling[d]
        BY <2>1, <3>3
      <4>2. QED
        BY <2>5, <2>6, <3>1, <4>1
    <3>4. QED
      BY <2>1, <3>2, <3>3
  <2>7. LastInv'
    BY <2>2 DEF LastInv
  <2>8. OneAtATime'
    BY <2>2, <2>3, <2>6 DEF OneAtATime
  <2>9. QED
    BY <2>7, <2>8
<1>4. ASSUME NEW d \in Dispatchers, Return(d) PROVE LastInv' /\ OneAtATime'
  <2>1. UNCHANGED <<last, carries, together, calls, samples>>
    BY <1>4 DEF Return, dogVars
  <2>2. \A e \in Dispatchers : handling'[e] = handling[e] \/ handling'[e] = 0
    BY <1>4 DEF Return, ListenersInv, ListenerType
  <2>3. QED
    BY <1>1, <2>1, <2>2
<1>5. ASSUME NEW s \in Sensors, AddListener(s) \/ \E l \in Listener : RemoveListener(s, l)
      PROVE  LastInv' /\ OneAtATime'
  BY <1>1, <1>5 DEF AddListener, RemoveListener
<1>6. CASE UNCHANGED vars
  BY <1>1, <1>6 DEF vars, dogVars
<1>7. QED
  BY <1>2, <1>3, <1>4, <1>5, <1>6 DEF Next

LEMMA OrderInvariant == Spec => [](ListenersInv /\ LastInv /\ OneAtATime)
<1>1. Init => LastInv /\ OneAtATime
  <2>1. Init => LastInv
    BY DEF Init, LastInv
  <2>2. Init => OneAtATime
    BY EmptySeq DEF Init, OneAtATime
  <2>3. QED
    BY <2>1, <2>2
<1>2. ListenersInv /\ LastInv /\ OneAtATime /\ [Next]_vars => LastInv' /\ OneAtATime'
  BY OrderStep
<1>3. QED
  BY <1>1, <1>2, ListenersInvariant, PTL DEF Spec

\* As long as samples are dispatched one at a time, no listener sees an older
\* sample after a newer one, and with all dispatches over each has been called
\* with the sample the cache holds of its sensor.
THEOREM SeesInOrder == Spec => []SeenInOrder
<1>1. ListenersInv /\ LastInv /\ OneAtATime => SeenInOrder
  <2> SUFFICES ASSUME ListenersInv, LastInv, OneAtATime, ~together
               PROVE  /\ \A i, j \in DOMAIN calls :
                            i < j /\ calls[i][1] = calls[j][1] => calls[i][2] < calls[j][2]
                      /\ \A s \in Sensors : \A l \in ToSet(callbacks[s]) :
                            last[s] > listens[l].after /\ last[s] \notin thrown
                                /\ (\A d \in Dispatchers : handling[d] = 0)
                              => CalledWith(l, last[s])
    BY DEF SeenInOrder
  <2>1. DOMAIN calls = 1..Len(calls)
    BY DEF ListenersInv, ListenerType
  <2>2. ASSUME NEW s \in Sensors, NEW l \in ToSet(callbacks[s]), last[s] > listens[l].after,
               last[s] \notin thrown, \A d \in Dispatchers : handling[d] = 0
        PROVE  CalledWith(l, last[s])
    <3>1. PICK i \in 1..Len(callbacks[s]) : callbacks[s][i] = l
      <4>1. DOMAIN callbacks[s] = 1..Len(callbacks[s])
        BY DEF ListenersInv, ListenerType
      <4>2. QED
        BY <2>2, <4>1 DEF ToSet
    <3>2. l \in Listener
      BY <3>1, ElementOfSeq DEF ListenersInv, ListenerType
    <3>3. listens[l].to = s /\ listens[l].upto = MaxSamples /\ listens[l].after \in Nat
      BY <3>1, <3>2 DEF ListenersInv, ListInv, ListenerType
    <3>4. /\ last[s] \in 0..samples /\ samples \in 0..MaxSamples
      BY DEF ListenersInv, ListenerType
    <3>5. last[s] \in 1..samples /\ last[s] <= MaxSamples /\ last[s] # 0
      BY <2>2, <3>3, <3>4, ListenerAssumption
    <3>6. l \in Expected(last[s])
      BY <2>2, <3>2, <3>3, <3>5 DEF Expected, LastInv
    <3>7. \A d \in Dispatchers : handling[d] # last[s]
      BY <2>2, <3>5
    <3>8. QED
      BY <2>2, <3>5, <3>6, <3>7 DEF ListenersInv, CallsInv
  <2>3. QED
    BY <2>1, <2>2 DEF OneAtATime
<1>2. QED
  BY <1>1, OrderInvariant, PTL

-----------------------------------------------------------------------------
(* PcmStream: helpers on sets and sequences of numbers                     *)

LEMMA HasLeast ==
    ASSUME NEW T \in SUBSET Nat, T # {}
    PROVE  \E x \in T : \A y \in T : x <= y
<1> DEFINE R == OpToRel(<, Nat)
<1>1. IsWellFoundedOn(R, Nat) /\ T \subseteq Nat
  BY NatLessThanWellFounded
<1>2. PICK x \in T : \A y \in T : ~(<<y, x>> \in R)
  <2> HIDE DEF R
  <2>1. QED
    BY <1>1, WFMin, Zenon
<1>3. \A y \in T : ~(y < x)
  BY <1>2 DEF OpToRel
<1>4. QED
  BY <1>3

LEMMA SetAppend ==
    ASSUME NEW S, NEW q \in Seq(S), NEW e \in S
    PROVE  ToSet(Append(q, e)) = ToSet(q) \cup {e}
<1>1. /\ Append(q, e) \in Seq(S) /\ Len(q) \in Nat /\ Len(Append(q, e)) = Len(q) + 1
      /\ \A i \in 1..Len(q) : Append(q, e)[i] = q[i]
      /\ Append(q, e)[Len(q) + 1] = e
      /\ DOMAIN Append(q, e) = 1..Len(q) + 1 /\ DOMAIN q = 1..Len(q)
  OBVIOUS
<1>2. \A i \in 1..Len(q) + 1 : i \in 1..Len(q) \/ i = Len(q) + 1
  BY <1>1
<1>3. 1..Len(q) \subseteq 1..Len(q) + 1 /\ Len(q) + 1 \in 1..Len(q) + 1
  BY <1>1
<1> DEFINE r == Append(q, e)
           n == Len(q) + 1
<1> HIDE DEF r, n
<1>4. {r[i] : i \in 1..n} = {q[i] : i \in 1..Len(q)} \cup {e}
  BY <1>1, <1>2, <1>3 DEF r, n
<1>5. QED
  BY <1>1, <1>4 DEF ToSet, r, n

LEMMA SetTail ==
    ASSUME NEW S, NEW q \in Seq(S), q # <<>>
    PROVE  ToSet(q) = {Head(q)} \cup ToSet(Tail(q))
<1> DEFINE t == Tail(q)
           n == Len(q)
<1>1. /\ n \in Nat /\ t \in Seq(S) /\ Len(t) = n - 1 /\ 1 \in 1..n /\ q[1] = Head(q)
      /\ \A i \in 1..Len(t) : t[i] = q[i + 1]
      /\ DOMAIN t = 1..n - 1 /\ DOMAIN q = 1..n
  OBVIOUS
<1> HIDE DEF t, n
<1>2. \A i \in 1..n : i = 1 \/ (i - 1 \in 1..n - 1 /\ q[i] = t[i - 1])
  <2>1. \A i \in 1..n : i = 1 \/ (i - 1 \in 1..n - 1 /\ (i - 1) + 1 = i)
    BY <1>1
  <2>2. QED
    BY <1>1, <2>1
<1>3. \A i \in 1..n - 1 : i + 1 \in 1..n /\ t[i] = q[i + 1]
  BY <1>1
<1>4. ToSet(q) \subseteq {Head(q)} \cup ToSet(t)
  <2>1. ToSet(q) = {q[i] : i \in 1..n} /\ ToSet(t) = {t[i] : i \in 1..n - 1}
    BY <1>1 DEF ToSet
  <2>2. QED
    BY <1>1, <1>2, <2>1
<1>5. {Head(q)} \cup ToSet(t) \subseteq ToSet(q)
  <2>1. Head(q) \in ToSet(q)
    BY <1>1 DEF ToSet
  <2>2. ToSet(q) = {q[i] : i \in 1..n} /\ ToSet(t) = {t[i] : i \in 1..n - 1}
    BY <1>1 DEF ToSet
  <2>3. ToSet(t) \subseteq ToSet(q)
    BY <1>3, <2>2
  <2>4. QED
    BY <2>1, <2>3
<1>6. QED
  BY <1>4, <1>5 DEF t

LEMMA NumberAppended ==
    ASSUME NEW q \in Seq(Nat), NEW e \in Nat
    PROVE  ToSet(Append(q, e)) = ToSet(q) \cup {e}
BY SetAppend

Rising(q) == \A i, j \in 1..Len(q) : i < j => q[i] < q[j]

\* A larger number goes to the end; the head is smaller than the rest.
LEMMA RisingAppend ==
    ASSUME NEW q \in Seq(Nat), NEW e \in Nat, Rising(q), \A i \in 1..Len(q) : q[i] < e
    PROVE  Rising(Append(q, e))
<1>1. /\ Len(q) \in Nat /\ Len(Append(q, e)) = Len(q) + 1
      /\ \A i \in 1..Len(q) : Append(q, e)[i] = q[i]
      /\ Append(q, e)[Len(q) + 1] = e
  OBVIOUS
<1> SUFFICES ASSUME NEW i \in 1..Len(q) + 1, NEW j \in 1..Len(q) + 1, i < j
             PROVE  Append(q, e)[i] < Append(q, e)[j]
  BY <1>1 DEF Rising
<1>2. i \in 1..Len(q) /\ (j \in 1..Len(q) \/ j = Len(q) + 1)
  BY <1>1
<1>3. CASE j \in 1..Len(q)
  BY <1>1, <1>2, <1>3 DEF Rising
<1>4. CASE j = Len(q) + 1
  BY <1>1, <1>2, <1>4
<1>5. QED
  BY <1>2, <1>3, <1>4

LEMMA RisingTail ==
    ASSUME NEW q \in Seq(Nat), Rising(q), q # <<>>
    PROVE  Rising(Tail(q)) /\ \A i \in 1..Len(Tail(q)) : Head(q) < Tail(q)[i]
<1>1. /\ Len(q) \in Nat /\ Len(Tail(q)) = Len(q) - 1 /\ 1 \in 1..Len(q) /\ q[1] = Head(q)
      /\ \A i \in 1..Len(Tail(q)) : Tail(q)[i] = q[i + 1]
  OBVIOUS
<1>2. \A i \in 1..Len(Tail(q)) : i + 1 \in 1..Len(q) /\ 1 < i + 1
  BY <1>1
<1>3. \A i, j \in 1..Len(Tail(q)) : i < j => i + 1 < j + 1
  BY <1>1
<1>4. QED
  BY <1>1, <1>2, <1>3 DEF Rising

-----------------------------------------------------------------------------
(* PcmStream: TypeOK                                                       *)

MainType ==
    /\ main \in {"wait", "open", "start", "run", "loop", "stop_input", "reset_input",
                 "stop_output", "join", "stop_host", "unwind", "end"}
    /\ robot \in BOOLEAN /\ hostUp \in BOOLEAN

OutType ==
    /\ received \in Nat
    /\ stopping \in BOOLEAN /\ missed \in BOOLEAN
    /\ queue \in Seq(Nat) /\ Len(queue) <= QueueLimit + 1
    /\ worker \in {"cv", "dozing", "asleep", "woken", "fill", "ended"}
    /\ data \in Nat /\ buffers \in [Playback -> Nat]
    /\ device \in Seq(Playback) /\ played \in Seq(Nat) /\ gone \subseteq Nat

InType ==
    /\ running \in BOOLEAN /\ recording \in BOOLEAN /\ adding \in BOOLEAN
    /\ callback \in Capture \cup {NoHeader}
    /\ capturing \subseteq Capture /\ idle \subseteq Capture
    /\ early \subseteq Capture /\ strays \subseteq Capture

\* A worker that found no free header still has the chunk it came for.
QueueInv == worker \in {"dozing", "asleep", "woken"} => queue # <<>> \/ stopping

LEMMA MainTypeStep ==
    ASSUME MainType, [PcmNext]_pcmVars
    PROVE  MainType'
<1> USE DEF MainType, Goto
<1>1. CASE MainStep
  BY <1>1 DEF MainStep, WaitRobot, OpenInput, StartInput, SetRunning, LeaveLoop, StopInput,
              StopOutput, JoinOutput, StopHost
<1>2. CASE WorkerStep \/ DriverStep \/ Write \/ Done \/ \E h \in Capture : Recorded(h)
  BY <1>2 DEF WorkerStep, Wake, Sleep, Rewake, Fill, DriverStep, TestRunning, AddBuffer, Write,
              Done, Recorded
<1>3. CASE RobotComesOrGoes
  BY <1>3 DEF RobotComesOrGoes
<1>4. CASE UNCHANGED pcmVars
  BY <1>4 DEF pcmVars
<1>5. QED
  BY <1>1, <1>2, <1>3, <1>4 DEF PcmNext

LEMMA InTypeStep ==
    ASSUME InType, adding => callback # NoHeader, [PcmNext]_pcmVars
    PROVE  InType'
<1> USE DEF InType, inVars
<1>1. CASE WaitRobot \/ SetRunning \/ LeaveLoop \/ StopOutput \/ JoinOutput \/ StopHost
  BY <1>1 DEF WaitRobot, SetRunning, LeaveLoop, StopOutput, JoinOutput, StopHost
<1>2. CASE OpenInput
  BY <1>2 DEF OpenInput
<1>3. CASE StartInput
  BY <1>3 DEF StartInput
<1>4. CASE StopInput
  BY <1>4 DEF StopInput
<1>5. CASE WorkerStep \/ Write \/ Done \/ RobotComesOrGoes
  BY <1>5 DEF WorkerStep, Wake, Sleep, Rewake, Fill, Write, Done, RobotComesOrGoes
<1>6. CASE TestRunning
  BY <1>6 DEF TestRunning
<1>7. CASE AddBuffer
  BY <1>7 DEF AddBuffer
<1>8. ASSUME NEW h \in Capture, Recorded(h) PROVE InType'
  BY <1>8 DEF Recorded
<1>9. CASE UNCHANGED pcmVars
  BY <1>9 DEF pcmVars
<1>10. QED
  BY <1>1, <1>2, <1>3, <1>4, <1>5, <1>6, <1>7, <1>8, <1>9 DEF PcmNext, MainStep, DriverStep

\* The first of the free headers, whenever one is free.
LEMMA FirstFree ==
    ASSUME Free # {}
    PROVE  FreeHeader # {} /\ \A h \in FreeHeader : h \in Playback /\ h \notin ToSet(device)
<1>1. Free \in SUBSET Nat
  BY PcmAssumption DEF Free
<1>2. PICK h \in Free : \A g \in Free : h <= g
  BY <1>1, HasLeast
<1>3. QED
  BY <1>2 DEF FreeHeader, Free

\* What TakeOrWait does to the queue.
LEMMA Taken ==
    ASSUME OutType, TakeOrWait, stopping \/ queue # <<>>
    PROVE  \/ /\ stopping /\ worker' = "ended" /\ queue' = queue /\ data' = data
           \/ /\ worker' = "fill" /\ Free # {} /\ queue # <<>> /\ queue \in Seq(Nat)
              /\ data' = Head(queue) /\ queue' = Tail(queue)
              /\ data' \in Nat /\ queue' \in Seq(Nat) /\ Len(queue') = Len(queue) - 1
           \/ /\ worker' = "dozing" /\ queue # <<>> /\ queue' = queue /\ data' = data
<1>1. queue \in Seq(Nat)
  BY DEF OutType
<1>2. CASE stopping /\ worker' = "ended" /\ UNCHANGED <<queue, data>>
  BY <1>2
<1>3. CASE ~stopping /\ Free # {} /\ data' = Head(queue) /\ queue' = Tail(queue) /\ worker' = "fill"
  <2>1. queue # <<>>
    BY <1>3
  <2>2. /\ Head(queue) \in Nat /\ Tail(queue) \in Seq(Nat) /\ Len(Tail(queue)) = Len(queue) - 1
    BY <1>1, <2>1
  <2>3. QED
    BY <1>1, <1>3, <2>1, <2>2
<1>4. CASE ~stopping /\ Free = {} /\ worker' = "dozing" /\ UNCHANGED <<queue, data>>
  BY <1>4
<1>5. QED
  BY <1>2, <1>3, <1>4 DEF TakeOrWait

LEMMA OutTypeStep ==
    ASSUME OutType, QueueInv, [PcmNext]_pcmVars
    PROVE  OutType' /\ QueueInv'
<1> USE PcmAssumption DEF outVars
<1>1. ASSUME UNCHANGED <<received, outVars>> PROVE OutType' /\ QueueInv'
  BY <1>1 DEF OutType, QueueInv
<1>2. CASE WaitRobot \/ OpenInput \/ StartInput \/ SetRunning \/ LeaveLoop \/ StopInput \/ StopHost
  BY <1>1, <1>2 DEF WaitRobot, OpenInput, StartInput, SetRunning, LeaveLoop, StopInput, StopHost
<1>3. CASE RobotComesOrGoes \/ DriverStep \/ (\E h \in Capture : Recorded(h)) \/ UNCHANGED pcmVars
  BY <1>1, <1>3 DEF RobotComesOrGoes, DriverStep, TestRunning, AddBuffer, Recorded, pcmVars
<1>4. CASE StopOutput
  BY <1>4 DEF StopOutput, OutType, QueueInv
<1>5. CASE JoinOutput
  <2>1. <<>> \in Seq(Playback)
    BY EmptySeq
  <2>2. QED
    BY <1>5, <2>1 DEF JoinOutput, OutType, QueueInv
<1>6. CASE Sleep
  BY <1>6 DEF Sleep, OutType, QueueInv
<1>7. CASE Wake \/ Rewake
  <2>1. /\ (stopping \/ queue # <<>>) /\ TakeOrWait
        /\ UNCHANGED <<received, stopping, buffers, device, played, gone, missed>>
    BY <1>7 DEF Wake, Rewake, QueueInv
  <2>2. QED
    BY <2>1, Taken DEF OutType, QueueInv
<1>8. CASE Fill
  <2>1. worker' = "cv" /\ UNCHANGED <<received, stopping, queue, data, missed>>
    BY <1>8 DEF Fill
  <2>2. /\ device \in Seq(Playback) /\ played \in Seq(Nat) /\ gone \subseteq Nat
        /\ buffers \in [Playback -> Nat] /\ data \in Nat
    BY DEF OutType
  <2>3. /\ device' \in Seq(Playback) /\ played' \in Seq(Nat) /\ gone' \subseteq Nat
        /\ buffers' \in [Playback -> Nat]
    <3>1. CASE FreeHeader = {}
      BY <1>8, <2>2, <3>1 DEF Fill
    <3>2. CASE FreeHeader # {}
      <4>1. PICK h \in FreeHeader :
              /\ buffers' = [buffers EXCEPT ![h] = data]
              /\ \/ /\ device' = Append(device, h)
                    /\ played' = Append(played, data)
                    /\ UNCHANGED gone
                 \/ /\ gone' = gone \cup {data}
                    /\ UNCHANGED <<device, played>>
        BY <1>8, <3>2, Zenon DEF Fill
      <4>2. h \in Playback
        BY DEF FreeHeader, Free
      <4>3. Append(device, h) \in Seq(Playback) /\ Append(played, data) \in Seq(Nat)
        BY <2>2, <4>2
      <4>4. QED
        BY <2>2, <4>1, <4>2, <4>3
    <3>3. QED
      BY <3>1, <3>2
  <2>4. QED
    BY <2>1, <2>3 DEF OutType, QueueInv
<1>9. CASE Done
  BY <1>9 DEF Done, OutType, QueueInv
<1>10. CASE Write
  <2>1. /\ received' = received + 1
        /\ UNCHANGED <<stopping, worker, data, buffers, device, played, missed>>
    BY <1>10 DEF Write
  <2>2. queue \in Seq(Nat) /\ received + 1 \in Nat /\ gone \subseteq Nat
        /\ Len(queue) \in Nat /\ Len(queue) <= QueueLimit + 1
    BY DEF OutType
  <2>3. CASE stopping
    BY <1>10, <2>1, <2>2, <2>3 DEF Write, OutType, QueueInv
  <2>4. CASE ~stopping /\ Len(queue) > QueueLimit
    <3>1. queue # <<>>
      BY <2>2, <2>4
    <3>2. /\ Tail(queue) \in Seq(Nat) /\ Head(queue) \in Nat /\ Len(Tail(queue)) = Len(queue) - 1
      BY <2>2, <3>1
    <3>3. queue' = Append(Tail(queue), received + 1) /\ gone' = gone \cup {Head(queue)}
      BY <1>10, <2>4 DEF Write
    <3>4. queue' \in Seq(Nat) /\ Len(queue') = Len(queue) /\ queue' # <<>>
      BY <2>2, <3>2, <3>3
    <3>5. QED
      BY <2>1, <2>2, <3>2, <3>3, <3>4 DEF OutType, QueueInv
  <2>5. CASE ~stopping /\ ~(Len(queue) > QueueLimit)
    <3>1. queue' = Append(queue, received + 1) /\ gone' = gone
      BY <1>10, <2>5 DEF Write
    <3>2. queue' \in Seq(Nat) /\ Len(queue') = Len(queue) + 1 /\ queue' # <<>>
      BY <2>2, <3>1
    <3>3. Len(queue) + 1 <= QueueLimit + 1
      BY <2>2, <2>5
    <3>4. QED
      BY <2>1, <2>2, <3>1, <3>2, <3>3 DEF OutType, QueueInv
  <2>6. QED
    BY <2>3, <2>4, <2>5
<1>11. QED
  BY <1>2, <1>3, <1>4, <1>5, <1>6, <1>7, <1>8, <1>9, <1>10 DEF PcmNext, MainStep, WorkerStep

-----------------------------------------------------------------------------
(* PcmStream: CaptureGoesRound                                             *)

\* By main's place: who holds the capture headers.  start sets running_, stop
\* clears it before it resets the device, so a header that comes late is a stray.
CaptureInv ==
    /\ running <=> main \in {"loop", "stop_input"}
    /\ adding => callback # NoHeader
    /\ main \in {"wait", "open"} => capturing = {}
    /\ main \in {"wait", "open", "start"} => callback = NoHeader /\ ~recording
    /\ main = "start" => idle = {}
    /\ main \in {"run", "loop", "stop_input"} => idle \subseteq early
    /\ main \in {"stop_output", "join", "stop_host", "unwind", "end"} => capturing \subseteq strays

LEMMA CaptureStep ==
    ASSUME MainType, InType, CaptureInv, [PcmNext]_pcmVars
    PROVE  CaptureInv'
<1> USE PcmAssumption DEF inVars, Goto
<1>1. CASE WaitRobot \/ LeaveLoop \/ StopOutput \/ JoinOutput \/ StopHost
  BY <1>1 DEF WaitRobot, LeaveLoop, StopOutput, JoinOutput, StopHost, CaptureInv
<1>2. CASE OpenInput
  BY <1>2 DEF OpenInput, CaptureInv
<1>3. CASE StartInput
  BY <1>3 DEF StartInput, CaptureInv
<1>4. CASE SetRunning
  BY <1>4 DEF SetRunning, CaptureInv
<1>5. CASE StopInput
  BY <1>5 DEF StopInput, CaptureInv
<1>6. CASE WorkerStep \/ Write \/ Done \/ RobotComesOrGoes \/ UNCHANGED pcmVars
  BY <1>6 DEF WorkerStep, Wake, Sleep, Rewake, Fill, Write, Done, RobotComesOrGoes, pcmVars,
              CaptureInv
<1>7. CASE TestRunning
  BY <1>7 DEF TestRunning, CaptureInv
<1>8. CASE AddBuffer
  BY <1>8 DEF AddBuffer, CaptureInv
<1>9. ASSUME NEW h \in Capture, Recorded(h) PROVE CaptureInv'
  BY <1>9 DEF Recorded, CaptureInv
<1>10. QED
  BY <1>1, <1>2, <1>3, <1>4, <1>5, <1>6, <1>7, <1>8, <1>9 DEF PcmNext, MainStep, DriverStep

-----------------------------------------------------------------------------
(* PcmStream: PlayedInOrder                                                *)

\* Every chunk is in one place, and the places are ordered: what was played is
\* older than what the worker holds, and that is older than what is queued.
\* The worker takes a chunk only when a header is free.
ChunkInv ==
    /\ Rising(queue) /\ Rising(played)
    /\ \A p \in ToSet(played), n \in ToSet(queue) : p < n
    /\ worker = "fill" =>
         /\ Free # {}
         /\ \A p \in ToSet(played) : p < data
         /\ \A n \in ToSet(queue) : data < n
    /\ 1..received = ToSet(queue) \cup ToSet(played) \cup gone
                     \cup {n \in {data} : worker = "fill"}

\* The device holds the buffers of the chunks that were played last.
DeviceInv ==
    /\ Len(device) <= Len(played)
    /\ \A i \in 1..Len(device) : buffers[device[i]] = played[Len(played) - Len(device) + i]

LEMMA Elements ==
    ASSUME NEW S, NEW q \in Seq(S)
    PROVE  ToSet(q) \subseteq S /\ \A i \in 1..Len(q) : q[i] \in ToSet(q)
BY ElementOfSeq DEF ToSet

\* A chunk arrives.
LEMMA ChunkWrite ==
    ASSUME OutType, ChunkInv, Write
    PROVE  ChunkInv'
<1> USE PcmAssumption
<1> DEFINE new == received + 1
<1>1. /\ received' = new /\ UNCHANGED <<stopping, worker, data, buffers, device, played>>
      /\ Free' = Free
  BY DEF Write, Free
<1>2. /\ received \in Nat /\ new \in Nat /\ queue \in Seq(Nat) /\ played \in Seq(Nat)
      /\ gone \subseteq Nat /\ data \in Nat
  BY DEF OutType
<1>3. 1..new = 1..received \cup {new} /\ \A n \in 1..received : n < new
  BY <1>2
<1>4. ToSet(queue) \subseteq 1..received /\ ToSet(played) \subseteq 1..received
      /\ (worker = "fill" => data \in 1..received)
  BY DEF ChunkInv
<1>5. \A i \in 1..Len(queue) : queue[i] < new
  BY <1>2, <1>3, <1>4, Elements
<1> HIDE DEF new
<1>6. CASE stopping
  <2>1. queue' = queue /\ gone' = gone \cup {new}
    BY <1>6 DEF Write, new
  <2>2. QED
    BY <1>1, <1>3, <2>1 DEF ChunkInv
<1>7. CASE ~stopping /\ Len(queue) > QueueLimit
  <2> DEFINE h == Head(queue)
             t == Tail(queue)
  <2>1. queue' = Append(t, new) /\ gone' = gone \cup {h} /\ queue # <<>>
    BY <1>2, <1>7 DEF Write, new
  <2>2. t \in Seq(Nat) /\ ToSet(queue) = {h} \cup ToSet(t) /\ Rising(t)
    BY <1>2, <2>1, SetTail, RisingTail DEF ChunkInv
  <2>3. \A i \in 1..Len(t) : t[i] < new
    BY <1>3, <1>4, <2>2, Elements
  <2> HIDE DEF h, t
  <2>4. ToSet(queue') = ToSet(t) \cup {new} /\ Rising(queue')
    <3>1. ToSet(Append(t, new)) = ToSet(t) \cup {new}
      BY <1>2, <2>2, NumberAppended
    <3>2. Rising(Append(t, new))
      BY <1>2, <2>2, <2>3, RisingAppend
    <3>3. QED
      BY <2>1, <3>1, <3>2
  <2>5. 1..new = ToSet(queue') \cup ToSet(played) \cup gone'
                 \cup {n \in {data} : worker = "fill"}
    BY <1>3, <2>1, <2>2, <2>4 DEF ChunkInv
  <2>6. \A p \in ToSet(played), n \in ToSet(queue') : p < n
    BY <1>3, <1>4, <2>2, <2>4 DEF ChunkInv
  <2>7. worker = "fill" => \A n \in ToSet(queue') : data < n
    BY <1>3, <1>4, <2>2, <2>4 DEF ChunkInv
  <2>8. QED
    BY <1>1, <2>4, <2>5, <2>6, <2>7 DEF ChunkInv
<1>8. CASE ~stopping /\ ~(Len(queue) > QueueLimit)
  <2>1. queue' = Append(queue, new) /\ gone' = gone
    BY <1>8 DEF Write, new
  <2>2. ToSet(queue') = ToSet(queue) \cup {new} /\ Rising(queue')
    BY <1>2, <1>5, <2>1, SetAppend, RisingAppend DEF ChunkInv
  <2>3. 1..new = ToSet(queue') \cup ToSet(played) \cup gone'
                 \cup {n \in {data} : worker = "fill"}
    BY <1>3, <2>1, <2>2 DEF ChunkInv
  <2>4. \A p \in ToSet(played), n \in ToSet(queue') : p < n
    BY <1>3, <1>4, <2>2 DEF ChunkInv
  <2>5. worker = "fill" => \A n \in ToSet(queue') : data < n
    BY <1>3, <1>4, <2>2 DEF ChunkInv
  <2>6. QED
    BY <1>1, <2>2, <2>3, <2>4, <2>5 DEF ChunkInv
<1>9. QED
  BY <1>6, <1>7, <1>8

\* The worker takes the oldest chunk of the queue.
LEMMA ChunkTake ==
    ASSUME OutType, ChunkInv, TakeOrWait, stopping \/ queue # <<>>, worker # "fill",
           UNCHANGED <<received, device, played, gone>>
    PROVE  ChunkInv'
<1>1. CASE worker' # "fill" /\ queue' = queue
  BY <1>1 DEF ChunkInv
<1>2. CASE /\ worker' = "fill" /\ Free # {} /\ queue # <<>> /\ queue \in Seq(Nat)
           /\ data' = Head(queue) /\ queue' = Tail(queue)
  <2>1. /\ ToSet(queue) = {data'} \cup ToSet(queue') /\ Rising(queue')
        /\ \A i \in 1..Len(queue') : data' < queue'[i]
    BY <1>2, SetTail, RisingTail DEF ChunkInv
  <2>2. \A n \in ToSet(queue') : data' < n
    <3>1. queue' \in Seq(Nat)
      BY <1>2
    <3>2. QED
      BY <2>1, <3>1 DEF ToSet
  <2>3. 1..received' = ToSet(queue') \cup ToSet(played') \cup gone'
                       \cup {n \in {data'} : worker' = "fill"}
    BY <1>2, <2>1 DEF ChunkInv
  <2>4. Free' = Free
    BY DEF Free
  <2>5. QED
    BY <1>2, <2>1, <2>2, <2>3, <2>4 DEF ChunkInv
<1>3. QED
  BY <1>1, <1>2, Taken

\* The chunk goes to the device, or is refused.
LEMMA ChunkFill ==
    ASSUME OutType, ChunkInv, DeviceInv, Fill
    PROVE  ChunkInv' /\ DeviceInv'
<1>1. /\ worker = "fill" /\ worker' = "cv" /\ UNCHANGED <<received, queue, data>>
  BY DEF Fill
<1>2. /\ device \in Seq(Playback) /\ played \in Seq(Nat) /\ data \in Nat /\ queue \in Seq(Nat)
      /\ buffers \in [Playback -> Nat] /\ Len(device) \in Nat /\ Len(played) \in Nat
  BY DEF OutType
<1>3. FreeHeader # {}
  BY <1>1, FirstFree DEF ChunkInv
<1>4. PICK h \in FreeHeader :
        /\ buffers' = [buffers EXCEPT ![h] = data]
        /\ \/ /\ device' = Append(device, h)
              /\ played' = Append(played, data)
              /\ UNCHANGED gone
           \/ /\ gone' = gone \cup {data}
              /\ UNCHANGED <<device, played>>
  BY <1>3, Zenon DEF Fill
<1>5. h \in Playback /\ h \notin ToSet(device)
  BY <1>1, FirstFree DEF ChunkInv
<1>6. /\ buffers'[h] = data
      /\ \A i \in 1..Len(device) : device[i] \in Playback /\ buffers'[device[i]] = buffers[device[i]]
  <2>1. \A i \in 1..Len(device) : device[i] \in Playback /\ device[i] # h
    BY <1>2, <1>5, Elements
  <2>2. QED
    BY <1>2, <1>4, <1>5, <2>1
<1>7. CASE gone' = gone \cup {data} /\ UNCHANGED <<device, played>>
  <2>1. ChunkInv'
    BY <1>1, <1>7 DEF ChunkInv
  <2>2. DeviceInv'
    BY <1>6, <1>7 DEF DeviceInv
  <2>3. QED
    BY <2>1, <2>2
<1>8. CASE device' = Append(device, h) /\ played' = Append(played, data) /\ UNCHANGED gone
  <2>1. /\ Len(device') = Len(device) + 1 /\ Len(played') = Len(played) + 1
        /\ \A i \in 1..Len(device) : device'[i] = device[i]
        /\ \A i \in 1..Len(played) : played'[i] = played[i]
        /\ device'[Len(device) + 1] = h /\ played'[Len(played) + 1] = data
    <3>1. /\ Len(device') = Len(device) + 1 /\ device'[Len(device) + 1] = h
          /\ \A i \in 1..Len(device) : device'[i] = device[i]
      BY <1>2, <1>5, <1>8
    <3>2. /\ Len(played') = Len(played) + 1 /\ played'[Len(played) + 1] = data
          /\ \A i \in 1..Len(played) : played'[i] = played[i]
      BY <1>2, <1>8
    <3>3. QED
      BY <3>1, <3>2
  <2>2. ToSet(played') = ToSet(played) \cup {data}
    <3>1. ToSet(Append(played, data)) = ToSet(played) \cup {data}
      BY <1>2, NumberAppended
    <3>2. QED
      BY <1>8, <3>1
  <2>3. \A i \in 1..Len(played) : played[i] < data
    BY <1>1, <1>2, Elements DEF ChunkInv
  <2>4. Rising(played')
    BY <1>2, <1>8, <2>3, RisingAppend DEF ChunkInv
  <2>5. ChunkInv'
    BY <1>1, <1>8, <2>2, <2>4 DEF ChunkInv
  <2>6. ASSUME NEW i \in 1..Len(device')
        PROVE  buffers'[device'[i]] = played'[Len(played') - Len(device') + i]
    <3>1. Len(played') - Len(device') + i = Len(played) - Len(device) + i
      BY <1>2, <2>1
    <3>2. CASE i \in 1..Len(device)
      <4>1. Len(played) - Len(device) + i \in 1..Len(played)
        BY <1>2, <3>2 DEF DeviceInv
      <4>2. buffers'[device'[i]] = played[Len(played) - Len(device) + i]
        BY <1>6, <2>1, <3>2 DEF DeviceInv
      <4>3. QED
        BY <2>1, <3>1, <4>1, <4>2
    <3>3. CASE i = Len(device) + 1
      <4>1. Len(played) - Len(device) + i = Len(played) + 1
        BY <1>2, <3>3
      <4>2. QED
        BY <1>6, <2>1, <3>1, <3>3, <4>1
    <3>4. QED
      BY <1>2, <2>1, <3>2, <3>3
  <2>7. DeviceInv'
    BY <1>2, <2>1, <2>6 DEF DeviceInv
  <2>8. QED
    BY <2>5, <2>7
<1>9. QED
  BY <1>4, <1>7, <1>8

\* The oldest buffer has been played.
LEMMA ChunkDone ==
    ASSUME OutType, ChunkInv, DeviceInv, Done
    PROVE  ChunkInv' /\ DeviceInv'
<1> DEFINE t == Tail(device)
<1>1. /\ device # <<>> /\ device' = t /\ UNCHANGED <<received, queue, data, buffers, played, gone>>
      /\ worker' = "fill" <=> worker = "fill"
  BY DEF Done
<1>2. device \in Seq(Playback) /\ Len(device) \in Nat /\ Len(played) \in Nat
  BY DEF OutType
<1>3. /\ Len(t) = Len(device) - 1 /\ ToSet(device) = {Head(device)} \cup ToSet(t)
      /\ \A i \in 1..Len(t) : t[i] = device[i + 1]
  BY <1>1, <1>2, SetTail
<1> HIDE DEF t
<1>4. ChunkInv'
  <2>1. Free # {} => Free' # {}
    BY <1>1, <1>3 DEF Free
  <2>2. QED
    BY <1>1, <2>1 DEF ChunkInv
<1>5. ASSUME NEW i \in 1..Len(t) PROVE buffers[t[i]] = played[Len(played) - Len(t) + i]
  <2>1. /\ i + 1 \in 1..Len(device) /\ t[i] = device[i + 1]
        /\ Len(played) - Len(device) + (i + 1) = Len(played) - Len(t) + i
    BY <1>2, <1>3
  <2>2. QED
    BY <2>1 DEF DeviceInv
<1>6. Len(t) <= Len(played)
  BY <1>2, <1>3 DEF DeviceInv
<1>7. DeviceInv'
  BY <1>1, <1>5, <1>6 DEF DeviceInv
<1>8. QED
  BY <1>4, <1>7

LEMMA ChunkStep ==
    ASSUME OutType, QueueInv, ChunkInv, DeviceInv, [PcmNext]_pcmVars
    PROVE  ChunkInv' /\ DeviceInv'
<1> USE DEF outVars
<1>1. ASSUME UNCHANGED <<received, queue, data, buffers, device, played, gone>>,
             worker' = "fill" <=> worker = "fill"
      PROVE  ChunkInv' /\ DeviceInv'
  BY <1>1 DEF ChunkInv, DeviceInv, Free
<1>2. CASE WaitRobot \/ OpenInput \/ StartInput \/ SetRunning \/ LeaveLoop \/ StopInput \/ StopHost
  BY <1>1, <1>2 DEF WaitRobot, OpenInput, StartInput, SetRunning, LeaveLoop, StopInput, StopHost
<1>3. CASE RobotComesOrGoes \/ DriverStep \/ (\E h \in Capture : Recorded(h)) \/ UNCHANGED pcmVars
  BY <1>1, <1>3 DEF RobotComesOrGoes, DriverStep, TestRunning, AddBuffer, Recorded, pcmVars
<1>4. CASE StopOutput \/ Sleep
  BY <1>1, <1>4 DEF StopOutput, Sleep
<1>5. CASE JoinOutput
  <2>1. /\ UNCHANGED <<received, queue, worker, data, buffers, played, gone>>
        /\ device' = <<>> /\ worker # "fill"
    BY <1>5 DEF JoinOutput
  <2>2. ChunkInv'
    BY <2>1 DEF ChunkInv
  <2>3. Len(played) \in Nat /\ Len(<<>>) = 0
    BY DEF OutType
  <2>4. DeviceInv'
    BY <2>1, <2>3 DEF DeviceInv
  <2>5. QED
    BY <2>2, <2>4
<1>6. CASE Wake \/ Rewake
  <2>1. /\ (stopping \/ queue # <<>>) /\ TakeOrWait /\ worker # "fill"
        /\ UNCHANGED <<received, buffers, device, played, gone>>
    BY <1>6 DEF Wake, Rewake, QueueInv
  <2>2. DeviceInv'
    BY <2>1 DEF DeviceInv
  <2>3. QED
    BY <2>1, <2>2, ChunkTake
<1>7. CASE Write
  <2>1. DeviceInv'
    BY <1>7 DEF Write, DeviceInv
  <2>2. QED
    BY <1>7, <2>1, ChunkWrite
<1>8. QED
  BY <1>2, <1>3, <1>4, <1>5, <1>6, <1>7, ChunkFill, ChunkDone DEF PcmNext, MainStep, WorkerStep

-----------------------------------------------------------------------------
(* PcmStream: the theorems                                                 *)

PcmInv ==
    /\ MainType /\ OutType /\ InType
    /\ QueueInv /\ CaptureInv /\ ChunkInv /\ DeviceInv

LEMMA PcmInvariant == PcmSpec => []PcmInv
<1>1. PcmInit => PcmInv
  <2> SUFFICES ASSUME PcmInit PROVE PcmInv
    OBVIOUS
  <2> USE PcmAssumption DEF PcmInit, NoChunk
  <2>1. <<>> \in Seq(Nat) /\ <<>> \in Seq(Playback) /\ Len(<<>>) = 0 /\ DOMAIN <<>> = {}
    BY EmptySeq
  <2>2. MainType /\ QueueInv
    BY DEF MainType, QueueInv
  <2>3. OutType
    <3>1. queue \in Seq(Nat) /\ device \in Seq(Playback) /\ played \in Seq(Nat)
      BY <2>1
    <3>2. Len(queue) <= QueueLimit + 1
      BY <2>1
    <3>3. data \in Nat /\ buffers \in [Playback -> Nat]
      OBVIOUS
    <3>4. received \in Nat /\ gone \subseteq Nat
      OBVIOUS
    <3>5. QED
      BY <3>1, <3>2, <3>3, <3>4 DEF OutType
  <2>4. InType /\ CaptureInv
    <3>1. InType
      BY DEF InType
    <3>2. CaptureInv
      BY DEF CaptureInv
    <3>3. QED
      BY <3>1, <3>2
  <2>5. ChunkInv /\ DeviceInv
    BY <2>1 DEF ChunkInv, DeviceInv, Rising, ToSet
  <2>6. QED
    BY <2>2, <2>3, <2>4, <2>5 DEF PcmInv
<1>2. PcmInv /\ [PcmNext]_pcmVars => PcmInv'
  <2> SUFFICES ASSUME PcmInv, [PcmNext]_pcmVars PROVE PcmInv'
    OBVIOUS
  <2>1. adding => callback # NoHeader
    BY DEF PcmInv, CaptureInv
  <2>2. MainType' /\ OutType' /\ InType' /\ QueueInv'
    BY <2>1, MainTypeStep, OutTypeStep, InTypeStep DEF PcmInv
  <2>3. CaptureInv' /\ ChunkInv' /\ DeviceInv'
    BY CaptureStep, ChunkStep DEF PcmInv
  <2>4. QED
    BY <2>2, <2>3 DEF PcmInv
<1>3. QED
  BY <1>1, <1>2, PTL DEF PcmSpec

\* Every variable holds a value of its kind; the queue stays within the limit of
\* WaveOutput::write, and the worker finds a chunk in it whenever it takes one.
THEOREM PcmTypes == PcmSpec => []TypeOK
<1>1. PcmInv => TypeOK
  BY DEF PcmInv, MainType, OutType, InType, TypeOK
<1>2. QED
  BY <1>1, PcmInvariant, PTL

\* What the robot sends is played in order and at most once, no buffer is written
\* while the device holds it, and every chunk is accounted for.
THEOREM PlaysInOrder == PcmSpec => []PlayedInOrder
<1>1. PcmInv => PlayedInOrder
  <2> SUFFICES ASSUME PcmInv PROVE PlayedInOrder
    OBVIOUS
  <2>1. DOMAIN played = 1..Len(played) /\ DOMAIN device = 1..Len(device)
    BY DEF PcmInv, OutType
  <2>2. QED
    BY <2>1 DEF PcmInv, ChunkInv, DeviceInv, Rising, PlayedInOrder
<1>2. QED
  BY <1>1, PcmInvariant, PTL

\* While the example records, a capture buffer is idle only if it came before
\* start set running_; a device that main has left holds only the buffers that
\* _wave_in_proc gave back too late, or that a throw left with it.
THEOREM BuffersGoRound == PcmSpec => []CaptureGoesRound
<1>1. PcmInv => CaptureGoesRound
  BY DEF PcmInv, CaptureInv, CaptureGoesRound
<1>2. QED
  BY <1>1, PcmInvariant, PTL

-----------------------------------------------------------------------------
(* PcmStream implements PlaybackContract                                   *)

\* The output is stopped from the moment main has stopped it, and its worker is
\* joined before main goes on.
StopInv ==
    /\ stopping <=> main \in {"join", "stop_host", "end"}
    /\ main \in {"stop_host", "end"} => worker = "ended"

LEMMA StopStep ==
    ASSUME OutType, StopInv, [PcmNext]_pcmVars
    PROVE  StopInv'
<1> USE DEF StopInv, outVars, Goto
<1>1. CASE WaitRobot \/ OpenInput \/ StartInput \/ SetRunning \/ LeaveLoop
  BY <1>1 DEF WaitRobot, OpenInput, StartInput, SetRunning, LeaveLoop
<1>2. CASE StopInput
  BY <1>2 DEF StopInput
<1>3. CASE StopHost
  BY <1>3 DEF StopHost
<1>4. CASE StopOutput \/ JoinOutput
  BY <1>4 DEF StopOutput, JoinOutput
<1>5. CASE WorkerStep
  BY <1>5 DEF WorkerStep, Wake, Sleep, Rewake, Fill
<1>6. CASE RobotComesOrGoes \/ DriverStep \/ (\E h \in Capture : Recorded(h)) \/ UNCHANGED pcmVars
  BY <1>6 DEF RobotComesOrGoes, DriverStep, TestRunning, AddBuffer, Recorded, pcmVars
<1>7. CASE Write \/ Done
  BY <1>7 DEF Write, Done
<1>8. QED
  BY <1>1, <1>2, <1>3, <1>4, <1>5, <1>6, <1>7 DEF PcmNext, MainStep

\* A chunk in front of a sequence of chunks.
LEMMA InFront ==
    ASSUME NEW q \in Seq(Nat), NEW e \in Nat
    PROVE  /\ <<e>> \o q \in Seq(Nat) /\ <<e>> \o q # <<>>
           /\ Len(<<e>> \o q) = Len(q) + 1
           /\ Head(<<e>> \o q) = e /\ Tail(<<e>> \o q) = q
<1> DEFINE r == <<e>> \o q
<1>1. /\ <<e>> \in Seq(Nat) /\ Len(<<e>>) = 1 /\ <<e>>[1] = e /\ Len(q) \in Nat
  OBVIOUS
<1>2. /\ r \in Seq(Nat) /\ Len(r) = 1 + Len(q)
      /\ \A i \in 1..1 + Len(q) : r[i] = IF i <= 1 THEN <<e>>[i] ELSE q[i - 1]
  BY <1>1, ConcatProperties
<1> HIDE DEF r
<1>3. r # <<>> /\ Head(r) = e
  BY <1>1, <1>2
<1>4. /\ Tail(r) \in Seq(Nat) /\ Len(Tail(r)) = Len(q)
      /\ \A i \in 1..Len(Tail(r)) : Tail(r)[i] = r[i + 1]
  BY <1>1, <1>2, <1>3, HeadTailProperties
<1>5. \A i \in 1..Len(q) : r[i + 1] = q[i]
  <2> SUFFICES ASSUME NEW i \in 1..Len(q) PROVE r[i + 1] = q[i]
    OBVIOUS
  <2>1. i + 1 \in 1..1 + Len(q) /\ ~(i + 1 <= 1) /\ (i + 1) - 1 = i
    BY <1>1
  <2>2. QED
    BY <1>2, <2>1
<1>6. Tail(r) = q
  BY <1>4, <1>5, SeqEqual
<1>7. QED
  BY <1>1, <1>2, <1>3, <1>6 DEF r

\* The head back in front of the tail.
LEMMA PutBack ==
    ASSUME NEW q \in Seq(Nat), q # <<>>
    PROVE  <<Head(q)>> \o Tail(q) = q
<1> DEFINE r == <<Head(q)>> \o Tail(q)
<1>1. /\ Head(q) \in Nat /\ Tail(q) \in Seq(Nat) /\ Len(Tail(q)) = Len(q) - 1 /\ Len(q) \in Nat \ {0}
      /\ q[1] = Head(q) /\ \A i \in 1..Len(Tail(q)) : Tail(q)[i] = q[i + 1]
  BY EmptySeq, HeadTailProperties
<1>2. /\ r \in Seq(Nat) /\ Len(r) = Len(q) /\ r # <<>> /\ r[1] = q[1] /\ Tail(r) = Tail(q)
  <2>1. /\ r \in Seq(Nat) /\ r # <<>> /\ Len(r) = Len(Tail(q)) + 1
        /\ Head(r) = Head(q) /\ Tail(r) = Tail(q)
    BY <1>1, InFront
  <2>2. Len(r) = Len(q)
    BY <1>1, <2>1
  <2>3. r[1] = Head(r)
    BY <2>1
  <2>4. QED
    BY <1>1, <2>1, <2>2, <2>3
<1>3. \A i \in 1..Len(Tail(r)) : Tail(r)[i] = r[i + 1]
  BY <1>2, HeadTailProperties
<1> HIDE DEF r
<1>4. ASSUME NEW i \in 1..Len(q), i # 1 PROVE r[i] = q[i]
  <2>1. i - 1 \in 1..Len(Tail(q)) /\ (i - 1) + 1 = i
    BY <1>1, <1>4
  <2>2. QED
    BY <1>1, <1>2, <1>3, <2>1
<1>5. \A i \in 1..Len(r) : r[i] = q[i]
  BY <1>2, <1>4
<1>6. QED
  BY <1>2, <1>5, SeqEqual DEF r

\* A chunk at the end does not mind one in front.
LEMMA FrontAndEnd ==
    ASSUME NEW q \in Seq(Nat), NEW e \in Nat, NEW n \in Nat
    PROVE  <<e>> \o Append(q, n) = Append(<<e>> \o q, n)
<1>1. <<e>> \in Seq(Nat) /\ <<n>> \in Seq(Nat) /\ <<e>> \o q \in Seq(Nat)
  BY InFront
<1>2. \A s \in Seq(Nat) : Append(s, n) = s \o <<n>>
  BY AppendIsConcat
<1>3. QED
  BY <1>1, <1>2, ConcatAssociative

\* The chunks in the buffers of some headers.
Held(q, b) == [i \in 1..Len(q) |-> b[q[i]]]

LEMMA HeldSeq ==
    ASSUME NEW q \in Seq(Playback), NEW b \in [Playback -> Nat]
    PROVE  /\ Held(q, b) \in Seq(Nat) /\ Len(Held(q, b)) = Len(q)
           /\ \A i \in 1..Len(q) : Held(q, b)[i] = b[q[i]]
<1>1. Len(q) \in Nat /\ \A i \in 1..Len(q) : b[q[i]] \in Nat
  BY ElementOfSeq, LenProperties
<1>2. QED
  BY <1>1 DEF Held

\* The first of the headers comes back.
LEMMA HeldTail ==
    ASSUME NEW q \in Seq(Playback), NEW b \in [Playback -> Nat], q # <<>>
    PROVE  Held(q, b) # <<>> /\ Held(Tail(q), b) = Tail(Held(q, b))
<1>1. /\ Tail(q) \in Seq(Playback) /\ Len(Tail(q)) = Len(q) - 1 /\ Len(q) \in Nat \ {0}
      /\ \A i \in 1..Len(Tail(q)) : Tail(q)[i] = q[i + 1]
  BY EmptySeq, HeadTailProperties
<1>2. /\ Held(q, b) \in Seq(Nat) /\ Len(Held(q, b)) = Len(q)
      /\ \A i \in 1..Len(q) : Held(q, b)[i] = b[q[i]]
  BY HeldSeq
<1>3. /\ Held(Tail(q), b) \in Seq(Nat) /\ Len(Held(Tail(q), b)) = Len(Tail(q))
      /\ \A i \in 1..Len(Tail(q)) : Held(Tail(q), b)[i] = b[Tail(q)[i]]
  BY <1>1, HeldSeq
<1>4. Held(q, b) # <<>>
  BY <1>1, <1>2, EmptySeq
<1>5. /\ Tail(Held(q, b)) \in Seq(Nat) /\ Len(Tail(Held(q, b))) = Len(q) - 1
      /\ \A i \in 1..Len(q) - 1 : Tail(Held(q, b))[i] = Held(q, b)[i + 1]
  BY <1>2, <1>4, HeadTailProperties
<1>6. \A i \in 1..Len(q) - 1 : i + 1 \in 1..Len(q)
  BY <1>1
<1>7. \A i \in 1..Len(q) - 1 : Held(Tail(q), b)[i] = Tail(Held(q, b))[i]
  BY <1>1, <1>2, <1>3, <1>5, <1>6
<1>8. QED
  BY <1>1, <1>3, <1>4, <1>5, <1>7, SeqEqual

\* A chunk goes into the buffer of a header that the device does not hold.
LEMMA HeldFill ==
    ASSUME NEW q \in Seq(Playback), NEW b \in [Playback -> Nat], NEW h \in Playback,
           NEW e \in Nat, h \notin ToSet(q)
    PROVE  /\ Held(q, [b EXCEPT ![h] = e]) = Held(q, b)
           /\ Held(Append(q, h), [b EXCEPT ![h] = e]) = Append(Held(q, b), e)
<1> DEFINE c == [b EXCEPT ![h] = e]
<1> DEFINE a == Append(q, h)
<1>1. /\ a \in Seq(Playback) /\ Len(a) = Len(q) + 1 /\ Len(q) \in Nat /\ a[Len(q) + 1] = h
      /\ \A i \in 1..Len(q) : a[i] = q[i]
  OBVIOUS
<1>2. \A i \in 1..Len(q) : q[i] \in Playback /\ q[i] # h
  BY Elements
<1>3. c \in [Playback -> Nat] /\ c[h] = e /\ \A i \in 1..Len(q) : c[q[i]] = b[q[i]]
  BY <1>2
<1> HIDE DEF a, c
<1>4. Held(q, c) = Held(q, b)
  BY <1>3, Zenon DEF Held
<1>5. /\ Held(q, b) \in Seq(Nat) /\ Len(Held(q, b)) = Len(q)
      /\ \A i \in 1..Len(q) : Held(q, b)[i] = b[q[i]]
  BY HeldSeq
<1>6. /\ Held(a, c) \in Seq(Nat) /\ Len(Held(a, c)) = Len(q) + 1
      /\ \A i \in 1..Len(q) + 1 : Held(a, c)[i] = c[a[i]]
  <2>1. /\ Held(a, c) \in Seq(Nat) /\ Len(Held(a, c)) = Len(a)
        /\ \A i \in 1..Len(a) : Held(a, c)[i] = c[a[i]]
    BY <1>1, <1>3, HeldSeq
  <2>2. QED
    BY <1>1, <2>1
<1> DEFINE s == Append(Held(q, b), e)
<1>7. /\ s \in Seq(Nat) /\ Len(s) = Len(q) + 1 /\ s[Len(q) + 1] = e
      /\ \A i \in 1..Len(q) : s[i] = Held(q, b)[i]
  BY <1>5
<1> HIDE DEF s
<1>8. ASSUME NEW i \in 1..Len(q) + 1 PROVE Held(a, c)[i] = s[i]
  <2>1. CASE i \in 1..Len(q)
    <3>1. Held(a, c)[i] = c[q[i]]
      BY <1>1, <1>6, <2>1
    <3>2. s[i] = b[q[i]]
      BY <1>5, <1>7, <2>1
    <3>3. QED
      BY <1>3, <2>1, <3>1, <3>2
  <2>2. CASE i = Len(q) + 1
    BY <1>1, <1>3, <1>6, <1>7, <2>2
  <2>3. QED
    BY <1>1, <2>1, <2>2
<1>9. Held(a, c) = s
  BY <1>6, <1>7, <1>8, SeqEqual
<1>10. QED
  BY <1>4, <1>9 DEF a, c, s

\* A chunk is received; the device and the phase stay as they are.
LEMMA ContractWrite ==
    ASSUME OutType, Write
    PROVE  Contract!Arrive
<1> USE DEF Waiting, Phase
<1>1. /\ received' = received + 1
      /\ UNCHANGED <<main, stopping, worker, data, buffers, device>>
  BY DEF Write
<1>2. /\ queue \in Seq(Nat) /\ data \in Nat /\ received \in Nat /\ received + 1 \in Nat
      /\ QueueLimit \in Nat /\ Len(queue) \in Nat
  BY PcmAssumption DEF OutType
<1>3. Phase' = Phase /\ Playing' = Playing
  BY <1>1 DEF Playing
<1>4. CASE stopping
  <2>1. queue' = queue
    BY <1>4 DEF Write
  <2>2. Phase # "on" /\ Waiting' = Waiting
    BY <1>1, <1>4, <2>1
  <2>3. QED
    BY <1>1, <1>3, <2>2 DEF Contract!Arrive
<1>5. CASE ~stopping /\ Len(queue) > QueueLimit
  <2>1. queue' = Append(Tail(queue), received') /\ Phase = "on"
    BY <1>1, <1>5 DEF Write
  <2>2. queue # <<>> /\ Tail(queue) \in Seq(Nat)
    <3>1. queue # <<>>
      BY <1>2, <1>5, EmptySeq
    <3>2. QED
      BY <1>2, <3>1, HeadTailProperties
  <2>3. CASE worker = "fill"
    <3>1. Waiting = <<data>> \o queue /\ Waiting' = <<data>> \o Append(Tail(queue), received')
      BY <1>1, <2>1, <2>3
    <3>2. /\ Len(<<data>> \o queue) = Len(queue) + 1
          /\ Head(<<data>> \o queue) = data /\ Tail(<<data>> \o queue) = queue
      BY <1>2, InFront
    <3>3. Len(Waiting) > QueueLimit + 1
      <4>1. Len(Waiting) = Len(queue) + 1
        BY <3>1, <3>2, Zenon
      <4>2. QED
        BY <1>2, <1>5, <4>1
    <3>4. Waiting' = <<Head(Waiting)>> \o Append(Tail(Tail(Waiting)), received')
      BY <3>1, <3>2, Zenon
    <3>5. Contract!PushOutSecond
      BY <3>3, <3>4 DEF Contract!PushOutSecond
    <3>6. QED
      BY <1>1, <1>3, <2>1, <3>5 DEF Contract!Arrive
  <2>4. CASE worker # "fill"
    <3>1. Waiting = queue /\ Waiting' = Append(Tail(queue), received')
      BY <1>1, <2>1, <2>4
    <3>2. Contract!PushOutOldest
      BY <1>5, <3>1 DEF Contract!PushOutOldest
    <3>3. QED
      BY <1>1, <1>3, <2>1, <3>2 DEF Contract!Arrive
  <2>5. QED
    BY <2>3, <2>4
<1>6. CASE ~stopping /\ ~(Len(queue) > QueueLimit)
  <2>1. queue' = Append(queue, received') /\ Phase = "on"
    BY <1>1, <1>6 DEF Write
  <2>2. Len(Waiting) <= QueueLimit + 1
    <3>1. Len(<<data>> \o queue) = Len(queue) + 1
      BY <1>2, InFront
    <3>2. QED
      BY <1>2, <1>6, <3>1
  <2>3. Waiting' = Append(Waiting, received')
    <3>1. <<data>> \o Append(queue, received') = Append(<<data>> \o queue, received')
      BY <1>1, <1>2, FrontAndEnd
    <3>2. QED
      BY <1>1, <2>1, <3>1
  <2>4. Contract!Join
    BY <2>2, <2>3 DEF Contract!Join
  <2>5. QED
    BY <1>1, <1>3, <2>1, <2>4 DEF Contract!Arrive
<1>7. QED
  BY <1>4, <1>5, <1>6

\* The chunk that the worker holds starts, or is refused.
LEMMA ContractFill ==
    ASSUME OutType, ChunkInv, StopInv, Fill
    PROVE  Contract!Start
<1>1. /\ worker = "fill" /\ worker' = "cv"
      /\ UNCHANGED <<main, received, stopping, queue, data>>
  BY DEF Fill
<1>2. /\ device \in Seq(Playback) /\ data \in Nat /\ queue \in Seq(Nat)
      /\ buffers \in [Playback -> Nat]
  BY DEF OutType
<1>3. FreeHeader # {} /\ \A h \in FreeHeader : h \in Playback /\ h \notin ToSet(device)
  BY <1>1, FirstFree DEF ChunkInv
<1>4. PICK h \in FreeHeader :
        /\ buffers' = [buffers EXCEPT ![h] = data]
        /\ \/ /\ device' = Append(device, h)
              /\ played' = Append(played, data)
              /\ UNCHANGED gone
           \/ /\ gone' = gone \cup {data}
              /\ UNCHANGED <<device, played>>
  BY <1>3, <1>1, Zenon DEF Fill
<1>5. /\ Waiting = <<data>> \o queue /\ Waiting' = queue
      /\ Waiting # <<>> /\ Head(Waiting) = data /\ Tail(Waiting) = queue
  <2>1. Waiting = <<data>> \o queue /\ Waiting' = queue
    BY <1>1 DEF Waiting
  <2>2. QED
    BY <1>2, <2>1, InFront
<1>6. /\ Held(device, buffers') = Held(device, buffers)
      /\ Held(Append(device, h), buffers') = Append(Held(device, buffers), data)
  <2>1. h \in Playback /\ h \notin ToSet(device)
    BY <1>3
  <2>2. /\ Held(device, [buffers EXCEPT ![h] = data]) = Held(device, buffers)
        /\ Held(Append(device, h), [buffers EXCEPT ![h] = data])
             = Append(Held(device, buffers), data)
    BY <1>2, <2>1, HeldFill
  <2>3. QED
    BY <1>4, <2>2
<1>7. Playing = Held(device, buffers) /\ Playing' = Held(device', buffers')
  BY DEF Playing, Held
<1>8. Playing' \in {Append(Playing, Head(Waiting)), Playing}
  BY <1>4, <1>5, <1>6, <1>7
<1>9. Phase \in {"on", "draining"} /\ Phase' = IF Phase = "draining" THEN "stopped" ELSE Phase
  <2>1. stopping => main \notin {"stop_host", "end"}
    BY <1>1 DEF StopInv
  <2>2. QED
    BY <1>1, <2>1 DEF Phase
<1>10. QED
  BY <1>1, <1>5, <1>8, <1>9 DEF Contract!Start

\* A step of the example is a step of the contract, or changes nothing in it.
LEMMA PlaybackStep ==
    ASSUME PcmInv, StopInv, [PcmNext]_pcmVars
    PROVE  [Contract!Next]_(Contract!vars)
<1> USE DEF Contract!vars, outVars, Goto
<1>1. OutType /\ ChunkInv /\ QueueInv
  BY DEF PcmInv
<1>2. ASSUME UNCHANGED <<received, Waiting, Playing, Phase>> PROVE [Contract!Next]_(Contract!vars)
  BY <1>2
<1>3. CASE WaitRobot \/ OpenInput \/ StartInput \/ SetRunning \/ LeaveLoop \/ StopInput \/ StopHost
  <2>1. UNCHANGED <<received, stopping, queue, worker, data, buffers, device>>
    BY <1>3
    DEF WaitRobot, OpenInput, StartInput, SetRunning, LeaveLoop, StopInput, StopHost
  <2>2. stopping => main \in {"stop_host", "end"} /\ main' \in {"stop_host", "end"}
    BY <1>3
    DEF StopInv, WaitRobot, OpenInput, StartInput, SetRunning, LeaveLoop, StopInput, StopHost
  <2>3. UNCHANGED <<Waiting, Playing, Phase>>
    BY <2>1, <2>2 DEF Waiting, Playing, Phase
  <2>4. QED
    BY <1>2, <2>1, <2>3
<1>4. CASE \/ RobotComesOrGoes \/ DriverStep \/ (\E h \in Capture : Recorded(h)) \/ Sleep
           \/ UNCHANGED pcmVars
  <2>1. /\ UNCHANGED <<main, received, stopping, queue, data, buffers, device>>
        /\ worker' = "fill" <=> worker = "fill"
    BY <1>4 DEF RobotComesOrGoes, DriverStep, TestRunning, AddBuffer, Recorded, Sleep, pcmVars
  <2>2. UNCHANGED <<Waiting, Playing, Phase>>
    BY <2>1 DEF Waiting, Playing, Phase
  <2>3. QED
    BY <1>2, <2>1, <2>2
<1>5. CASE StopOutput
  <2>1. /\ main = "stop_output" /\ main' = "join" /\ stopping'
        /\ UNCHANGED <<received, queue, data, buffers, device>>
        /\ worker' = "fill" <=> worker = "fill"
    BY <1>5 DEF StopOutput
  <2>2. ~stopping
    BY <2>1 DEF StopInv
  <2>3. UNCHANGED <<Waiting, Playing>>
    BY <2>1 DEF Waiting, Playing
  <2>4. Phase = "on" /\ Phase' \in {"draining", "stopped"}
    BY <2>1, <2>2 DEF Phase
  <2>5. Contract!Stop
    BY <2>1, <2>3, <2>4 DEF Contract!Stop
  <2>6. QED
    BY <2>5 DEF Contract!Next
<1>6. CASE JoinOutput
  <2>1. /\ main = "join" /\ worker = "ended" /\ main' \in {"stop_host", "end"} /\ device' = <<>>
        /\ UNCHANGED <<received, stopping, queue, worker, data, buffers>>
    BY <1>6 DEF JoinOutput
  <2>2. stopping
    BY <2>1 DEF StopInv
  <2>3. Waiting' = Waiting /\ Phase = "stopped" /\ Phase' = "closed"
    BY <2>1, <2>2 DEF Waiting, Phase
  <2>4. Playing' = <<>>
    <3>1. <<>> \in Seq(Playback) /\ Len(<<>>) = 0 /\ buffers \in [Playback -> Nat]
      BY <1>1, EmptySeq DEF OutType
    <3>2. Held(<<>>, buffers) \in Seq(Nat) /\ Len(Held(<<>>, buffers)) = 0
      BY <3>1, HeldSeq
    <3>3. Held(<<>>, buffers) = <<>>
      BY <3>2, EmptySeq
    <3>4. Playing' = Held(<<>>, buffers)
      BY <2>1 DEF Playing, Held
    <3>5. QED
      BY <3>3, <3>4
  <2>5. Contract!Close
    BY <2>1, <2>3, <2>4 DEF Contract!Close
  <2>6. QED
    BY <2>5 DEF Contract!Next
<1>7. CASE Wake \/ Rewake
  <2>1. /\ (stopping \/ queue # <<>>) /\ TakeOrWait /\ worker \in {"cv", "woken"}
        /\ UNCHANGED <<main, received, stopping, buffers, device>>
    BY <1>1, <1>7 DEF Wake, Rewake, QueueInv
  <2>2. queue \in Seq(Nat)
    BY <1>1 DEF OutType
  <2>3. CASE stopping /\ worker' = "ended" /\ UNCHANGED <<queue, data>>
    <3>1. UNCHANGED <<Waiting, Playing, Phase>>
      BY <2>1, <2>3 DEF Waiting, Playing, Phase
    <3>2. QED
      BY <1>2, <2>1, <3>1
  <2>4. CASE ~stopping /\ data' = Head(queue) /\ queue' = Tail(queue) /\ worker' = "fill"
    <3>1. <<data'>> \o queue' = queue
      BY <2>1, <2>2, <2>4, PutBack
    <3>2. UNCHANGED <<Waiting, Playing, Phase>>
      BY <2>1, <2>4, <3>1 DEF Waiting, Playing, Phase
    <3>3. QED
      BY <1>2, <2>1, <3>2
  <2>5. CASE ~stopping /\ worker' = "dozing" /\ UNCHANGED <<queue, data>>
    <3>1. UNCHANGED <<Waiting, Playing, Phase>>
      BY <2>1, <2>5 DEF Waiting, Playing, Phase
    <3>2. QED
      BY <1>2, <2>1, <3>1
  <2>6. QED
    BY <2>1, <2>3, <2>4, <2>5 DEF TakeOrWait
<1>8. CASE Done
  <2>1. /\ device # <<>> /\ device' = Tail(device)
        /\ UNCHANGED <<main, received, stopping, queue, data, buffers>>
        /\ worker' = "fill" <=> worker = "fill"
    BY <1>8 DEF Done
  <2>2. device \in Seq(Playback) /\ buffers \in [Playback -> Nat]
    BY <1>1 DEF OutType
  <2>3. Playing # <<>> /\ Playing' = Tail(Playing)
    <3>1. /\ Held(device, buffers) # <<>>
          /\ Held(Tail(device), buffers) = Tail(Held(device, buffers))
      BY <2>1, <2>2, HeldTail
    <3>2. Playing = Held(device, buffers) /\ Playing' = Held(Tail(device), buffers)
      BY <2>1 DEF Playing, Held
    <3>3. QED
      BY <3>1, <3>2
  <2>4. UNCHANGED <<Waiting, Phase>>
    BY <2>1 DEF Waiting, Phase
  <2>5. Contract!Finish
    BY <2>1, <2>3, <2>4 DEF Contract!Finish
  <2>6. QED
    BY <2>5 DEF Contract!Next
<1>9. CASE Write
  BY <1>1, <1>9, ContractWrite DEF Contract!Next
<1>10. CASE Fill
  BY <1>1, <1>10, ContractFill DEF Contract!Next
<1>11. QED
  BY <1>3, <1>4, <1>5, <1>6, <1>7, <1>8, <1>9, <1>10 DEF PcmNext, MainStep, WorkerStep

\* The audio example keeps the playback contract, for any buffers, any limit and
\* any number of chunks.
THEOREM KeepsPlaybackContract == PcmSpec => PlaybackContractSpec
<1>1. PcmInit => StopInv /\ Contract!Init
  <2> SUFFICES ASSUME PcmInit PROVE StopInv /\ Contract!Init
    OBVIOUS
  <2> USE DEF PcmInit, NoChunk
  <2>1. StopInv
    BY DEF StopInv
  <2>2. Waiting = <<>> /\ Phase = "on" /\ received = 0
    BY DEF Waiting, Phase
  <2>3. Playing = <<>>
    <3>1. <<>> \in Seq(Playback) /\ Len(<<>>) = 0 /\ buffers \in [Playback -> Nat]
      BY EmptySeq
    <3>2. Held(<<>>, buffers) \in Seq(Nat) /\ Len(Held(<<>>, buffers)) = 0
      BY <3>1, HeldSeq
    <3>3. Held(<<>>, buffers) = <<>>
      BY <3>2, EmptySeq
    <3>4. Playing = Held(<<>>, buffers)
      BY DEF Playing, Held
    <3>5. QED
      BY <3>3, <3>4
  <2>4. QED
    BY <2>1, <2>2, <2>3 DEF Contract!Init
<1>2. PcmInv /\ StopInv /\ [PcmNext]_pcmVars => StopInv'
  BY StopStep DEF PcmInv
<1>3. PcmInv /\ StopInv /\ [PcmNext]_pcmVars => [Contract!Next]_(Contract!vars)
  BY PlaybackStep
<1>4. QED
  BY <1>1, <1>2, <1>3, PcmInvariant, PTL DEF PcmSpec, PlaybackContractSpec, Contract!Spec
=============================================================================
